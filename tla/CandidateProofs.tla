---------------------------- MODULE CandidateProofs ----------------------------
(***************************************************************************)
(* Safety of what the Agent does with candidates, for every value of the   *)
(* constants.                                                              *)
(*                                                                         *)
(* First their execution: the worker and its ledger alone and with the     *)
(* Agent, the patches and the journal.  Then their planning: sessions,     *)
(* successors, workflow shells and exact requests, for every set of        *)
(* fingerprints, commits, calls and settings that SettingsAssumption       *)
(* allows.                                                                 *)
(***************************************************************************)
EXTENDS CandidateExecution, PlanningSessions, Sequences, TLAPS

----------------------------------------------------------------------------
(* The worker: what its ledger, its handler and its answers say together.  *)

\* A row, and how often the command of its request was started.
RowInv(q) ==
    /\ RowDecodes(rows[q])
    /\ rows[q].state = "absent" => rows[q].digest = None
    /\ rows[q].state \in {"absent", "claimed"} => ~rows[q].started /\ runs[q] = 0
    /\ runs[q] > 0 => rows[q].started
    /\ runs[q] <= 1
    /\ rows[q].state = "completed" => runs[q] = 1

\* A terminal answer is what the row says, and stays it.
ReplyInv(q) ==
    /\ replies[q] # None
    /\ replies[q].state \in TERMINAL_STATES
    => replies[q].state = rows[q].state /\ replies[q].digest = rows[q].digest

\* The place of the handler tells the state of the row it works on: this is
\* what makes the executing marker a barrier.
HandlerInv ==
    /\ handler \in {"claim", "mark", "run", "persist"} => handled \in Post
    /\ handler = "mark" => rows[handled.id].state = "claimed"
    /\ handler \in {"run", "persist"} => rows[handled.id].state = "executing"
    /\ handler = "run" => runs[handled.id] = 0
    /\ handler = "persist" => /\ runs[handled.id] = 1
                              /\ outcome \in {"succeeded", "failed"}

WorkerInv ==
    /\ WorkerTypeOK
    /\ \A q \in Requests : RowInv(q)
    /\ \A q \in Requests : ReplyInv(q)
    /\ HandlerInv

\* What others do to the worker: POSTs come and go, an answer is taken.
Environment ==
    /\ UNCHANGED <<rows, enabled, handler, handled, outcome, runs, setting>>
    /\ inbox' \subseteq Post
    /\ replies' \in [Requests -> Reply \cup {None}]
    /\ \A q \in Requests : replies'[q] \in {replies[q], None}

\* A ledger without rows satisfies it.
LEMMA WorkerInitInv == WorkerInit => WorkerInv
  BY DEF WorkerInit, WorkerInv, WorkerTypeOK, HandlerStep, AbsentRow, RowInv,
     RowDecodes, ReplyInv, HandlerInv

\* Answering a client leaves the ledger alone and the handler idle.
LEMMA AnswerInv ==
    ASSUME WorkerInv, handled \in Post, NEW reply \in Reply, Answer(reply),
           reply.state \in TERMINAL_STATES
              => /\ reply.state = rows'[handled.id].state
                 /\ reply.digest = rows'[handled.id].digest,
           \A q \in Requests :
              rows[q].state \in TERMINAL_STATES => rows'[q] = rows[q]
    PROVE  /\ replies' \in [Requests -> Reply \cup {None}]
           /\ handler' \in HandlerStep
           /\ handled' \in Post \cup {None}
           /\ outcome' \in {None, "succeeded", "failed"}
           /\ (\A q \in Requests : ReplyInv(q))'
           /\ HandlerInv'
<1>1. handled.id \in Requests
  BY DEF Post
<1>2. replies' \in [Requests -> Reply \cup {None}]
  BY <1>1 DEF WorkerInv, WorkerTypeOK, Answer
<1>3. ASSUME NEW q \in Requests PROVE ReplyInv(q)'
  <2>1. CASE q = handled.id
    BY <2>1, <1>1 DEF WorkerInv, WorkerTypeOK, Answer, ReplyInv
  <2>2. CASE q # handled.id
    BY <2>2, <1>1 DEF WorkerInv, WorkerTypeOK, Answer, ReplyInv
  <2> QED
    BY <2>1, <2>2
<1>4. HandlerInv'
  BY DEF Answer, HandlerInv
<1> QED
  BY <1>2, <1>3, <1>4 DEF Answer, HandlerStep

\* No step of the worker or of its clients breaks the ledger.
LEMMA WorkerNextInv == WorkerInv /\ (WorkerNext \/ ClientPosts) => WorkerInv'
<1> SUFFICES ASSUME WorkerInv, WorkerNext \/ ClientPosts PROVE WorkerInv'
  OBVIOUS
<1> USE NoneAssumption
<1>1. CASE Deliver /\ UNCHANGED setting
  BY <1>1 DEF Deliver, WorkerInv, WorkerTypeOK, HandlerStep, RowInv, RowDecodes,
     ReplyInv, HandlerInv
<1>2. CASE RefuseBeforeClaim /\ UNCHANGED setting
  <2>1. handled \in Post /\ Answer(ErrorReply) /\ UNCHANGED <<rows, runs>>
    BY <1>2 DEF RefuseBeforeClaim, WorkerInv, HandlerInv
  <2>2. ErrorReply \in Reply /\ ErrorReply.state \notin TERMINAL_STATES
    BY DEF ErrorReply, Reply, TERMINAL_STATES
  <2> QED
    BY <1>2, <2>1, <2>2, AnswerInv DEF RefuseBeforeClaim, WorkerInv, WorkerTypeOK,
       RowInv, RowDecodes
<1>3. CASE ClaimConflict /\ UNCHANGED setting
  <2>1. handled \in Post /\ Answer(ErrorReply) /\ UNCHANGED <<rows, runs>>
    BY <1>3 DEF ClaimConflict, WorkerInv, HandlerInv
  <2>2. ErrorReply \in Reply /\ ErrorReply.state \notin TERMINAL_STATES
    BY DEF ErrorReply, Reply, TERMINAL_STATES
  <2> QED
    BY <1>3, <2>1, <2>2, AnswerInv DEF ClaimConflict, WorkerInv, WorkerTypeOK,
       RowInv, RowDecodes
<1>4. CASE ClaimNew /\ UNCHANGED setting
  BY <1>4 DEF ClaimNew, WorkerInv, WorkerTypeOK, HandlerStep, RowInv, RowDecodes,
     ReplyInv, HandlerInv, Post, DurableState, TERMINAL_STATES
<1>5. CASE ClaimAgain /\ UNCHANGED setting
  BY <1>5 DEF ClaimAgain, MayStart, WorkerInv, WorkerTypeOK, HandlerStep, RowInv,
     RowDecodes, ReplyInv, HandlerInv, Post
<1>6. CASE AnswerStored /\ UNCHANGED setting
  <2>1. handled \in Post /\ Answer(Envelope(rows[handled.id]))
        /\ UNCHANGED <<rows, runs>>
    BY <1>6 DEF AnswerStored, WorkerInv, HandlerInv
  <2>2. Envelope(rows[handled.id]) \in Reply
    BY <1>6, <2>1 DEF AnswerStored, WorkerInv, WorkerTypeOK, RowInv, Post,
       Envelope, Reply
  <2> QED
    BY <1>6, <2>1, <2>2, AnswerInv DEF AnswerStored, WorkerInv, WorkerTypeOK,
       RowInv, RowDecodes, Envelope
<1>7. CASE MarkExecuting /\ UNCHANGED setting
  BY <1>7 DEF MarkExecuting, WorkerInv, WorkerTypeOK, HandlerStep, RowInv,
     RowDecodes, ReplyInv, HandlerInv, Post, DurableState, TERMINAL_STATES
<1>8. CASE PersistDisabled /\ UNCHANGED setting
  <2> DEFINE row == [rows[handled.id] EXCEPT !.state = "failed_terminal"]
  <2>1. /\ handled \in Post /\ handled.id \in Requests
        /\ rows[handled.id].state = "claimed"
        /\ Answer(Envelope(row)) /\ UNCHANGED runs
        /\ rows' = [rows EXCEPT ![handled.id] = row]
    BY <1>8 DEF PersistDisabled, WorkerInv, HandlerInv, Post
  <2>2. /\ row \in [state : DurableState \cup {"absent"},
                    digest : Digests \cup {None}, started : BOOLEAN]
        /\ row.state = "failed_terminal" /\ row.started = rows[handled.id].started
        /\ Envelope(row) \in Reply
    BY <2>1 DEF WorkerInv, WorkerTypeOK, DurableState, Envelope, Reply
  <2> HIDE DEF row
  <2>3. rows' \in [Requests -> [state : DurableState \cup {"absent"},
                    digest : Digests \cup {None}, started : BOOLEAN]]
    BY <2>1, <2>2 DEF WorkerInv, WorkerTypeOK
  <2>4. ASSUME NEW q \in Requests PROVE RowInv(q)'
    BY <2>1, <2>2 DEF WorkerInv, WorkerTypeOK, RowInv, RowDecodes
  <2>5. /\ Envelope(row).state = rows'[handled.id].state
        /\ Envelope(row).digest = rows'[handled.id].digest
        /\ \A q \in Requests :
              rows[q].state \in TERMINAL_STATES => rows'[q] = rows[q]
    BY <2>1, <2>2 DEF WorkerInv, WorkerTypeOK, Envelope, TERMINAL_STATES
  <2> QED
    BY <1>8, <2>1, <2>2, <2>3, <2>4, <2>5, AnswerInv DEF PersistDisabled, WorkerInv,
       WorkerTypeOK
<1>9. CASE RunCommand /\ UNCHANGED setting
  BY <1>9 DEF RunCommand, WorkerInv, WorkerTypeOK, HandlerStep, RowInv,
     RowDecodes, ReplyInv, HandlerInv, Post
<1>10. CASE StartedThenRaised /\ UNCHANGED setting
  <2>1. handled \in Post /\ Answer(ErrorReply) /\ UNCHANGED <<rows, runs>>
    BY <1>10 DEF StartedThenRaised, WorkerInv, HandlerInv
  <2>2. ErrorReply \in Reply /\ ErrorReply.state \notin TERMINAL_STATES
    BY DEF ErrorReply, Reply, TERMINAL_STATES
  <2> QED
    BY <1>10, <2>1, <2>2, AnswerInv DEF StartedThenRaised, WorkerInv, WorkerTypeOK,
       RowInv, RowDecodes
<1>11. CASE PersistResult /\ UNCHANGED setting
  <2> DEFINE row == [rows[handled.id] EXCEPT !.state = ResultState(outcome)]
  <2>1. /\ handled \in Post /\ handled.id \in Requests
        /\ rows[handled.id].state = "executing" /\ runs[handled.id] = 1
        /\ Answer(Envelope(row)) /\ UNCHANGED runs
        /\ rows' = [rows EXCEPT ![handled.id] = row]
    BY <1>11 DEF PersistResult, WorkerInv, HandlerInv, Post
  <2>2. /\ row \in [state : DurableState \cup {"absent"},
                    digest : Digests \cup {None}, started : BOOLEAN]
        /\ row.state \in {"completed", "failed_terminal"}
        /\ row.started = rows[handled.id].started
        /\ Envelope(row) \in Reply
    BY <2>1 DEF WorkerInv, WorkerTypeOK, DurableState, Envelope, Reply, ResultState
  <2> HIDE DEF row
  <2>3. rows' \in [Requests -> [state : DurableState \cup {"absent"},
                    digest : Digests \cup {None}, started : BOOLEAN]]
    BY <2>1, <2>2 DEF WorkerInv, WorkerTypeOK
  <2>4. ASSUME NEW q \in Requests PROVE RowInv(q)'
    BY <2>1, <2>2 DEF WorkerInv, WorkerTypeOK, RowInv, RowDecodes
  <2>5. /\ Envelope(row).state = rows'[handled.id].state
        /\ Envelope(row).digest = rows'[handled.id].digest
        /\ \A q \in Requests :
              rows[q].state \in TERMINAL_STATES => rows'[q] = rows[q]
    BY <2>1, <2>2 DEF WorkerInv, WorkerTypeOK, Envelope, TERMINAL_STATES
  <2> QED
    BY <1>11, <2>1, <2>2, <2>3, <2>4, <2>5, AnswerInv DEF PersistResult, WorkerInv,
       WorkerTypeOK
<1>12. CASE WorkerCrash /\ UNCHANGED setting
  BY <1>12 DEF WorkerCrash, WorkerInv, WorkerTypeOK, HandlerStep, RowInv,
     RowDecodes, ReplyInv, HandlerInv
<1>13. CASE WorkerStart /\ UNCHANGED setting
  <2>1. ASSUME NEW q \in Requests
        PROVE  /\ rows'[q] = Reconciled(rows[q])
               /\ Reconciled(rows[q]) \in [state : DurableState \cup {"absent"},
                    digest : Digests \cup {None}, started : BOOLEAN]
               /\ RowInv(q)' /\ ReplyInv(q)'
    BY <1>13 DEF WorkerStart, WorkerInv, WorkerTypeOK, Reconciled, DurableState,
       RowInv, RowDecodes, ReplyInv, TERMINAL_STATES
  <2> QED
    BY <1>13, <2>1 DEF WorkerStart, WorkerInv, WorkerTypeOK, HandlerStep, HandlerInv
<1>14. CASE LosePost /\ UNCHANGED setting
  BY <1>14 DEF LosePost, WorkerInv, WorkerTypeOK, RowInv, RowDecodes, ReplyInv,
     HandlerInv
<1>15. CASE ClientPosts
  BY <1>15 DEF ClientPosts, WorkerInv, WorkerTypeOK, RowInv, RowDecodes, ReplyInv,
     HandlerInv
<1> QED
  BY <1>1, <1>2, <1>3, <1>4, <1>5, <1>6, <1>7, <1>8, <1>9, <1>10, <1>11, <1>12,
     <1>13, <1>14, <1>15 DEF WorkerNext

\* Nor does an environment that posts and takes answers.
LEMMA EnvironmentInv == WorkerInv /\ Environment => WorkerInv'
  BY DEF Environment, WorkerInv, WorkerTypeOK, RowInv, RowDecodes, ReplyInv,
     HandlerInv

\* What the worker does to a row that is terminal, and to a digest.
RowsFinal ==
    \A q \in Requests :
       /\ rows[q].state \in TERMINAL_STATES => rows'[q] = rows[q]
       /\ rows[q].digest # None => rows'[q].digest = rows[q].digest

\* Only a claimed or an executing row is written, and never its digest.
LEMMA WorkerNextFinal ==
    ASSUME WorkerInv, WorkerNext \/ ClientPosts
    PROVE  RowsFinal
<1>1. CASE UNCHANGED rows
  BY <1>1 DEF RowsFinal
<1>2. CASE ClaimNew \/ MarkExecuting \/ PersistDisabled \/ PersistResult
  BY <1>2 DEF ClaimNew, MarkExecuting, PersistDisabled, PersistResult, WorkerInv,
     WorkerTypeOK, HandlerInv, RowInv, Post, RowsFinal, TERMINAL_STATES
<1>3. CASE WorkerStart
  BY <1>3 DEF WorkerStart, Reconciled, WorkerInv, WorkerTypeOK, RowsFinal,
     TERMINAL_STATES
<1> QED
  BY <1>1, <1>2, <1>3 DEF WorkerNext, ClientPosts, Deliver, RefuseBeforeClaim,
     ClaimConflict, ClaimAgain, AnswerStored, RunCommand, StartedThenRaised,
     WorkerCrash, LosePost

\* The invariant is what the worker's properties follow from.
LEMMA WorkerSafe == WorkerInv => AtMostOneRun /\ LedgerInv
  BY DEF WorkerInv, RowInv, ReplyInv, AtMostOneRun, LedgerInv, RunIsRecorded,
     RowsDecode, SuccessWasRun, TERMINAL_STATES

----------------------------------------------------------------------------
(* The Agent: what a session, the journal and the resumes say together.    *)

Thread == [pc : ThreadStep, wf : Workflows \cup {None},
           seen : SessionState \cup {None}, answer : ExecutionStatus \cup {None},
           base : SUBSET Workflows, recovery : BOOLEAN]

AgentTypeOK ==
    /\ sessions \in [Workflows -> Session]
    /\ journal \in Workflows \cup {None}
    /\ tree \subseteq Workflows
    /\ diskOk \in BOOLEAN
    /\ threads \in [Threads -> Thread]
    /\ submits \in [Workflows -> Nat]

\* The places before a session is claimed, those that may lead to a submission,
\* and those that only a completed command leads to.
Early == {"idle", "validate", "block", "claim"}
Submitting == {"record", "submit"}
Patching == {"inspect", "precheck", "check", "apply", "scope", "checkpoint"}

Waiting(w) == sessions[w].state = "awaiting_implementation_approval"

\* Nothing has happened to a workflow that still waits for its approval; a
\* session's outcome is that of its row.
SessionInv(w) ==
    /\ Waiting(w) => /\ sessions[w] = NewSession
                     /\ submits[w] = 0
                     /\ journal # w
                     /\ w \notin tree
    /\ submits[w] <= 1
    /\ submits[w] > 0 => sessions[w].recorded
    /\ w \in tree \/ sessions[w].applied \/ journal = w
          => rows[w].state = "completed"
    /\ sessions[w].result = "failed" => rows[w].state = "failed_terminal"

\* The place of a resume tells what has been submitted, and what came of it.
ThreadInv(t) ==
    LET k == threads[t] IN
    /\ k.pc # "idle" => k.wf \in Workflows
    /\ k.pc \in {"validate", "block", "claim"}
          => k.seen \in {"awaiting_implementation_approval", "blocked"}
    /\ k.pc \notin Early => ~Waiting(k.wf)
    /\ k.pc \in Submitting => submits[k.wf] = 0
    /\ k.pc = "submit" => sessions[k.wf].recorded
    /\ k.pc = "answered" =>
          /\ k.answer = "succeeded" => rows[k.wf].state = "completed"
          /\ k.answer = "failed" => rows[k.wf].state = "failed_terminal"
    /\ k.pc \in Patching \cup {"write_journal"} => rows[k.wf].state = "completed"
    /\ k.pc = "clear" => sessions[k.wf].applied
    /\ k.pc = "prepare" => k.seen = "patch_applied_pending_verification"

\* Of the resumes of one workflow, one at most may still submit.
OneSubmitter ==
    \A t, u \in Threads :
       /\ threads[t].pc \in Submitting /\ threads[u].pc \in Submitting
       /\ threads[t].wf = threads[u].wf
       => t = u

\* While no other workflow has been claimed, the journal belongs to this one:
\* its intent stays there until its checkpoint is stored.
PatchInv(w) ==
    Alone(w) =>
      /\ w \in tree /\ ~sessions[w].applied => journal = w
      /\ \A t \in Threads :
           /\ threads[t].wf = w
           /\ threads[t].pc \in Patching /\ ~sessions[w].applied
           => journal = w

AgentInv ==
    /\ AgentTypeOK
    /\ \A w \in Workflows : SessionInv(w)
    /\ \A t \in Threads : ThreadInv(t)
    /\ OneSubmitter
    /\ \A w \in Workflows : PatchInv(w)

Inv == WorkerInv /\ AgentInv

\* Nothing is claimed, submitted or applied at the start.
LEMMA AgentInitInv == Init => AgentInv
<1> SUFFICES ASSUME Init PROVE AgentInv
  OBVIOUS
<1> USE NoneAssumption, OutcomeAssumption
<1>1. AgentTypeOK
  BY DEF Init, AgentTypeOK, NewSession, Session, SessionState, ExecutionStatus,
     Idle, Thread, ThreadStep, Workflows
<1>2. ASSUME NEW w \in Workflows PROVE SessionInv(w) /\ PatchInv(w)
  BY DEF Init, SessionInv, PatchInv, NewSession, ExecutionStatus, Idle, Workflows, Patching, Waiting
<1>3. ASSUME NEW t \in Threads PROVE ThreadInv(t)
  BY DEF Init, ThreadInv, Idle, Early, Submitting, Patching
<1>4. OneSubmitter
  BY DEF Init, OneSubmitter, Idle, Submitting
<1> QED
  BY <1>1, <1>2, <1>3, <1>4 DEF AgentInv

----------------------------------------------------------------------------
(* What a step of one resume changes.                                      *)

\* Resume t alone moves.
OnlyMoves(t) ==
    /\ threads' \in [Threads -> Thread]
    /\ \A u \in Threads \ {t} : threads'[u] = threads[u]

\* Resume t goes on to pc with all it knows.
Moves(t, pc) ==
    /\ OnlyMoves(t)
    /\ threads'[t].pc = pc
    /\ threads'[t].wf = threads[t].wf
    /\ threads'[t].seen = threads[t].seen
    /\ threads'[t].answer = threads[t].answer
    /\ threads'[t].base = threads[t].base

\* Resume t is over.
Ends(t) == OnlyMoves(t) /\ threads'[t].pc = "idle" /\ threads'[t].wf = None

\* Session w becomes new, the others stay.
Becomes(w, new) ==
    /\ sessions' \in [Workflows -> Session]
    /\ sessions'[w] = new
    /\ \A v \in Workflows \ {w} : sessions'[v] = sessions[v]

\* No step takes a session back to its approval, forgets the request it
\* recorded or the patch it applied.
Grows ==
    \A w \in Workflows :
       /\ Waiting(w)' => sessions'[w] = sessions[w]
       /\ sessions[w].recorded => sessions'[w].recorded
       /\ sessions[w].applied => sessions'[w].applied

\* Goto is such a step.
LEMMA GotoMoves ==
    ASSUME AgentTypeOK, NEW t \in Threads, NEW pc \in ThreadStep, Goto(t, pc)
    PROVE  Moves(t, pc)
<1>1. /\ threads[t] \in Thread
      /\ threads' = [threads EXCEPT ![t] = [threads[t] EXCEPT !.pc = pc]]
  BY DEF AgentTypeOK, Goto
<1>2. [threads[t] EXCEPT !.pc = pc] \in Thread
  BY <1>1 DEF Thread
<1> DEFINE k == [threads[t] EXCEPT !.pc = pc]
<1>3. /\ k.pc = pc /\ k.wf = threads[t].wf /\ k.seen = threads[t].seen
      /\ k.answer = threads[t].answer /\ k.base = threads[t].base
  BY <1>1 DEF Thread
<1> HIDE DEF k
<1> QED
  BY <1>1, <1>2, <1>3 DEF AgentTypeOK, Moves, OnlyMoves, k

\* An idle resume knows nothing.
LEMMA IdleTyped == Idle \in Thread /\ Idle.pc = "idle" /\ Idle.wf = None
  BY DEF Idle, Thread, ThreadStep, Workflows

\* Finish ends the resume.
LEMMA FinishEnds ==
    ASSUME AgentTypeOK, NEW t \in Threads, Finish(t)
    PROVE  Ends(t)
  BY IdleTyped DEF AgentTypeOK, Finish, Ends, OnlyMoves

\* Swap writes one session.
LEMMA SwapBecomes ==
    ASSUME AgentTypeOK, NEW w \in Workflows, NEW new \in Session, Swap(w, new)
    PROVE  Becomes(w, new)
  BY DEF AgentTypeOK, Swap, Becomes

\* A new state leaves the rest of a session as it is.
LEMMA ToSession ==
    ASSUME AgentTypeOK, NEW w \in Workflows, NEW state \in SessionState
    PROVE  /\ To(w, state) \in Session
           /\ To(w, state).state = state
           /\ To(w, state).recorded = sessions[w].recorded
           /\ To(w, state).result = sessions[w].result
           /\ To(w, state).applied = sessions[w].applied
  BY DEF AgentTypeOK, To, Session

\* The other resumes see nothing they do not know: what they rest on is never
\* taken back.
LEMMA OthersInv ==
    ASSUME Inv, NEW t \in Threads, OnlyMoves(t), Grows, RowsFinal,
           sessions' \in [Workflows -> Session],
           \A w \in Workflows :
              \/ submits'[w] = submits[w]
              \/ w = threads[t].wf /\ threads[t].pc \in Submitting
    PROVE  \A u \in Threads \ {t} : ThreadInv(u)'
<1> SUFFICES ASSUME NEW u \in Threads \ {t} PROVE ThreadInv(u)'
  OBVIOUS
<1>1. threads'[u] = threads[u] /\ ThreadInv(u)
  BY DEF OnlyMoves, Inv, AgentInv
<1>2. threads[u].pc \in Submitting =>
         submits'[threads[u].wf] = submits[threads[u].wf]
  BY <1>1 DEF Inv, AgentInv, OneSubmitter, ThreadInv, Submitting
<1>3. ASSUME threads[u].pc # "idle", Waiting(threads[u].wf)'
      PROVE  Waiting(threads[u].wf)
  BY <1>1, <1>3 DEF ThreadInv, Grows, Waiting
<1>4. threads[u].pc # "idle" =>
        /\ rows[threads[u].wf].state \in TERMINAL_STATES =>
              rows'[threads[u].wf] = rows[threads[u].wf]
        /\ sessions[threads[u].wf].recorded => sessions'[threads[u].wf].recorded
        /\ sessions[threads[u].wf].applied => sessions'[threads[u].wf].applied
  BY <1>1 DEF ThreadInv, Grows, RowsFinal, Workflows
<1> QED
  BY <1>1, <1>2, <1>3, <1>4 DEF ThreadInv, Early, Submitting, Patching,
     TERMINAL_STATES

\* A resume comes to submit only by claiming a session that waits, and then no
\* other resume is past its claim.
LEMMA SubmittersInv ==
    ASSUME Inv, NEW t \in Threads, OnlyMoves(t),
           threads'[t].pc \in Submitting =>
              /\ threads'[t].wf = threads[t].wf
              /\ threads[t].pc \in Submitting \/ Waiting(threads[t].wf)
    PROVE  OneSubmitter'
  BY DEF Inv, AgentInv, OneSubmitter, OnlyMoves, ThreadInv, Early, Submitting

\* A step that writes no session: what is left to show is about its own resume
\* and about the patch.
LEMMA ThreadStepInv ==
    ASSUME Inv, NEW t \in Threads, OnlyMoves(t),
           UNCHANGED <<rows, sessions, journal, tree, diskOk, submits>>,
           ThreadInv(t)',
           threads'[t].pc \in Submitting =>
              threads[t].pc \in Submitting /\ threads'[t].wf = threads[t].wf,
           \A w \in Workflows :
              /\ Alone(w) /\ threads'[t].wf = w
              /\ threads'[t].pc \in Patching /\ ~sessions[w].applied
              => journal = w
    PROVE  AgentInv'
<1>1. Grows /\ RowsFinal
  BY DEF Grows, RowsFinal, Waiting
<1>2. AgentTypeOK'
  BY DEF Inv, AgentInv, AgentTypeOK, OnlyMoves
<1>3. \A u \in Threads : ThreadInv(u)'
  BY <1>1, OthersInv DEF Inv, AgentInv, AgentTypeOK
<1>4. \A w \in Workflows : SessionInv(w)'
  BY DEF Inv, AgentInv, SessionInv, Waiting
<1>5. OneSubmitter'
  BY SubmittersInv
<1>6. ASSUME NEW w \in Workflows, Alone(w)' PROVE PatchInv(w)'
  <2>1. Alone(w) /\ PatchInv(w)
    BY <1>6 DEF Alone, Inv, AgentInv
  <2>2. \A u \in Threads \ {t} : threads'[u] = threads[u]
    BY DEF OnlyMoves
  <2> QED
    BY <2>1, <2>2 DEF PatchInv
<1>7. \A w \in Workflows : PatchInv(w)'
  BY <1>6 DEF PatchInv
<1> QED
  BY <1>2, <1>3, <1>4, <1>5, <1>7 DEF AgentInv

\* A step that writes the session of its own resume, past the approval, and
\* leaves the applier.
LEMMA SessionStepInv ==
    ASSUME Inv, NEW t \in Threads, OnlyMoves(t),
           UNCHANGED <<rows, journal, tree, diskOk, submits>>,
           NEW w \in Workflows, threads[t].wf = w,
           NEW new \in Session, Becomes(w, new),
           new.state # "awaiting_implementation_approval",
           sessions[w].recorded => new.recorded,
           sessions[w].applied => new.applied,
           new.applied => sessions[w].applied \/ rows[w].state = "completed",
           new.result = "failed" => rows[w].state = "failed_terminal",
           ThreadInv(t)',
           threads'[t].pc \notin Patching,
           threads'[t].pc \in Submitting =>
              /\ threads'[t].wf = w
              /\ threads[t].pc \in Submitting \/ Waiting(w)
    PROVE  AgentInv'
<1>1. Grows /\ RowsFinal /\ sessions' \in [Workflows -> Session]
  BY DEF Grows, RowsFinal, Becomes, Waiting
<1>2. AgentTypeOK'
  BY <1>1 DEF Inv, AgentInv, AgentTypeOK, OnlyMoves
<1>3. \A u \in Threads : ThreadInv(u)'
  BY <1>1, OthersInv DEF Inv, AgentInv
<1>4. ASSUME NEW v \in Workflows PROVE SessionInv(v)'
  <2>1. CASE v = w
    BY <2>1 DEF Inv, AgentInv, SessionInv, Waiting, Becomes
  <2>2. CASE v # w
    BY <2>2 DEF Inv, AgentInv, SessionInv, Waiting, Becomes
  <2> QED
    BY <2>1, <2>2
<1>5. OneSubmitter'
  BY SubmittersInv
<1>6. ASSUME NEW v \in Workflows, Alone(v)' PROVE PatchInv(v)'
  <2>1. v = w
    BY <1>6 DEF Alone, Becomes, NewSession
  <2>2. Alone(w) /\ PatchInv(w)
    BY <1>6, <2>1 DEF Alone, Becomes, Inv, AgentInv
  <2>3. \A u \in Threads \ {t} : threads'[u] = threads[u]
    BY DEF OnlyMoves
  <2>4. {"check", "apply", "scope", "checkpoint"} \subseteq Patching
    BY DEF Patching
  <2>5. sessions'[w] = new
    BY DEF Becomes
  <2> QED
    BY <2>1, <2>2, <2>3, <2>4, <2>5 DEF PatchInv
<1>7. \A v \in Workflows : PatchInv(v)'
  BY <1>6 DEF PatchInv
<1> QED
  BY <1>2, <1>3, <1>4, <1>5, <1>7 DEF AgentInv

----------------------------------------------------------------------------
(* The steps of a resume.                                                  *)

\* Before the claim and between the answers a resume only moves.
LEMMA ResumeInv ==
    ASSUME Inv, NEW t \in Threads, NEW w \in Workflows, Resume(t, w)
    PROVE  AgentInv'
<1> USE NoneAssumption, OutcomeAssumption
<1>1. PICK pc \in {"read_journal", "validate", "prepare"} :
        /\ threads' = [threads EXCEPT ![t] =
             [Idle EXCEPT !.pc = pc, !.wf = w, !.seen = sessions[w].state]]
        /\ pc = "validate" =>
             sessions[w].state \in {"awaiting_implementation_approval", "blocked"}
        /\ pc = "read_journal" => sessions[w].state = "executing"
        /\ pc = "prepare" =>
             sessions[w].state = "patch_applied_pending_verification"
        /\ UNCHANGED <<rows, sessions, journal, tree, diskOk, submits>>
  BY DEF Resume, CanReconcile, workerVars, history
<1> DEFINE k == [Idle EXCEPT !.pc = pc, !.wf = w, !.seen = sessions[w].state]
<1>2. /\ k \in Thread /\ k.pc = pc /\ k.wf = w /\ k.seen = sessions[w].state
      /\ sessions[w] \in Session
  BY DEF Idle, Thread, ThreadStep, Inv, AgentInv, AgentTypeOK, Session
<1> HIDE DEF k
<1>3. OnlyMoves(t) /\ threads'[t] = k
  BY <1>1, <1>2 DEF OnlyMoves, Inv, AgentInv, AgentTypeOK, k
<1>4. ThreadInv(t)'
  BY <1>1, <1>2, <1>3 DEF ThreadInv, Early, Submitting, Patching, Waiting
<1> QED
  BY <1>1, <1>2, <1>3, <1>4, ThreadStepInv DEF Submitting, Patching

\* The steps that write neither a session nor the journal nor the checkout.
LEMMA MoveInv ==
    ASSUME Inv, NEW t \in Threads,
           \/ ReadJournal(t) \/ Validate(t) \/ ReceiveReply(t)
           \/ LookupAnswered(t) \/ TransportError(t) \/ TakeSuccess(t)
           \/ Inspect(t) \/ PreCheck(t) \/ CheckPatch(t) \/ HandleError(t)
    PROVE  AgentInv'
<1> USE NoneAssumption, OutcomeAssumption
<1> DEFINE w == threads[t].wf
<1>1. /\ AgentTypeOK /\ ThreadInv(t)
      /\ threads[t] \in Thread
      /\ threads[t].pc # "idle" => SessionInv(w) /\ PatchInv(w) /\ w \in Workflows
  BY DEF Inv, AgentInv, AgentTypeOK, ThreadInv
<1>2. UNCHANGED <<rows, sessions, journal, tree, diskOk, submits>>
  BY DEF ReadJournal, Validate, ReceiveReply, LookupAnswered, TransportError,
     TakeSuccess, Inspect, PreCheck, CheckPatch, HandleError, TakesForApplied,
     workerVars, history
<1>3. CASE ReadJournal(t)
  <2>1. ASSUME journal = w PROVE AgentInv'
    <3> DEFINE k == [threads[t] EXCEPT !.pc = "inspect", !.recovery = TRUE]
    <3>1. /\ k \in Thread /\ k.pc = "inspect" /\ k.wf = w
          /\ threads' = [threads EXCEPT ![t] = k]
      BY <1>1, <1>3, <2>1 DEF ReadJournal, Thread, ThreadStep
    <3> HIDE DEF k
    <3>2. OnlyMoves(t) /\ threads'[t] = k
      BY <1>1, <3>1 DEF OnlyMoves, AgentTypeOK
    <3>3. ThreadInv(t)'
      BY <1>1, <1>2, <1>3, <2>1, <3>1, <3>2 DEF ReadJournal, ThreadInv, SessionInv,
         Early, Submitting, Patching, Waiting
    <3> QED
      BY <1>2, <2>1, <3>1, <3>2, <3>3, ThreadStepInv DEF Submitting, Patching
  <2>2. ASSUME journal # w PROVE AgentInv'
    <3>1. Ends(t)
      BY <1>1, <1>3, <2>2, FinishEnds DEF ReadJournal
    <3> QED
      BY <1>2, <3>1, ThreadStepInv DEF Ends, ThreadInv, Early, Submitting, Patching
  <2> QED
    BY <2>1, <2>2
<1>4. CASE Validate(t)
  <2>1. Ends(t) \/ Moves(t, "block") \/ Moves(t, "claim")
    BY <1>1, <1>4, FinishEnds, GotoMoves DEF Validate, ThreadStep
  <2>2. ThreadInv(t)'
    BY <1>1, <1>2, <1>4, <2>1 DEF Validate, Ends, Moves, ThreadInv, Early,
       Submitting, Patching
  <2> QED
    BY <1>2, <2>1, <2>2, ThreadStepInv DEF Ends, Moves, Submitting, Patching
<1>5. CASE ReceiveReply(t) \/ LookupAnswered(t) \/ TransportError(t)
  <2>1. PICK status \in ExecutionStatus :
          /\ Answered(t, status) /\ threads[t].pc \in {"wait", "lookup"}
          /\ status = "succeeded" => rows[w].state = "completed"
          /\ status = "failed" => rows[w].state = "failed_terminal"
    <3>1. CASE ReceiveReply(t)
      BY <1>1, <3>1 DEF ReceiveReply, Decode, Inv, WorkerInv, ReplyInv,
         ExecutionStatus, TERMINAL_STATES, Workflows
    <3>2. CASE LookupAnswered(t)
      BY <1>1, <3>2 DEF LookupAnswered, Decode, Envelope, ExecutionStatus
    <3>3. CASE TransportError(t)
      BY <1>1, <3>3 DEF TransportError, ExecutionStatus
    <3> QED
      BY <1>5, <3>1, <3>2, <3>3
  <2> DEFINE k == [threads[t] EXCEPT !.pc = "answered", !.answer = status]
  <2>2. /\ k \in Thread /\ k.pc = "answered" /\ k.wf = w /\ k.answer = status
        /\ threads' = [threads EXCEPT ![t] = k]
    BY <1>1, <2>1 DEF Answered, Thread, ThreadStep
  <2> HIDE DEF k
  <2>3. OnlyMoves(t) /\ threads'[t] = k
    BY <1>1, <2>2 DEF OnlyMoves, AgentTypeOK
  <2>4. ThreadInv(t)'
    BY <1>1, <1>2, <2>1, <2>2, <2>3 DEF ThreadInv, Early, Submitting, Patching,
       Waiting
  <2> QED
    BY <1>2, <2>2, <2>3, <2>4, ThreadStepInv DEF Submitting, Patching
<1>6. CASE TakeSuccess(t)
  <2>1. Moves(t, "write_journal")
    BY <1>1, <1>6, GotoMoves DEF TakeSuccess, ThreadStep
  <2>2. ThreadInv(t)'
    BY <1>1, <1>2, <1>6, <2>1 DEF TakeSuccess, Moves, ThreadInv, Early, Submitting,
       Patching, Waiting
  <2> QED
    BY <1>2, <2>1, <2>2, ThreadStepInv DEF Moves, Submitting, Patching
<1>7. CASE Inspect(t)
  <2>1. \/ Moves(t, "error")
        \/ w \in tree /\ Moves(t, "checkpoint")
        \/ w \notin tree /\ Moves(t, "precheck")
    BY <1>1, <1>7, GotoMoves DEF Inspect, TakesForApplied, ThreadStep
  <2>2. ThreadInv(t)'
    BY <1>1, <1>2, <1>7, <2>1 DEF Inspect, Moves, ThreadInv, Early, Submitting,
       Patching, Waiting
  <2> QED
    BY <1>1, <1>2, <1>7, <2>1, <2>2, ThreadStepInv DEF Inspect, Moves, PatchInv,
       Submitting, Patching
<1>8. CASE PreCheck(t)
  <2>1. CASE Goto(t, "error") \/ Goto(t, "checkpoint")
    <3>1. Moves(t, "error") \/ Moves(t, "checkpoint")
      BY <1>1, <2>1, GotoMoves DEF ThreadStep
    <3>2. ThreadInv(t)'
      BY <1>1, <1>2, <1>8, <3>1 DEF PreCheck, Moves, ThreadInv, Early, Submitting,
         Patching, Waiting
    <3> QED
      BY <1>1, <1>2, <1>8, <3>1, <3>2, ThreadStepInv DEF PreCheck, Moves, PatchInv,
         Submitting, Patching
  <2>2. CASE ~(Goto(t, "error") \/ Goto(t, "checkpoint"))
    <3> DEFINE k == [threads[t] EXCEPT !.pc = "check", !.base = tree]
    <3>1. threads' = [threads EXCEPT ![t] = k] /\ threads[t].pc = "precheck"
      BY <1>1, <1>8, <2>2 DEF PreCheck, AgentTypeOK
    <3>2. k \in Thread /\ k.pc = "check" /\ k.wf = w
      BY <1>1 DEF Thread, ThreadStep, AgentTypeOK
    <3> HIDE DEF k
    <3>3. OnlyMoves(t) /\ threads'[t] = k
      BY <1>1, <3>1, <3>2 DEF OnlyMoves, AgentTypeOK
    <3>4. ThreadInv(t)'
      BY <1>1, <1>2, <3>1, <3>2, <3>3 DEF ThreadInv, Early, Submitting, Patching,
         Waiting
    <3> QED
      BY <1>1, <1>2, <3>1, <3>2, <3>3, <3>4, ThreadStepInv
         DEF PatchInv, Submitting, Patching
  <2> QED
    BY <2>1, <2>2
<1>9. CASE CheckPatch(t)
  <2>1. Moves(t, "apply") \/ Moves(t, "error")
    BY <1>1, <1>9, GotoMoves DEF CheckPatch, ThreadStep
  <2>2. ThreadInv(t)'
    BY <1>1, <1>2, <1>9, <2>1 DEF CheckPatch, Moves, ThreadInv, Early, Submitting,
       Patching, Waiting
  <2> QED
    BY <1>1, <1>2, <1>9, <2>1, <2>2, ThreadStepInv DEF CheckPatch, Moves, PatchInv,
       Submitting, Patching
<1>10. CASE HandleError(t)
  <2>1. Ends(t) \/ Moves(t, "block_claimed")
    BY <1>1, <1>10, FinishEnds, GotoMoves DEF HandleError, ThreadStep
  <2>2. ThreadInv(t)'
    BY <1>1, <1>2, <1>10, <2>1 DEF HandleError, Ends, Moves, ThreadInv, Early,
       Submitting, Patching, Waiting
  <2> QED
    BY <1>2, <2>1, <2>2, ThreadStepInv DEF Ends, Moves, Submitting, Patching
<1> QED
  BY <1>3, <1>4, <1>5, <1>6, <1>7, <1>8, <1>9, <1>10

\* The steps that write the session of the resume.
LEMMA SessionWriteInv ==
    ASSUME Inv, NEW t \in Threads,
           \/ Block(t) \/ Claim(t) \/ Record(t) \/ StoreFailure(t)
           \/ Checkpoint(t) \/ Prepare(t) \/ BlockClaimed(t)
    PROVE  AgentInv'
<1> USE NoneAssumption, OutcomeAssumption
<1> DEFINE w == threads[t].wf
<1>1. /\ AgentTypeOK /\ ThreadInv(t) /\ threads[t] \in Thread
      /\ w \in Workflows /\ SessionInv(w) /\ PatchInv(w) /\ sessions[w] \in Session
  BY DEF Inv, AgentInv, AgentTypeOK, ThreadInv, Block, Claim, Record, StoreFailure,
     Checkpoint, Prepare, BlockClaimed
<1>2. UNCHANGED <<rows, journal, tree, diskOk, submits>>
  BY DEF Block, Claim, Record, StoreFailure, Checkpoint, Prepare, BlockClaimed,
     workerVars, history
<1>3. ASSUME NEW pc \in {"block_claimed", "error"}, Moves(t, pc), UNCHANGED sessions,
             threads[t].pc \notin Early
      PROVE  AgentInv'
  <2>1. ThreadInv(t)'
    BY <1>1, <1>2, <1>3 DEF Moves, ThreadInv, Early, Submitting, Patching, Waiting
  <2> QED
    BY <1>2, <1>3, <2>1, ThreadStepInv DEF Moves, Submitting, Patching
<1>4. ASSUME Ends(t), UNCHANGED sessions PROVE AgentInv'
  <2>1. ThreadInv(t)'
    BY <1>4 DEF Ends, ThreadInv, Early, Submitting, Patching
  <2> QED
    BY <1>2, <1>4, <2>1, ThreadStepInv DEF Ends, Submitting, Patching
\* A resume that is over leaves a session with another state and, perhaps,
\* the outcome of its attempt.
<1>5. ASSUME Ends(t), NEW new \in Session, Swap(w, new),
             new.state # "awaiting_implementation_approval",
             new.recorded = sessions[w].recorded,
             new.applied = sessions[w].applied,
             new.result = "failed" => rows[w].state = "failed_terminal"
      PROVE  AgentInv'
  <2>1. ThreadInv(t)' /\ Becomes(w, new)
    BY <1>1, <1>5, SwapBecomes DEF Ends, ThreadInv, Early, Submitting, Patching
  <2> QED
    BY <1>1, <1>2, <1>5, <2>1, SessionStepInv DEF Ends, Submitting, Patching
<1>6. CASE Block(t) \/ BlockClaimed(t)
  <2>1. To(w, "blocked") \in Session /\ Ends(t)
    BY <1>1, <1>6, ToSession, FinishEnds DEF Block, BlockClaimed, SessionState
  <2>2. CASE UNCHANGED sessions
    BY <1>4, <2>1, <2>2
  <2>3. CASE ~UNCHANGED sessions
    <3>1. Swap(w, To(w, "blocked"))
      BY <1>6, <2>3 DEF Block, BlockClaimed
    <3> QED
      BY <1>1, <1>5, <2>1, <3>1, ToSession DEF SessionState, SessionInv
  <2> QED
    BY <2>2, <2>3
<1>7. CASE Claim(t)
  <2>1. CASE Finish(t) /\ UNCHANGED sessions
    BY <1>1, <1>4, <2>1, FinishEnds
  <2>2. CASE ~(Finish(t) /\ UNCHANGED sessions)
    <3> DEFINE new == To(w, "executing")
    <3>1. PICK pc \in {"lookup", "record"} :
            /\ CanSwap(w, threads[t].seen) /\ Swap(w, new) /\ Moves(t, pc)
            /\ pc = "lookup" <=> threads[t].seen = "blocked"
      BY <1>1, <1>7, <2>2, GotoMoves DEF Claim, ThreadStep
    <3>2. /\ new \in Session /\ Becomes(w, new) /\ new.state = "executing"
          /\ new.recorded = sessions[w].recorded
          /\ new.result = sessions[w].result
          /\ new.applied = sessions[w].applied
      BY <1>1, <3>1, ToSession, SwapBecomes DEF SessionState
    <3> HIDE DEF new
    <3>3. threads[t].pc = "claim" /\ (pc = "record" => Waiting(w))
      BY <1>1, <1>7, <3>1 DEF Claim, CanSwap, ThreadInv, Waiting
    <3>4. ThreadInv(t)'
      BY <1>1, <1>2, <3>1, <3>2, <3>3 DEF Moves, Becomes, ThreadInv, SessionInv,
         Early, Submitting, Patching, Waiting
    <3> QED
      BY <1>1, <1>2, <3>1, <3>2, <3>3, <3>4, SessionStepInv
         DEF Moves, Submitting, Patching, SessionInv
  <2> QED
    BY <2>1, <2>2
<1>8. CASE Record(t)
  <2>1. CASE CanSwap(w, "executing")
    <3> DEFINE new == [sessions[w] EXCEPT !.recorded = TRUE]
    <3>1. /\ new \in Session /\ new.state = "executing" /\ new.recorded
          /\ new.result = sessions[w].result /\ new.applied = sessions[w].applied
          /\ Swap(w, new) /\ Moves(t, "submit") /\ threads[t].pc = "record"
      BY <1>1, <1>8, <2>1, GotoMoves DEF Record, CanSwap, Session, ThreadStep
    <3> HIDE DEF new
    <3>2. Becomes(w, new)
      BY <1>1, <3>1, SwapBecomes
    <3>3. ThreadInv(t)'
      BY <1>1, <1>2, <3>1, <3>2 DEF Moves, Becomes, ThreadInv, Early, Submitting,
         Patching, Waiting
    <3> QED
      BY <1>1, <1>2, <3>1, <3>2, <3>3, SessionStepInv
         DEF Moves, Submitting, Patching, SessionInv
  <2>2. CASE ~CanSwap(w, "executing")
    BY <1>1, <1>3, <1>8, <2>2, GotoMoves DEF Record, ThreadStep, Early
  <2> QED
    BY <2>1, <2>2
<1>9. CASE StoreFailure(t)
  <2> DEFINE new == [To(w, "blocked") EXCEPT !.result = threads[t].answer]
  <2>1. CASE UNCHANGED sessions
    BY <1>1, <1>4, <1>9, <2>1, FinishEnds DEF StoreFailure
  <2>2. CASE ~UNCHANGED sessions
    <3>1. Swap(w, new) /\ Ends(t) /\ threads[t].pc = "answered"
      BY <1>1, <1>9, <2>2, FinishEnds DEF StoreFailure
    <3>2. /\ new \in Session /\ new.state = "blocked"
          /\ new.recorded = sessions[w].recorded
          /\ new.applied = sessions[w].applied
          /\ new.result = threads[t].answer
      BY <1>1, ToSession DEF Session, SessionState, Thread
    <3> HIDE DEF new
    <3> QED
      BY <1>1, <1>5, <3>1, <3>2 DEF ThreadInv
  <2> QED
    BY <2>1, <2>2
<1>10. CASE Checkpoint(t)
  <2>1. CASE ~(Goto(t, "error") /\ UNCHANGED sessions)
    <3> DEFINE new == [To(w, "patch_applied_pending_verification")
                         EXCEPT !.result = "succeeded", !.applied = TRUE]
    <3>1. /\ new \in Session /\ new.state = "patch_applied_pending_verification"
          /\ new.recorded = sessions[w].recorded
          /\ new.result = "succeeded" /\ new.applied
      BY <1>1, ToSession DEF Session, SessionState, ExecutionStatus
    <3>2. Swap(w, new) /\ Moves(t, "clear") /\ threads[t].pc = "checkpoint"
      BY <1>1, <1>10, <2>1, GotoMoves DEF Checkpoint, ThreadStep
    <3> HIDE DEF new
    <3>3. Becomes(w, new)
      BY <1>1, <3>1, <3>2, SwapBecomes
    <3>4. ThreadInv(t)'
      BY <1>1, <1>2, <3>1, <3>2, <3>3 DEF Moves, Becomes, ThreadInv, Early,
         Submitting, Patching, Waiting
    <3>5. rows[w].state = "completed"
      BY <1>1, <3>2 DEF ThreadInv, Patching
    <3> QED
      BY <1>1, <1>2, <3>1, <3>2, <3>3, <3>4, <3>5, SessionStepInv
         DEF Moves, Submitting, Patching
  <2>2. CASE Goto(t, "error") /\ UNCHANGED sessions
    BY <1>1, <1>3, <1>10, <2>2, GotoMoves DEF Checkpoint, ThreadStep, Early
  <2> QED
    BY <2>1, <2>2
<1>11. CASE Prepare(t)
  <2>1. Ends(t)
    BY <1>1, <1>11, FinishEnds DEF Prepare
  <2>2. CASE UNCHANGED sessions
    BY <1>4, <2>1, <2>2
  <2>3. CASE ~UNCHANGED sessions
    <3>1. PICK state \in {"awaiting_verification_approval", "blocked"} :
            Swap(w, To(w, state))
      BY <1>11, <2>3 DEF Prepare
    <3> QED
      BY <1>1, <1>5, <2>1, <3>1, ToSession DEF SessionState, SessionInv
  <2> QED
    BY <2>2, <2>3
<1> QED
  BY <1>6, <1>7, <1>8, <1>9, <1>10, <1>11

\* Of the workflows past their approval only one has the checkout to itself.
LEMMA AloneIsMine ==
    ASSUME NEW v \in Workflows, NEW w \in Workflows, Alone(v), ~Waiting(w)
    PROVE  v = w
  BY DEF Alone, Waiting, NewSession

\* The one submission of a workflow.
LEMMA SubmitInv ==
    ASSUME Inv, NEW t \in Threads, Submit(t)
    PROVE  AgentInv'
<1> USE NoneAssumption, OutcomeAssumption
<1> DEFINE w == threads[t].wf
<1>1. /\ AgentTypeOK /\ ThreadInv(t) /\ w \in Workflows
      /\ threads[t].pc = "submit" /\ submits[w] = 0 /\ sessions[w].recorded
      /\ submits \in [Workflows -> Nat]
  BY DEF Submit, Inv, AgentInv, ThreadInv, Submitting, AgentTypeOK
<1>2. Moves(t, "wait") /\ UNCHANGED <<rows, sessions, journal, tree, diskOk>>
  BY <1>1, GotoMoves DEF Submit, ThreadStep
<1>3. /\ submits' \in [Workflows -> Nat] /\ submits'[w] = 1
      /\ \A v \in Workflows \ {w} : submits'[v] = submits[v]
  BY <1>1 DEF Submit
<1>4. Grows /\ RowsFinal
  BY <1>2 DEF Grows, RowsFinal, Waiting
<1>5. AgentTypeOK'
  BY <1>1, <1>2, <1>3 DEF Moves, OnlyMoves, AgentTypeOK
<1>6. ThreadInv(t)'
  BY <1>1, <1>2 DEF Moves, ThreadInv, Early, Submitting, Patching, Waiting
<1>7. \A u \in Threads : ThreadInv(u)'
  BY <1>1, <1>2, <1>3, <1>4, <1>6, OthersInv
     DEF Moves, Submitting, AgentTypeOK
<1>8. ~Waiting(w)
  BY <1>1 DEF ThreadInv, Early
<1>9. ASSUME NEW v \in Workflows PROVE SessionInv(v)'
  BY <1>1, <1>2, <1>3, <1>8 DEF Inv, AgentInv, SessionInv, Waiting
<1>10. OneSubmitter'
  BY <1>2, SubmittersInv DEF Moves, Submitting
<1>11. ASSUME NEW v \in Workflows PROVE PatchInv(v)'
  BY <1>2 DEF Inv, AgentInv, Moves, OnlyMoves, PatchInv, Alone, Patching
<1> QED
  BY <1>5, <1>7, <1>9, <1>10, <1>11 DEF AgentInv

\* The steps of the applier that write the journal or the checkout.
LEMMA PatchStepInv ==
    ASSUME Inv, NEW t \in Threads,
           WriteJournal(t) \/ ApplyPatch(t) \/ CheckScope(t) \/ ClearJournal(t)
    PROVE  AgentInv'
<1> USE NoneAssumption, OutcomeAssumption
<1> PICK w \in Workflows : w = threads[t].wf
  BY DEF WriteJournal, ApplyPatch, CheckScope, ClearJournal, Inv, AgentInv,
     ThreadInv
<1>1. /\ AgentTypeOK /\ ThreadInv(t) /\ threads[t] \in Thread
      /\ w = threads[t].wf /\ ~Waiting(w)
      /\ SessionInv(w) /\ PatchInv(w)
      /\ threads[t].pc \in {"write_journal", "apply", "scope"} =>
            rows[w].state = "completed"
      /\ threads[t].pc = "clear" => sessions[w].applied
  BY DEF WriteJournal, ApplyPatch, CheckScope, ClearJournal, Inv, AgentInv,
     ThreadInv, Early, Patching, AgentTypeOK
<1>2. UNCHANGED <<rows, sessions, diskOk, submits>>
  BY DEF WriteJournal, ApplyPatch, CheckScope, ClearJournal, workerVars, history
<1>3. Grows /\ RowsFinal
  BY <1>2 DEF Grows, RowsFinal, Waiting
\* What is left to show of such a step.
<1>4. ASSUME OnlyMoves(t), ThreadInv(t)', threads'[t].wf = w,
             threads'[t].pc \notin Submitting,
             journal' \in Workflows \cup {None}, tree' \subseteq Workflows,
             journal' \in {journal, w, None},
             journal' = w => journal = w \/ rows[w].state = "completed",
             tree' \subseteq tree \cup {w},
             w \in tree' => w \in tree \/ rows[w].state = "completed",
             PatchInv(w)'
      PROVE  AgentInv'
  <2>1. AgentTypeOK'
    BY <1>1, <1>2, <1>4 DEF OnlyMoves, AgentTypeOK
  <2>2. \A u \in Threads : ThreadInv(u)'
    BY <1>1, <1>2, <1>3, <1>4, OthersInv DEF AgentTypeOK
  <2>3. ASSUME NEW v \in Workflows PROVE SessionInv(v)'
    <3>1. CASE v = w
      BY <1>1, <1>2, <1>4, <3>1 DEF SessionInv, Waiting
    <3>2. CASE v # w
      BY <1>2, <1>4, <3>2 DEF Inv, AgentInv, SessionInv, Waiting, Workflows
    <3> QED
      BY <3>1, <3>2
  <2>4. OneSubmitter'
    BY <1>4, SubmittersInv
  <2>5. ASSUME NEW v \in Workflows PROVE PatchInv(v)'
    <3>1. CASE v = w
      BY <1>4, <3>1
    <3>2. CASE v # w
      <4>1. ~Alone(v)'
        BY <1>1, <1>2, <3>2, AloneIsMine DEF Alone
      <4> QED
        BY <4>1 DEF PatchInv
    <3> QED
      BY <3>1, <3>2
  <2> QED
    BY <2>1, <2>2, <2>3, <2>4, <2>5 DEF AgentInv
<1>5. ASSUME Alone(w)' PROVE Alone(w)
  BY <1>2, <1>5 DEF Alone, NewSession
<1>6. CASE WriteJournal(t)
  <2>1. CASE diskOk
    <3>1. journal' = w /\ tree' = tree /\ Moves(t, "precheck")
      BY <1>1, <1>6, <2>1, GotoMoves DEF WriteJournal, ThreadStep
    <3>2. ThreadInv(t)' /\ threads[t].pc = "write_journal"
      BY <1>1, <1>2, <1>6, <3>1 DEF WriteJournal, Moves, ThreadInv, Early,
         Submitting, Patching, Waiting
    <3>3. PatchInv(w)'
      BY <1>1, <1>2, <1>5, <3>1 DEF PatchInv, Moves, OnlyMoves
    <3> QED
      BY <1>1, <1>4, <3>1, <3>2, <3>3 DEF Moves, Submitting, AgentTypeOK
  <2>2. CASE ~diskOk
    <3>1. UNCHANGED <<journal, tree>> /\ Moves(t, "error")
      BY <1>1, <1>6, <2>2, GotoMoves DEF WriteJournal, ThreadStep
    <3>2. ThreadInv(t)'
      BY <1>1, <1>2, <1>6, <3>1 DEF WriteJournal, Moves, ThreadInv, Early,
         Submitting, Patching, Waiting
    <3> QED
      BY <1>2, <3>1, <3>2, ThreadStepInv DEF Moves, Submitting, Patching
  <2> QED
    BY <2>1, <2>2
<1>7. CASE ApplyPatch(t)
  <2>1. CASE w \in tree
    <3>1. UNCHANGED <<journal, tree>> /\ Moves(t, "error")
      BY <1>1, <1>7, <2>1, GotoMoves DEF ApplyPatch, ThreadStep
    <3>2. ThreadInv(t)'
      BY <1>1, <1>2, <1>7, <3>1 DEF ApplyPatch, Moves, ThreadInv, Early,
         Submitting, Patching, Waiting
    <3> QED
      BY <1>2, <3>1, <3>2, ThreadStepInv DEF Moves, Submitting, Patching
  <2>2. CASE w \notin tree
    <3>1. /\ journal' = journal /\ tree' = tree \cup {w} /\ Moves(t, "scope")
          /\ threads[t].pc = "apply"
      BY <1>1, <1>7, <2>2, GotoMoves DEF ApplyPatch, ThreadStep
    <3>2. ThreadInv(t)'
      BY <1>1, <1>2, <3>1 DEF Moves, ThreadInv, Early, Submitting, Patching, Waiting
    <3>3. PatchInv(w)'
      BY <1>1, <1>2, <1>5, <3>1 DEF PatchInv, Moves, OnlyMoves, Patching
    <3> QED
      BY <1>1, <1>4, <3>1, <3>2, <3>3 DEF Moves, Submitting, AgentTypeOK
  <2> QED
    BY <2>1, <2>2
<1>8. CASE CheckScope(t)
  <2>1. PICK pc \in {"checkpoint", "error"} :
          /\ journal' = journal /\ tree' \in {tree, tree \ {w}} /\ Moves(t, pc)
          /\ threads[t].pc = "scope"
    BY <1>1, <1>8, GotoMoves DEF CheckScope, ThreadStep
  <2>2. ThreadInv(t)'
    BY <1>1, <1>2, <2>1 DEF Moves, ThreadInv, Early, Submitting, Patching, Waiting
  <2>3. PatchInv(w)'
    BY <1>1, <1>2, <1>5, <2>1 DEF PatchInv, Moves, OnlyMoves, Patching
  <2> QED
    BY <1>1, <1>4, <2>1, <2>2, <2>3 DEF Moves, Submitting, AgentTypeOK
<1>9. CASE ClearJournal(t)
  <2>1. CASE Goto(t, "error") /\ UNCHANGED journal
    <3>1. UNCHANGED <<journal, tree>> /\ Moves(t, "error")
      BY <1>1, <1>9, <2>1, GotoMoves DEF ClearJournal, ThreadStep
    <3>2. ThreadInv(t)'
      BY <1>1, <1>2, <1>9, <3>1 DEF ClearJournal, Moves, ThreadInv, Early,
         Submitting, Patching, Waiting
    <3> QED
      BY <1>2, <3>1, <3>2, ThreadStepInv DEF Moves, Submitting, Patching
  <2>2. CASE ~(Goto(t, "error") /\ UNCHANGED journal)
    <3> DEFINE k == [threads[t] EXCEPT !.pc = "prepare",
                                       !.seen = "patch_applied_pending_verification"]
    <3>1. /\ k \in Thread /\ k.pc = "prepare" /\ k.wf = w
          /\ k.seen = "patch_applied_pending_verification"
          /\ threads' = [threads EXCEPT ![t] = k]
          /\ journal' = None /\ tree' = tree /\ threads[t].pc = "clear"
      BY <1>1, <1>9, <2>2 DEF ClearJournal, Thread, ThreadStep, SessionState
    <3> HIDE DEF k
    <3>2. OnlyMoves(t) /\ threads'[t] = k
      BY <1>1, <3>1 DEF OnlyMoves, AgentTypeOK
    <3>3. ThreadInv(t)'
      BY <1>1, <1>2, <3>1, <3>2 DEF ThreadInv, Early, Submitting, Patching, Waiting
    <3>4. PatchInv(w)'
      BY <1>1, <1>2, <1>5, <3>1, <3>2 DEF PatchInv, OnlyMoves, Patching
    <3> QED
      BY <1>1, <1>4, <3>1, <3>2, <3>3, <3>4 DEF Submitting, AgentTypeOK, Workflows
  <2> QED
    BY <2>1, <2>2
<1> QED
  BY <1>6, <1>7, <1>8, <1>9

----------------------------------------------------------------------------
(* Faults, the worker's steps, and the whole system.                       *)

\* A restart forgets the resumes and blocks what the journal does not name.
LEMMA RestartInv == Inv /\ AgentRestart => AgentInv'
<1> SUFFICES ASSUME Inv, AgentRestart PROVE AgentInv'
  OBVIOUS
<1> USE NoneAssumption, OutcomeAssumption
<1>1. /\ UNCHANGED <<rows, journal, tree, diskOk, submits>>
      /\ \A t \in Threads : threads'[t] = Idle
      /\ threads' \in [Threads -> Thread]
  BY IdleTyped DEF AgentRestart, workerVars, history
<1>2. ASSUME NEW w \in Workflows
      PROVE  /\ sessions'[w] \in Session
             /\ \/ sessions'[w] = sessions[w]
                \/ /\ sessions[w].state = "executing"
                   /\ sessions'[w].state = "blocked"
                   /\ sessions'[w].recorded = sessions[w].recorded
                   /\ sessions'[w].result = sessions[w].result
                   /\ sessions'[w].applied = sessions[w].applied
  BY ToSession DEF AgentRestart, Recovered, Inv, AgentInv, AgentTypeOK, SessionState
<1>3. AgentTypeOK'
  BY <1>1, <1>2 DEF AgentRestart, Inv, AgentInv, AgentTypeOK
<1>4. ASSUME NEW t \in Threads PROVE ThreadInv(t)'
  BY <1>1, IdleTyped DEF ThreadInv, Early, Submitting, Patching
<1>5. OneSubmitter'
  BY <1>1, IdleTyped DEF OneSubmitter, Submitting
<1>6. ASSUME NEW w \in Workflows PROVE SessionInv(w)'
  BY <1>1, <1>2 DEF Inv, AgentInv, SessionInv, Waiting
<1>7. ASSUME NEW w \in Workflows PROVE PatchInv(w)'
  <2>1. ASSUME Alone(w)', NEW v \in Workflows \ {w}
        PROVE  sessions[v] = NewSession
    <3>1. sessions'[v] = NewSession
      BY <2>1 DEF Alone, NewSession
    <3>2. NewSession.state = "awaiting_implementation_approval"
      BY DEF NewSession
    <3> QED
      BY <1>2, <3>1, <3>2
  <2>2. Alone(w)' => Alone(w)
    BY <2>1 DEF Alone
  <2> QED
    BY <1>1, <1>2, <2>2, IdleTyped DEF Inv, AgentInv, PatchInv, Workflows
<1> QED
  BY <1>3, <1>4, <1>5, <1>6, <1>7 DEF AgentInv

\* A state directory that fails or comes back changes nothing else.
LEMMA DiskFaultInv == Inv /\ DiskFault => AgentInv'
<1> SUFFICES ASSUME Inv, DiskFault PROVE AgentInv'
  OBVIOUS
<1>1. UNCHANGED <<rows, sessions, journal, tree, threads, submits>>
  BY DEF DiskFault, workerVars, history
<1> QED
  BY <1>1 DEF DiskFault, Inv, AgentInv, AgentTypeOK, SessionInv, ThreadInv,
     OneSubmitter, PatchInv, Waiting, Alone

\* The worker never changes an outcome the Agent has seen.
LEMMA WorkerKeepsAgentInv ==
    ASSUME Inv, RowsFinal, UNCHANGED agentVars
    PROVE  AgentInv'
<1>1. AgentTypeOK' /\ OneSubmitter'
  BY DEF Inv, AgentInv, AgentTypeOK, OneSubmitter, agentVars, history
<1>2. ASSUME NEW w \in Workflows PROVE SessionInv(w)' /\ PatchInv(w)'
  BY DEF Inv, AgentInv, SessionInv, PatchInv, Waiting, Alone, agentVars, history,
     RowsFinal, TERMINAL_STATES, Workflows
<1>3. ASSUME NEW t \in Threads PROVE ThreadInv(t)'
  BY DEF Inv, AgentInv, ThreadInv, Waiting, agentVars, history, RowsFinal,
     TERMINAL_STATES,
     Workflows, Early, Submitting, Patching
<1> QED
  BY <1>1, <1>2, <1>3 DEF AgentInv

\* What an Agent does to the worker: it posts a request and takes answers.
LEMMA AgentIsEnvironment ==
    ASSUME Inv,
           \/ \E t \in Threads, w \in Workflows : Resume(t, w)
           \/ \E t \in Threads : ThreadStepOf(t)
           \/ AgentRestart
           \/ DiskFault
           \/ UNCHANGED vars
    PROVE  Environment
<1>1. CASE UNCHANGED workerVars
  BY <1>1 DEF workerVars, Environment, Inv, WorkerInv, WorkerTypeOK
<1>2. ASSUME NEW t \in Threads, Submit(t) PROVE Environment
  <2>1. [id |-> threads[t].wf, digest |-> Digest] \in Post
    BY <1>2, DigestAssumption DEF Submit, Inv, AgentInv, ThreadInv, Post, Workflows
  <2> QED
    BY <1>2, <2>1 DEF Submit, Environment, Inv, WorkerInv, WorkerTypeOK
<1>3. ASSUME NEW t \in Threads, ReceiveReply(t) PROVE Environment
  BY <1>3 DEF ReceiveReply, Environment, Inv, WorkerInv, WorkerTypeOK
<1>4. ASSUME NEW t \in Threads, ThreadStepOf(t)
      PROVE  UNCHANGED workerVars \/ Submit(t) \/ ReceiveReply(t)
  <2> USE DEF ReadJournal, Validate, Block, Claim, Record, LookupAnswered,
          TransportError, StoreFailure, TakeSuccess, WriteJournal, Inspect, PreCheck,
          CheckPatch, ApplyPatch, CheckScope, Checkpoint, ClearJournal, Prepare,
          HandleError, BlockClaimed
  <2> QED
    BY <1>4, Zenon DEF ThreadStepOf
<1>5. CASE \E t \in Threads : ThreadStepOf(t)
  BY <1>1, <1>2, <1>3, <1>4, <1>5
<1>6. CASE \/ \E t \in Threads, w \in Workflows : Resume(t, w)
           \/ AgentRestart \/ DiskFault \/ UNCHANGED vars
  <2>1. UNCHANGED workerVars
    BY <1>6, Zenon DEF vars, Resume, AgentRestart, DiskFault
  <2> QED
    BY <1>1, <2>1
<1> QED
  BY <1>5, <1>6

\* The invariant holds at the start.
LEMMA InitInv == Init => Inv
  BY WorkerInitInv, AgentInitInv DEF Init, Inv

\* Every step of the system preserves it, and no step changes a terminal row.
LEMMA NextInv == Inv /\ [Next]_vars => Inv' /\ RowsFinal
<1> SUFFICES ASSUME Inv, [Next]_vars PROVE Inv' /\ RowsFinal
  OBVIOUS
<1>1. CASE \E t \in Threads, w \in Workflows : Resume(t, w)
  BY <1>1, ResumeInv, AgentIsEnvironment, EnvironmentInv
     DEF Inv, Environment, RowsFinal
<1>2. CASE \E t \in Threads : ThreadStepOf(t)
  <2>1. AgentInv'
    BY <1>2, MoveInv, SessionWriteInv, SubmitInv, PatchStepInv DEF ThreadStepOf
  <2> QED
    BY <1>2, <2>1, AgentIsEnvironment, EnvironmentInv DEF Inv, Environment, RowsFinal
<1>3. CASE (WorkerNext \/ ClientPosts) /\ UNCHANGED agentVars
  <2>1. RowsFinal /\ WorkerInv'
    BY <1>3, WorkerNextFinal, WorkerNextInv DEF Inv
  <2> QED
    BY <1>3, <2>1, WorkerKeepsAgentInv DEF Inv
<1>4. CASE AgentRestart
  BY <1>4, RestartInv, AgentIsEnvironment, EnvironmentInv
     DEF Inv, Environment, RowsFinal
<1>5. CASE DiskFault
  BY <1>5, DiskFaultInv, AgentIsEnvironment, EnvironmentInv
     DEF Inv, Environment, RowsFinal
<1>6. CASE UNCHANGED vars
  <2>1. RowsFinal /\ UNCHANGED agentVars
    BY <1>6 DEF vars, workerVars, RowsFinal
  <2> QED
    BY <1>6, <2>1, WorkerKeepsAgentInv, AgentIsEnvironment, EnvironmentInv DEF Inv
<1> QED
  BY <1>1, <1>2, <1>3, <1>4, <1>5, <1>6 DEF Next

\* The inductive invariant is an invariant of the system.
LEMMA SpecInv == Spec => []Inv
  BY InitInv, NextInv, PTL DEF Spec

\* The worker under an Agent: whatever is posted, repeated, lost or
\* interrupted, a request's command starts at most once, the ledger can be read
\* back and says of every run that it was started, and a success is answered
\* only for a command that ran (POST /executions and reconcile_startup).
THEOREM WorkerSafety == Spec => [](AtMostOneRun /\ LedgerInv)
  BY SpecInv, WorkerSafe, PTL DEF Inv

\* The same of a worker that anybody may use.
THEOREM WorkerAloneSafety == WorkerSpec => [](AtMostOneRun /\ LedgerInv)
<1>1. WorkerInv /\ [WorkerNext \/ ClientPosts]_workerVars => WorkerInv'
  <2>1. WorkerInv /\ UNCHANGED workerVars => Environment
    BY DEF workerVars, Environment, WorkerInv, WorkerTypeOK
  <2> QED
    BY <2>1, WorkerNextInv, EnvironmentInv
<1> QED
  BY <1>1, WorkerInitInv, WorkerSafe, PTL DEF WorkerSpec

\* A terminal row of the ledger and the digest of any row never change
\* (persist_result and mark_executing update a row that is still claimed or
\* executing).
THEOREM ResultsFinal == Spec => TerminalImmutable
<1>1. Inv /\ [Next]_vars =>
        [\A q \in Requests :
           /\ rows[q].state \in TERMINAL_STATES => rows'[q] = rows[q]
           /\ rows[q].digest # None => rows'[q].digest = rows[q].digest]_workerVars
  BY NextInv DEF RowsFinal
<1> QED
  BY <1>1, SpecInv, PTL DEF Spec, TerminalImmutable

\* An Agent submits a workflow's request once at most, whatever resumes,
\* restarts and recoveries race: the compare and swap of transition_session
\* that claims a session is taken once.
THEOREM SubmissionSafety == Spec => []SubmittedAtMostOnce
<1>1. Inv => SubmittedAtMostOnce
  BY DEF Inv, AgentInv, SessionInv, SubmittedAtMostOnce
<1> QED
  BY <1>1, SpecInv, PTL

----------------------------------------------------------------------------
(* The checkout: which patches are in it for good.                         *)

\* A resume that applied the patch holds it alone until its checks are done.
\* What is stored as applied, or about to be, is past them, unless a recovery
\* took it for applied before that.
CheckedInv(w) ==
    /\ \A t, u \in Threads :
         /\ threads[t].pc = "scope" /\ threads[t].wf = w
         /\ threads[u].pc = "scope" /\ threads[u].wf = w
         => t = u
    /\ BeingChecked(w) => w \in tree
    /\ w \notin unchecked =>
         /\ sessions[w].applied => w \in tree /\ ~BeingChecked(w)
         /\ \A t \in Threads :
              threads[t].pc = "checkpoint" /\ threads[t].wf = w
              => w \in tree /\ ~BeingChecked(w)

CheckoutInv ==
    /\ unchecked \subseteq Workflows
    /\ \A w \in Workflows : CheckedInv(w)

\* A step that leaves the checkout alone, and the checks of its resume.
LEMMA OutsideInv ==
    ASSUME CheckoutInv, NEW t \in Threads,
           \A u \in Threads \ {t} : threads'[u] = threads[u],
           threads'[t].pc \notin {"scope", "checkpoint"},
           UNCHANGED <<tree, unchecked>>,
           \A w \in Workflows :
              sessions'[w].applied =>
                 \/ sessions[w].applied
                 \/ threads[t].pc = "checkpoint" /\ threads[t].wf = w
    PROVE  CheckoutInv'
<1> SUFFICES ASSUME NEW w \in Workflows PROVE CheckedInv(w)'
  BY DEF CheckoutInv
<1>1. CheckedInv(w)
  BY DEF CheckoutInv
<1>2. BeingChecked(w)' => BeingChecked(w)
  BY DEF BeingChecked
<1> QED
  BY <1>1, <1>2 DEF CheckedInv

\* The steps of a resume but those of the applier.
LEMMA ResumeCheckoutInv ==
    ASSUME Inv, CheckoutInv, NEW t \in Threads,
           \/ \E w \in Workflows : Resume(t, w)
           \/ ReadJournal(t) \/ Validate(t) \/ Submit(t) \/ ReceiveReply(t)
           \/ LookupAnswered(t) \/ TransportError(t) \/ TakeSuccess(t)
           \/ WriteJournal(t) \/ CheckPatch(t) \/ ClearJournal(t)
           \/ HandleError(t)
    PROVE  CheckoutInv'
<1>1. /\ threads \in [Threads -> Thread]
      /\ UNCHANGED <<sessions, tree, unchecked>>
  BY DEF Inv, AgentInv, AgentTypeOK, Resume, ReadJournal, Validate, Submit,
     ReceiveReply, LookupAnswered, TransportError, TakeSuccess, WriteJournal,
     CheckPatch, ClearJournal, HandleError, history
<1>2. /\ \A u \in Threads \ {t} : threads'[u] = threads[u]
      /\ threads'[t].pc \notin {"scope", "checkpoint"}
  <2>1. CASE \/ Validate(t) \/ Submit(t) \/ TakeSuccess(t) \/ WriteJournal(t)
             \/ CheckPatch(t) \/ HandleError(t)
    BY <1>1, <2>1 DEF Validate, Submit, TakeSuccess, WriteJournal, CheckPatch,
       HandleError, Goto, Finish, Idle, Thread
  <2>2. CASE ReadJournal(t) \/ ClearJournal(t)
    BY <1>1, <2>2 DEF ReadJournal, ClearJournal, Goto, Finish, Idle, Thread
  <2>3. CASE ReceiveReply(t) \/ LookupAnswered(t) \/ TransportError(t)
    <3>1. \E status : Answered(t, status)
      BY <2>3 DEF ReceiveReply, LookupAnswered, TransportError
    <3> QED
      BY <1>1, <3>1 DEF Answered, Thread
  <2>4. CASE \E w \in Workflows : Resume(t, w)
    <3>1. PICK w \in Workflows, pc \in {"read_journal", "validate", "prepare"} :
            threads' = [threads EXCEPT ![t] =
              [Idle EXCEPT !.pc = pc, !.wf = w, !.seen = sessions[w].state]]
      BY <2>4 DEF Resume
    <3> QED
      BY <1>1, <3>1 DEF Idle
  <2> QED
    BY <2>1, <2>2, <2>3, <2>4
<1> QED
  BY <1>1, <1>2, OutsideInv

\* The steps that write a session: only the checkpoint says of a patch that it
\* is applied.
LEMMA SessionCheckoutInv ==
    ASSUME Inv, CheckoutInv, NEW t \in Threads,
           \/ Block(t) \/ Claim(t) \/ Record(t) \/ StoreFailure(t)
           \/ Checkpoint(t) \/ Prepare(t) \/ BlockClaimed(t)
    PROVE  CheckoutInv'
<1>1. /\ threads \in [Threads -> Thread]
      /\ sessions \in [Workflows -> Session]
      /\ UNCHANGED <<tree, unchecked>>
  BY DEF Inv, AgentInv, AgentTypeOK, Block, Claim, Record, StoreFailure, Checkpoint,
     Prepare, BlockClaimed, history
<1>2. /\ \A u \in Threads \ {t} : threads'[u] = threads[u]
      /\ threads'[t].pc \notin {"scope", "checkpoint"}
  BY <1>1 DEF Block, Claim, Record, StoreFailure, Checkpoint, Prepare, BlockClaimed,
     Goto, Finish, Idle, Thread
<1>3. ASSUME NEW w \in Workflows, sessions'[w].applied
      PROVE  \/ sessions[w].applied
             \/ threads[t].pc = "checkpoint" /\ threads[t].wf = w
  BY <1>1, <1>3 DEF Block, Claim, Record, StoreFailure, Checkpoint, Prepare,
     BlockClaimed, Swap, To, Session
<1> QED
  BY <1>1, <1>2, <1>3, OutsideInv

\* The applier and the recovery: a patch is taken for applied, applied, checked.
LEMMA PatchCheckoutInv ==
    ASSUME Inv, CheckoutInv, NEW t \in Threads,
           Inspect(t) \/ PreCheck(t) \/ ApplyPatch(t) \/ CheckScope(t)
    PROVE  CheckoutInv'
<1> PICK w \in Workflows : w = threads[t].wf
  BY DEF Inspect, PreCheck, ApplyPatch, CheckScope, Inv, AgentInv, ThreadInv
<1>1. threads \in [Threads -> Thread] /\ UNCHANGED sessions /\ CheckedInv(w)
  BY DEF Inv, AgentInv, AgentTypeOK, Inspect, PreCheck, ApplyPatch, CheckScope,
     CheckoutInv
<1>2. /\ \A u \in Threads \ {t} : threads'[u] = threads[u]
      /\ threads'[t].wf = w
  BY <1>1 DEF Inspect, PreCheck, ApplyPatch, CheckScope, Goto, Thread
\* What it does to one workflow is nothing to the others.
<1>3. ASSUME CheckedInv(w)', unchecked' \ {w} = unchecked \ {w},
             tree' \ {w} = tree \ {w}
      PROVE  CheckoutInv'
  <2>1. unchecked' \subseteq Workflows
    BY <1>3 DEF CheckoutInv
  <2>2. ASSUME NEW v \in Workflows, v # w PROVE CheckedInv(v)'
    <3>1. /\ CheckedInv(v)
          /\ \A u \in Threads :
                threads'[u].wf = v => threads'[u] = threads[u]
          /\ v \in tree' <=> v \in tree
          /\ v \in unchecked' <=> v \in unchecked
      BY <1>2, <1>3, <2>2 DEF CheckoutInv
    <3>2. BeingChecked(v)' <=> BeingChecked(v)
      BY <1>2, <2>2 DEF BeingChecked
    <3> QED
      BY <1>1, <3>1, <3>2 DEF CheckedInv
  <2> QED
    BY <1>3, <2>1, <2>2 DEF CheckoutInv
<1>4. CASE Inspect(t) \/ PreCheck(t)
  <2>1. UNCHANGED tree /\ threads[t].pc \in {"inspect", "precheck"}
    BY <1>4 DEF Inspect, PreCheck
  <2>2. threads'[t].pc # "scope"
    BY <1>1, <1>4 DEF Inspect, PreCheck, Goto, Thread
  <2>3. BeingChecked(w)' <=> BeingChecked(w)
    BY <1>2, <2>1, <2>2 DEF BeingChecked
  <2>4. CASE threads'[t].pc = "checkpoint"
    <3>1. w \in tree /\ TakesForApplied(w)
      BY <1>1, <1>4, <2>4 DEF Inspect, PreCheck, Goto, TakesForApplied, Thread
    <3>2. CheckedInv(w)'
      BY <1>1, <1>2, <2>1, <2>2, <2>3, <3>1 DEF CheckedInv, TakesForApplied
    <3> QED
      BY <1>3, <2>1, <3>1, <3>2 DEF TakesForApplied
  <2>5. CASE threads'[t].pc # "checkpoint"
    <3>1. UNCHANGED unchecked
      BY <1>1, <1>4, <2>5 DEF Inspect, PreCheck, Goto, Thread, history
    <3> QED
      BY <1>1, <1>2, <2>1, <2>2, <2>5, <3>1, OutsideInv
  <2> QED
    BY <2>4, <2>5
<1>5. CASE ApplyPatch(t)
  <2>1. UNCHANGED unchecked
    BY <1>5 DEF ApplyPatch, history
  <2>2. CASE w \in tree
    <3>1. UNCHANGED tree /\ threads'[t].pc = "error"
      BY <1>1, <1>5, <2>2 DEF ApplyPatch, Goto, Thread
    <3> QED
      BY <1>1, <1>2, <2>1, <3>1, OutsideInv
  <2>3. CASE w \notin tree
    <3>1. tree' = tree \cup {w} /\ threads'[t].pc = "scope"
      BY <1>1, <1>5, <2>3 DEF ApplyPatch, Goto, Thread
    <3>2. \A u \in Threads : ~(threads[u].pc = "scope" /\ threads[u].wf = w)
      BY <1>1, <2>3 DEF CheckedInv, BeingChecked
    <3>3. CheckedInv(w)'
      BY <1>1, <1>2, <2>1, <2>3, <3>1, <3>2 DEF CheckedInv
    <3> QED
      BY <1>3, <2>1, <3>1, <3>3
  <2> QED
    BY <2>2, <2>3
<1>6. CASE CheckScope(t)
  <2>1. /\ UNCHANGED unchecked /\ threads[t].pc = "scope"
        /\ BeingChecked(w) /\ w \in tree
    BY <1>1, <1>6 DEF CheckScope, history, CheckedInv, BeingChecked
  <2>2. threads'[t].pc \in {"checkpoint", "error"} /\ ~BeingChecked(w)'
    <3>1. threads'[t].pc \in {"checkpoint", "error"}
      BY <1>1, <1>6 DEF CheckScope, Goto, Thread
    <3> QED
      BY <1>1, <1>2, <2>1, <3>1 DEF CheckedInv, BeingChecked
  <2>3. tree' \in {tree, tree \ {w}}
        /\ (threads'[t].pc = "checkpoint" => tree' = tree)
    BY <1>1, <1>6 DEF CheckScope, Goto, Thread
  <2>4. CheckedInv(w)'
    <3>1. \A u \in Threads :
            ~(threads'[u].pc = "scope" /\ threads'[u].wf = w)
      BY <2>2 DEF BeingChecked
    <3> QED
      BY <1>1, <1>2, <2>1, <2>2, <2>3, <3>1 DEF CheckedInv
  <2> QED
    BY <1>3, <2>1, <2>3, <2>4
<1> QED
  BY <1>4, <1>5, <1>6

\* A restart forgets the resumes, and no other step touches any of it.
LEMMA CheckoutNextInv == Inv /\ CheckoutInv /\ [Next]_vars => CheckoutInv'
<1> SUFFICES ASSUME Inv, CheckoutInv, [Next]_vars PROVE CheckoutInv'
  OBVIOUS
<1>1. CASE \/ \E t \in Threads, w \in Workflows : Resume(t, w)
           \/ \E t \in Threads : ThreadStepOf(t)
  BY <1>1, ResumeCheckoutInv, SessionCheckoutInv, PatchCheckoutInv DEF ThreadStepOf
<1>2. CASE AgentRestart
  <2>1. /\ UNCHANGED <<tree, unchecked>>
        /\ \A t \in Threads : threads'[t].pc = "idle"
        /\ \A w \in Workflows : sessions'[w].applied = sessions[w].applied
    BY <1>2, IdleTyped, ToSession DEF AgentRestart, Recovered, SessionState, Inv,
       AgentInv, history
  <2> QED
    BY <2>1 DEF CheckoutInv, CheckedInv, BeingChecked
<1>3. CASE UNCHANGED <<sessions, tree, threads, unchecked>>
  BY <1>3 DEF CheckoutInv, CheckedInv, BeingChecked
<1> QED
  BY <1>1, <1>2, <1>3 DEF Next, DiskFault, vars, agentVars, history

\* What is said of the checkout holds always.
LEMMA SpecCheckout == Spec => []CheckoutInv
<1>1. Init => CheckoutInv
  BY IdleTyped DEF Init, CheckoutInv, CheckedInv, BeingChecked, NewSession
<1> QED
  BY <1>1, CheckoutNextInv, SpecInv, PTL DEF Spec

\* What a session and the checkout say of a request is what its row says: a
\* patch comes from a command that completed, a stored failure is the failure
\* of that command, and nothing is submitted that the snapshot does not name.
THEOREM OutcomeSafety == Spec => []OutcomeIsTrue
<1>1. Inv /\ CheckoutInv => OutcomeIsTrue
  BY DEF Inv, WorkerInv, AgentInv, AgentTypeOK, Thread, SessionInv, CheckoutInv,
     OutcomeIsTrue, TypeOK, SubmittedIsRecorded, AppliedWasCompleted, FailureIsTrue
<1> QED
  BY <1>1, SpecInv, SpecCheckout, PTL

\* A patch that is in the checkout is in a checkpoint or, while one workflow
\* uses the journal, named by it; and a session that says its patch is applied
\* is about a patch that is there, however many resumes apply, check and reverse
\* patches in that checkout, unless a recovery took the patch for applied while
\* it was still being checked (WorkerPatchApplier.apply and PatchJournal).
THEOREM PatchSafety == Spec => []PatchNotLost
<1>1. Inv /\ CheckoutInv => PatchNotLost
  BY DEF Inv, AgentInv, PatchInv, CheckoutInv, CheckedInv, PatchNotLost, WriteAhead,
     DurablyApplied
<1> QED
  BY <1>1, SpecInv, SpecCheckout, PTL

-----------------------------------------------------------------------------
(* Candidate planning.                                                     *)

-----------------------------------------------------------------------------
(* What the sessions, the workflows and the calls say together.            *)

PlanSet == [head : Heads \cup {Unset}, made : Nat]

SessionIds == Seq(Prints \cup Heads)

WorkflowIds == [session : SessionIds, plan : PlanSet]

PlannedSession ==
    [print : Prints, status : CP!Planning, plan : PlanSet \cup {Unset},
     workflow : WorkflowIds \cup {Unset}, planFingerprint : PlanSet \cup {Unset},
     request : PlanSet \cup {Unset}, predecessor : SessionIds \cup {Unset},
     successor : SessionIds \cup {Unset}]

Workflow ==
    [state : {"awaiting_approval", "blocked", "awaiting_implementation_approval"},
     plan : PlanSet, shell : {"pending", "approved", "rejected"},
     request : PlanSet \cup {Unset}]

\* The fields of a session: a plan is there exactly when it is ready, and a
\* workflow is of the plan the session still has.
SessionTyped(effect, sid, s) ==
    /\ s \in PlannedSession
    /\ s.status = "plan_ready" <=> s.plan # Unset
    /\ effect # "operational_action" /\ s.plan # Unset =>
          s.plan = CP!RepositoryPlan(s.plan.head)
    /\ s.workflow # Unset => /\ s.workflow = CP!WorkflowId(sid, s.plan)
                             /\ s.plan # Unset /\ s.planFingerprint = s.plan
    /\ s.request # Unset => s.workflow # Unset

\* What a session of sessions S and workflows W, stored or as it was read, says
\* of the others.
SessionLinked(S, W, sid, s) ==
    /\ s.workflow # Unset => s.workflow \in DOMAIN W
    /\ s.request # Unset => W[s.workflow].state = "awaiting_implementation_approval"
    /\ s.successor # Unset => /\ s.successor \in DOMAIN S
                              /\ S[s.successor].predecessor = sid

WorkflowTyped(S, wid, w) ==
    /\ wid = CP!WorkflowId(wid.session, wid.plan)
    /\ wid.session \in DOMAIN S /\ wid.plan \in PlanSet
    /\ w \in Workflow

\* The aggregate.
Stored(effect, S, W) ==
    /\ DOMAIN S \subseteq SessionIds
    /\ \A sid \in DOMAIN S : /\ SessionTyped(effect, sid, S[sid])
                             /\ SessionLinked(S, W, sid, S[sid])
    /\ \A wid \in DOMAIN W : WorkflowTyped(S, wid, W[wid])

\* A coroutine and the session it read, which may not be the stored one.
CallTyped(effect, S, W, k) ==
    /\ k \in [op : {"idle", "create", "successor", "plan", "convert", "translate",
                    "approve"},
              sid : SessionIds \cup {Unset}, wid : WorkflowIds \cup {Unset},
              read : PlannedSession \cup {Unset}, seen : SUBSET Prints]
    /\ k.op \in {"idle", "create"} => k.sid = Unset
    /\ k.op = "approve" => k.wid \in DOMAIN W /\ k.wid.session = k.sid
    /\ k.op # "approve" => k.wid = Unset
    /\ k.op = "plan" => k.read.status = "planning"
    /\ k.op = "convert" => k.read.plan # Unset
    /\ k.op \notin {"idle", "create"} =>
          /\ k.sid \in DOMAIN S
          /\ SessionTyped(effect, k.sid, k.read) /\ SessionLinked(S, W, k.sid, k.read)
          /\ k.read.predecessor = S[k.sid].predecessor

CallsTyped ==
    /\ DOMAIN calls = Calls
    /\ \A c \in Calls : CallTyped(scope.effect, planned, workflows, calls[c])

\* The lock: one call creates a successor, and what it read of the predecessor's
\* successor is still so, unless planning wrote an older version back.
Locked ==
    /\ \A c, d \in Calls :
          calls[c].op = "successor" /\ calls[d].op = "successor" => c = d
    /\ \A c \in Calls : calls[c].op = "successor" =>
          \/ planned[calls[c].sid].successor = calls[c].read.successor
          \/ calls[c].sid \in overwritten.plan

\* A session names its workflow, unless an older version of it was written back.
Named ==
    \A wid \in DOMAIN workflows :
       \/ planned[wid.session].workflow = wid
       \/ wid.session \in overwritten.plan \cup overwritten.successor

\* A session with a predecessor is its successor, unless planning the
\* predecessor wrote an older version of it back.
Followed ==
    \A sid \in DOMAIN planned :
       planned[sid].predecessor # Unset =>
          \/ planned[sid].predecessor \in overwritten.plan
          \/ /\ planned[sid].predecessor \in DOMAIN planned
             /\ planned[planned[sid].predecessor].successor = sid

Bounds ==
    /\ scope \in PlanningSettings /\ core \in Prints /\ head \in Heads
    /\ begins \in Nat /\ plans \in Nat /\ faults \in Nat /\ edits \in Nat
    /\ begins <= scope.begins /\ plans <= scope.plans
    /\ faults <= scope.faults /\ edits <= scope.edits
    /\ overwritten \in [plan : SUBSET SessionIds, successor : SUBSET SessionIds]

Coherent ==
    /\ Stored(scope.effect, planned, workflows)
    /\ CallsTyped
    /\ Locked
    /\ Named
    /\ Followed
    /\ CP!RequestIsThePlan
    /\ CP!ApprovedIsSettled

PlanningInv == Bounds /\ Coherent

-----------------------------------------------------------------------------
(* Lemmas about the identifiers and about updates of the aggregate.        *)

\* None is no plan and no identifier, and a workflow ID tells session and plan.
LEMMA Distinct ==
    /\ Unset \notin PlanSet /\ Unset \notin SessionIds /\ Unset \notin WorkflowIds
    /\ Unset \notin Prints /\ Unset \notin Heads
    /\ \A sid \in SessionIds, p \in PlanSet :
          /\ CP!WorkflowId(sid, p) \in WorkflowIds
          /\ CP!WorkflowId(sid, p).session = sid /\ CP!WorkflowId(sid, p).plan = p
  BY PlanningHolds
  DEF CP!SettingsAssumption, PlanSet, SessionIds, WorkflowIds, CP!WorkflowId

\* A plan of the repository and one of an operational candidate are plans.
LEMMA PlansTyped ==
    /\ \A h \in Heads : CP!RepositoryPlan(h) \in PlanSet /\ CP!RepositoryPlan(h).head = h
    /\ \A n \in Nat : CP!OperationalPlan(n) \in PlanSet
  BY DEF CP!RepositoryPlan, CP!OperationalPlan, PlanSet

\* The IDs of sessions.
LEMMA SessionIdsTyped ==
    /\ \A p \in Prints : CP!SessionId(p) \in SessionIds
    /\ \A p \in Prints, sid \in SessionIds, h \in Heads :
          CP!SuccessorId(p, sid, h) \in SessionIds
  BY DEF CP!SessionId, CP!SuccessorId, SessionIds

\* Store T is S with record r under id, which may be new.
Sets(S, T, id, r) ==
    /\ DOMAIN T = DOMAIN S \cup {id}
    /\ T[id] = r
    /\ \A i \in DOMAIN S : i # id => T[i] = S[i]

\* Put adds or replaces a record.
LEMMA PutSets ==
    ASSUME NEW S, NEW id, NEW r
    PROVE  Sets(S, CP!Put(S, id, r), id, r)
  BY DEF Sets, CP!Put

\* EXCEPT replaces one.
LEMMA ExceptSets ==
    ASSUME NEW S, NEW id \in DOMAIN S, NEW r
    PROVE  Sets(S, [S EXCEPT ![id] = r], id, r)
  BY DEF Sets

\* Sessions and workflows only grow: predecessors and requested workflows stay.
Grown(S, W, T, X) ==
    /\ DOMAIN S \subseteq DOMAIN T
    /\ \A sid \in DOMAIN S : T[sid].predecessor = S[sid].predecessor
    /\ DOMAIN W \subseteq DOMAIN X
    /\ \A wid \in DOMAIN W :
          W[wid].state = "awaiting_implementation_approval" => X[wid].state = W[wid].state

\* What a session said of the others, it still says.
LEMMA LinkedStays ==
    ASSUME NEW S, NEW W, NEW T, NEW X, Grown(S, W, T, X),
           NEW sid, NEW s, SessionLinked(S, W, sid, s),
           s.request # Unset => s.workflow # Unset
    PROVE  SessionLinked(T, X, sid, s)
  BY DEF Grown, SessionLinked

\* And so does what a call read.
LEMMA CallStays ==
    ASSUME NEW e, NEW S, NEW W, NEW T, NEW X, Grown(S, W, T, X),
           NEW k, CallTyped(e, S, W, k)
    PROVE  CallTyped(e, T, X, k)
<1>1. CASE k.op \in {"idle", "create"}
  BY <1>1 DEF CallTyped
<1>2. CASE k.op \notin {"idle", "create"}
  <2>1. SessionLinked(T, X, k.sid, k.read)
    BY <1>2, LinkedStays DEF CallTyped, SessionTyped
  <2> QED
    BY <1>2, <2>1 DEF CallTyped, Grown
<1> QED
  BY <1>1, <1>2

\* One session is written: a new one, or one whose predecessor stays.
LEMMA SessionSet ==
    ASSUME NEW e, NEW S, NEW W, NEW T, Stored(e, S, W),
           NEW sid \in SessionIds, NEW s, Sets(S, T, sid, s),
           SessionTyped(e, sid, s), SessionLinked(T, W, sid, s),
           sid \in DOMAIN S => s.predecessor = S[sid].predecessor
    PROVE  Stored(e, T, W) /\ Grown(S, W, T, W)
<1>1. Grown(S, W, T, W)
  BY DEF Grown, Sets
<1>2. ASSUME NEW i \in DOMAIN T
      PROVE  SessionTyped(e, i, T[i]) /\ SessionLinked(T, W, i, T[i])
  <2>1. CASE i = sid
    BY <2>1 DEF Sets
  <2>2. CASE i # sid
    <3>1. i \in DOMAIN S /\ T[i] = S[i]
      BY <2>2 DEF Sets
    <3>2. SessionTyped(e, i, S[i]) /\ SessionLinked(S, W, i, S[i])
      BY <3>1 DEF Stored
    <3>3. SessionLinked(T, W, i, S[i])
      BY <1>1, <3>2, LinkedStays DEF SessionTyped
    <3> QED
      BY <3>1, <3>2, <3>3
  <2> QED
    BY <2>1, <2>2
<1>3. DOMAIN T \subseteq SessionIds
  BY DEF Sets, Stored
<1>4. \A wid \in DOMAIN W : WorkflowTyped(T, wid, W[wid])
  BY DEF Sets, Stored, WorkflowTyped
<1> QED
  BY <1>1, <1>2, <1>3, <1>4 DEF Stored

\* One workflow is written: a new one, or one that does not lose its request.
LEMMA WorkflowSet ==
    ASSUME NEW e, NEW S, NEW W, NEW X, Stored(e, S, W),
           NEW wid, NEW w, Sets(W, X, wid, w), WorkflowTyped(S, wid, w),
           wid \in DOMAIN W /\ W[wid].state = "awaiting_implementation_approval" =>
              w.state = "awaiting_implementation_approval"
    PROVE  Stored(e, S, X) /\ Grown(S, W, S, X)
<1>1. Grown(S, W, S, X)
  BY DEF Grown, Sets
<1>2. ASSUME NEW i \in DOMAIN S
      PROVE  SessionTyped(e, i, S[i]) /\ SessionLinked(S, X, i, S[i])
  BY <1>1, LinkedStays DEF Stored, SessionTyped
<1>3. \A i \in DOMAIN X : WorkflowTyped(S, i, X[i])
  BY DEF Sets, Stored
<1> QED
  BY <1>1, <1>2, <1>3 DEF Stored

\* One change after another.
LEMMA GrownTwice ==
    ASSUME NEW S, NEW W, NEW T, NEW X, NEW U, NEW Y,
           Grown(S, W, T, X), Grown(T, X, U, Y)
    PROVE  Grown(S, W, U, Y)
  BY DEF Grown

-----------------------------------------------------------------------------
(* Lemmas about what a step leaves.                                        *)

\* The histories only grow.
HistoryGrows ==
    /\ overwritten.plan \subseteq overwritten'.plan
    /\ overwritten.successor \subseteq overwritten'.successor
    /\ unattended \subseteq unattended'

\* A session that was written back over a newer version is noted and the others
\* keep their workflow.
WorkflowsKeep ==
    /\ DOMAIN planned \subseteq DOMAIN planned'
    /\ \A sid \in DOMAIN planned :
          \/ planned'[sid].workflow = planned[sid].workflow
          \/ sid \in overwritten'.plan \cup overwritten'.successor

\* One that planning wrote back is noted and the others keep their successor.
SuccessorsKeep ==
    /\ DOMAIN planned \subseteq DOMAIN planned'
    /\ \A sid \in DOMAIN planned :
          \/ planned'[sid].successor = planned[sid].successor
          \/ sid \in overwritten'.plan

\* What has been approved and waits for its translation.
Waits(w) == w.shell = "approved" /\ w.state = "awaiting_approval"

\* The empty change of the aggregate.
LEMMA GrownSame == \A S, W : Grown(S, W, S, W)
  BY DEF Grown

\* A call that does nothing.
LEMMA IdleCallTyped ==
    ASSUME NEW e, NEW S, NEW W
    PROVE  CallTyped(e, S, W, CP!Idle)
  BY DEF CallTyped, CP!Idle

\* A call that has just read its session, and may have changed what it read.
LEMMA AskedTyped ==
    ASSUME PlanningInv, NEW op \in {"successor", "plan", "convert", "translate", "approve"},
           NEW sid \in DOMAIN planned, NEW wid \in DOMAIN workflows \cup {Unset},
           op = "approve" => wid # Unset /\ wid.session = sid,
           op # "approve" => wid = Unset,
           op = "plan" => planned[sid].status = "planning",
           op = "convert" => planned[sid].plan # Unset
    PROVE  CallTyped(scope.effect, planned, workflows, CP!Asked(op, sid, wid))
<1>1. /\ SessionTyped(scope.effect, sid, planned[sid])
      /\ SessionLinked(planned, workflows, sid, planned[sid])
      /\ sid \in SessionIds
  BY DEF PlanningInv, Coherent, Stored
<1>2. wid # Unset => wid \in WorkflowIds /\ wid \in DOMAIN workflows
  <2>1. SUFFICES ASSUME wid # Unset PROVE wid \in WorkflowIds /\ wid \in DOMAIN workflows
    OBVIOUS
  <2>2. WorkflowTyped(planned, wid, workflows[wid]) /\ wid \in DOMAIN workflows
    BY <2>1 DEF PlanningInv, Coherent, Stored
  <2> QED
    BY <2>2, Distinct DEF WorkflowTyped, PlanningInv, Coherent, Stored
<1>3. core \in Prints
  BY DEF PlanningInv, Bounds
<1> QED
  BY <1>1, <1>2, <1>3 DEF CallTyped, CP!Asked, SessionTyped

\* Call c becomes k.
LEMMA CallSets ==
    ASSUME PlanningInv, NEW c \in Calls, NEW k, calls' = [calls EXCEPT ![c] = k]
    PROVE  Sets(calls, calls', c, k)
  BY DEF PlanningInv, Coherent, CallsTyped, Sets

\* The calls of a step that writes one of them.
LEMMA CallsSet ==
    ASSUME PlanningInv, NEW c \in Calls, NEW k, Sets(calls, calls', c, k),
           scope' = scope, Grown(planned, workflows, planned', workflows'),
           CallTyped(scope.effect, planned', workflows', k)
    PROVE  CallsTyped'
<1>1. DOMAIN calls' = Calls
  BY DEF PlanningInv, Coherent, CallsTyped, Sets
<1>2. ASSUME NEW d \in Calls
      PROVE  CallTyped(scope.effect, planned', workflows', calls'[d])
  <2>1. CASE d = c
    BY <2>1 DEF Sets
  <2>2. CASE d # c
    <3>1. calls'[d] = calls[d]
      BY <2>2 DEF Sets, PlanningInv, Coherent, CallsTyped
    <3> QED
      BY <3>1, CallStays DEF PlanningInv, Coherent, CallsTyped
  <2> QED
    BY <2>1, <2>2
<1> QED
  BY <1>1, <1>2 DEF CallsTyped

\* The lock, when the step does not take it.
LEMMA LockSet ==
    ASSUME PlanningInv, NEW c \in Calls, NEW k, Sets(calls, calls', c, k),
           k.op # "successor", HistoryGrows, SuccessorsKeep
    PROVE  Locked'
<1>1. \A d \in Calls : calls'[d].op = "successor" => d # c /\ calls'[d] = calls[d]
  BY DEF Sets, PlanningInv, Coherent, CallsTyped
<1>2. \A d \in Calls : calls[d].op = "successor" => calls[d].sid \in DOMAIN planned
  BY DEF PlanningInv, Coherent, CallsTyped, CallTyped
<1>3. ASSUME NEW d \in Calls, calls'[d].op = "successor"
      PROVE  \/ planned'[calls'[d].sid].successor = calls'[d].read.successor
             \/ calls'[d].sid \in overwritten'.plan
  BY <1>1, <1>2, <1>3 DEF PlanningInv, Coherent, Locked, HistoryGrows, SuccessorsKeep
<1>4. \A x, y \in Calls :
        calls'[x].op = "successor" /\ calls'[y].op = "successor" => x = y
  BY <1>1 DEF PlanningInv, Coherent, Locked
<1> QED
  BY <1>3, <1>4 DEF Locked

\* The names of the workflows, when none is added.
LEMMA NamesKept ==
    ASSUME PlanningInv, HistoryGrows, WorkflowsKeep, DOMAIN workflows' = DOMAIN workflows
    PROVE  Named'
<1>1. \A wid \in DOMAIN workflows : wid.session \in DOMAIN planned
  BY DEF PlanningInv, Coherent, Stored, WorkflowTyped
<1> QED
  BY <1>1 DEF PlanningInv, Coherent, Named, HistoryGrows, WorkflowsKeep

\* The chain, when a new session begins one.
LEMMA ChainKept ==
    ASSUME PlanningInv, HistoryGrows, SuccessorsKeep,
           Grown(planned, workflows, planned', workflows'),
           \A sid \in DOMAIN planned' \ DOMAIN planned : planned'[sid].predecessor = Unset
    PROVE  Followed'
<1> SUFFICES ASSUME NEW sid \in DOMAIN planned, planned'[sid].predecessor # Unset
             PROVE  \/ planned'[sid].predecessor \in overwritten'.plan
                    \/ /\ planned'[sid].predecessor \in DOMAIN planned
                       /\ planned'[planned'[sid].predecessor].successor = sid
  BY DEF Followed, SuccessorsKeep
<1>1. planned'[sid].predecessor = planned[sid].predecessor
  BY DEF Grown
<1> QED
  BY <1>1 DEF PlanningInv, Coherent, Followed, HistoryGrows, SuccessorsKeep

\* The requests, when one workflow is written.
LEMMA RequestsSet ==
    ASSUME PlanningInv, scope' = scope, NEW wid, NEW w, Sets(workflows, workflows', wid, w),
           w.request # Unset => /\ w.request = wid.plan
                                /\ CP!Operational => w.shell = "approved"
    PROVE  CP!RequestIsThePlan'
  BY DEF PlanningInv, Coherent, CP!RequestIsThePlan, Sets, CP!Operational

\* The approved shells, when call c becomes k: one that waits did before and
\* has not lost its call, or it is an exception by now.
LEMMA SettledSet ==
    ASSUME PlanningInv, NEW c \in Calls, NEW k, Sets(calls, calls', c, k), HistoryGrows,
           \A wid \in DOMAIN workflows' : Waits(workflows'[wid]) =>
              \/ wid \in DOMAIN workflows /\ Waits(workflows[wid]) /\ calls[c].wid # wid
              \/ k.wid = wid
              \/ wid \in unattended'
              \/ wid.session \in overwritten'.plan \cup overwritten'.successor
    PROVE  CP!ApprovedIsSettled'
<1> SUFFICES ASSUME NEW wid \in DOMAIN workflows', Waits(workflows'[wid])
             PROVE  \/ \E d \in Calls : calls'[d].wid = wid
                    \/ wid \in unattended'
                    \/ wid.session \in overwritten'.plan \cup overwritten'.successor
  BY DEF CP!ApprovedIsSettled, Waits
<1>1. CASE k.wid = wid
  BY <1>1 DEF Sets
<1>2. CASE wid \in DOMAIN workflows /\ Waits(workflows[wid]) /\ calls[c].wid # wid
  <2>1. \/ \E d \in Calls : calls[d].wid = wid
        \/ wid \in unattended
        \/ wid.session \in overwritten.plan \cup overwritten.successor
    BY <1>2 DEF PlanningInv, Coherent, CP!ApprovedIsSettled, Waits
  <2>2. ASSUME NEW d \in Calls, calls[d].wid = wid PROVE calls'[d].wid = wid
    BY <1>2, <2>2 DEF Sets, PlanningInv, Coherent, CallsTyped
  <2> QED
    BY <2>1, <2>2 DEF HistoryGrows
<1> QED
  BY <1>1, <1>2

\* A call that approves nothing has no workflow.
LEMMA CallHasNoWorkflow ==
    ASSUME PlanningInv, NEW c \in Calls, calls[c].op # "approve", NEW wid \in DOMAIN workflows
    PROVE  calls[c].wid # wid
<1>1. calls[c].wid = Unset
  BY DEF PlanningInv, Coherent, CallsTyped, CallTyped
<1>2. wid \in WorkflowIds
  BY Distinct DEF PlanningInv, Coherent, Stored, WorkflowTyped
<1> QED
  BY <1>1, <1>2, Distinct

-----------------------------------------------------------------------------
(* Steps that leave the aggregate alone.                                   *)

\* What such a step leaves.
LEMMA DurableStays ==
    ASSUME PlanningInv, UNCHANGED <<scope, CP!durable, overwritten>>, unattended \subseteq unattended'
    PROVE  /\ Stored(scope.effect, planned, workflows)'
           /\ Named' /\ Followed' /\ CP!RequestIsThePlan'
           /\ WorkflowsKeep /\ SuccessorsKeep /\ HistoryGrows
           /\ Grown(planned, workflows, planned', workflows')
<1>1. /\ planned' = planned /\ workflows' = workflows /\ scope' = scope
      /\ overwritten' = overwritten
  BY DEF CP!durable
<1>2. /\ WorkflowsKeep /\ SuccessorsKeep /\ HistoryGrows
      /\ Grown(planned, workflows, planned', workflows')
  BY <1>1, GrownSame DEF WorkflowsKeep, SuccessorsKeep, HistoryGrows
<1>3. Named' /\ Followed'
  BY <1>1 DEF PlanningInv, Coherent, Named, Followed
<1>4. CP!RequestIsThePlan'
  BY <1>1 DEF PlanningInv, Coherent, CP!RequestIsThePlan, CP!Operational
<1> QED
  BY <1>1, <1>2, <1>3, <1>4 DEF PlanningInv, Coherent

\* One call becomes another that does not take the lock, and if it approved it
\* has been cut off.
LEMMA QuietStep ==
    ASSUME PlanningInv, UNCHANGED <<scope, CP!durable, overwritten>>, unattended \subseteq unattended',
           NEW c \in Calls, NEW k, calls' = [calls EXCEPT ![c] = k],
           CallTyped(scope.effect, planned, workflows, k), k.op # "successor",
           calls[c].op # "approve" \/ calls[c].wid \in unattended'
    PROVE  Coherent'
<1>1. /\ Stored(scope.effect, planned, workflows)'
      /\ Named' /\ Followed' /\ CP!RequestIsThePlan'
      /\ WorkflowsKeep /\ SuccessorsKeep /\ HistoryGrows
      /\ Grown(planned, workflows, planned', workflows')
  BY DurableStays
<1>2. /\ planned' = planned /\ workflows' = workflows /\ scope' = scope
  BY DEF CP!durable
<1>3. Sets(calls, calls', c, k)
  BY CallSets
<1>4. CallsTyped'
  BY <1>1, <1>2, <1>3, CallsSet
<1>5. Locked'
  BY <1>1, <1>3, LockSet
<1>6. ASSUME NEW wid \in DOMAIN workflows'
      PROVE  calls[c].wid # wid \/ wid \in unattended'
  BY <1>2, CallHasNoWorkflow
<1>7. CP!ApprovedIsSettled'
  BY <1>1, <1>2, <1>3, <1>6, SettledSet
<1> QED
  BY <1>1, <1>4, <1>5, <1>7 DEF Coherent

\* A creation begins.
LEMMA CreateAsksStep ==
    ASSUME PlanningInv, NEW c \in Calls, CP!CreateAsks(c) PROVE Coherent'
<1> DEFINE k == CP!Asked("create", Unset, Unset)
<1>1. CallTyped(scope.effect, planned, workflows, k) /\ k.op # "successor"
  <2>1. core \in Prints /\ Unset \notin DOMAIN planned
    BY Distinct DEF PlanningInv, Coherent, Bounds, Stored
  <2> QED
    BY <2>1 DEF CallTyped, CP!Asked
<1>2. /\ calls' = [calls EXCEPT ![c] = k] /\ calls[c].op # "approve"
      /\ UNCHANGED <<scope, CP!durable, overwritten>> /\ unattended \subseteq unattended'
  BY DEF CP!CreateAsks, CP!Begin, CP!Idle, CP!history
<1> HIDE DEF k
<1> QED
  BY <1>1, <1>2, QuietStep

\* A conversion begins.
LEMMA ConvertAsksStep ==
    ASSUME PlanningInv, NEW c \in Calls, CP!ConvertAsks(c) PROVE Coherent'
<1>1. PICK sid \in DOMAIN planned : /\ planned[sid].status = "plan_ready"
                                    /\ CP!Begin(c, CP!Asked("convert", sid, Unset))
  BY DEF CP!ConvertAsks
<1> DEFINE k == CP!Asked("convert", sid, Unset)
<1>2. planned[sid].plan # Unset
  BY <1>1 DEF PlanningInv, Coherent, Stored, SessionTyped
<1>3. CallTyped(scope.effect, planned, workflows, k)
  BY <1>2, AskedTyped
<1>4. k.op # "successor"
  BY DEF CP!Asked
<1>5. /\ calls' = [calls EXCEPT ![c] = k] /\ calls[c].op # "approve"
      /\ UNCHANGED <<scope, CP!durable, overwritten>> /\ unattended \subseteq unattended'
  <2>1. calls' = [calls EXCEPT ![c] = k] /\ calls[c].op # "approve"
    BY <1>1 DEF CP!Begin, CP!Idle
  <2> QED
    BY <2>1 DEF CP!ConvertAsks, CP!history
<1> HIDE DEF k
<1> QED
  BY <1>3, <1>4, <1>5, QuietStep

\* A translation begins.
LEMMA TranslateAsksStep ==
    ASSUME PlanningInv, NEW c \in Calls, CP!TranslateAsks(c) PROVE Coherent'
<1>1. PICK sid \in DOMAIN planned : CP!Begin(c, CP!Asked("translate", sid, Unset))
  BY DEF CP!TranslateAsks
<1> DEFINE k == CP!Asked("translate", sid, Unset)
<1>2. CallTyped(scope.effect, planned, workflows, k)
  BY AskedTyped
<1>3. k.op # "successor"
  BY DEF CP!Asked
<1>4. /\ calls' = [calls EXCEPT ![c] = k] /\ calls[c].op # "approve"
      /\ UNCHANGED <<scope, CP!durable, overwritten>> /\ unattended \subseteq unattended'
  <2>1. calls' = [calls EXCEPT ![c] = k] /\ calls[c].op # "approve"
    BY <1>1 DEF CP!Begin, CP!Idle
  <2> QED
    BY <2>1 DEF CP!TranslateAsks, CP!history
<1> HIDE DEF k
<1> QED
  BY <1>2, <1>3, <1>4, QuietStep

\* A write fails: an approved shell whose call it ends is noted.
LEMMA WriteFailsStep ==
    ASSUME PlanningInv, NEW c \in Calls, CP!WriteFails(c) PROVE Coherent'
<1>1. /\ calls' = [calls EXCEPT ![c] = CP!Idle]
      /\ UNCHANGED <<scope, CP!durable, overwritten>> /\ unattended \subseteq unattended'
      /\ \A wid \in DOMAIN workflows : calls[c].wid = wid => wid \in unattended'
  BY DEF CP!WriteFails, CP!End
<1>2. calls[c].op # "approve" \/ calls[c].wid \in unattended'
  BY <1>1 DEF PlanningInv, Coherent, CallsTyped, CallTyped
<1>3. CP!Idle.op # "successor"
  BY DEF CP!Idle
<1> QED
  BY <1>1, <1>2, <1>3, IdleCallTyped, QuietStep

\* A restart ends every call and notes what they approved.
LEMMA RestartStep ==
    ASSUME PlanningInv, CP!Restart PROVE Coherent'
<1>1. /\ UNCHANGED <<scope, CP!durable, overwritten>> /\ unattended \subseteq unattended'
      /\ planned' = planned /\ workflows' = workflows /\ overwritten' = overwritten
      /\ DOMAIN calls' = Calls /\ \A c \in Calls : calls'[c] = CP!Idle
      /\ \A wid \in DOMAIN workflows, c \in Calls :
            calls[c].wid = wid => wid \in unattended'
  BY DEF CP!Restart, CP!durable
<1>2. CallsTyped' /\ Locked'
  BY <1>1, IdleCallTyped DEF CallsTyped, Locked, CP!Idle
<1>3. CP!ApprovedIsSettled'
  BY <1>1 DEF PlanningInv, Coherent, CP!ApprovedIsSettled
<1> QED
  BY <1>1, <1>2, <1>3, DurableStays DEF Coherent

\* The candidate or HEAD changes, and what Core may answer with it.
LEMMA DriftStep ==
    ASSUME PlanningInv, CP!Drift PROVE Coherent'
<1>1. /\ UNCHANGED <<scope, CP!durable, overwritten>> /\ unattended \subseteq unattended'
      /\ planned' = planned /\ workflows' = workflows /\ overwritten' = overwritten
      /\ scope' = scope /\ unattended' = unattended
  BY DEF CP!Drift, CP!durable, CP!history
<1>2. DOMAIN calls' = Calls
  BY DEF CP!Drift, PlanningInv, Coherent, CallsTyped
<1>3. ASSUME NEW c \in Calls
      PROVE  /\ calls'[c].op = calls[c].op /\ calls'[c].sid = calls[c].sid
             /\ calls'[c].wid = calls[c].wid /\ calls'[c].read = calls[c].read
             /\ CallTyped(scope.effect, planned, workflows, calls'[c])
  <2>1. CallTyped(scope.effect, planned, workflows, calls[c])
    BY DEF PlanningInv, Coherent, CallsTyped
  <2>2. CASE calls'[c] = calls[c]
    BY <2>1, <2>2
  <2>3. CASE core' \in Prints /\ calls'[c] = [calls[c] EXCEPT !.seen = @ \cup {core'}]
    BY <2>1, <2>3 DEF CallTyped
  <2> QED
    BY <2>2, <2>3 DEF CP!Drift
<1>4. CallsTyped'
  BY <1>1, <1>2, <1>3 DEF CallsTyped
<1>5. Locked'
  BY <1>1, <1>3 DEF PlanningInv, Coherent, Locked
<1>6. CP!ApprovedIsSettled'
  BY <1>1, <1>3 DEF PlanningInv, Coherent, CP!ApprovedIsSettled
<1> QED
  BY <1>1, <1>4, <1>5, <1>6, DurableStays DEF Coherent

\* The creation of a successor takes the lock and reads the predecessor.
LEMMA SuccessorAsksStep ==
    ASSUME PlanningInv, NEW c \in Calls, CP!SuccessorAsks(c) PROVE Coherent'
<1>1. PICK sid \in DOMAIN planned : /\ CP!SuccessorUnlocked
                                    /\ CP!Begin(c, CP!Asked("successor", sid, Unset))
  BY DEF CP!SuccessorAsks
<1> DEFINE k == CP!Asked("successor", sid, Unset)
<1>2. CallTyped(scope.effect, planned, workflows, k)
  BY AskedTyped
<1>3. k.sid = sid /\ k.read = planned[sid]
  BY DEF CP!Asked
<1>4. /\ calls' = [calls EXCEPT ![c] = k] /\ calls[c] = CP!Idle
      /\ UNCHANGED <<scope, CP!durable, overwritten>> /\ unattended \subseteq unattended'
      /\ planned' = planned /\ workflows' = workflows /\ scope' = scope
  BY <1>1 DEF CP!SuccessorAsks, CP!Begin, CP!history, CP!durable
<1> HIDE DEF k
<1>5. Sets(calls, calls', c, k)
  BY <1>4, CallSets
<1>6. /\ WorkflowsKeep /\ SuccessorsKeep /\ HistoryGrows
      /\ Grown(planned, workflows, planned', workflows')
  BY <1>4, DurableStays
<1>7. CallsTyped'
  BY <1>2, <1>4, <1>5, <1>6, CallsSet
<1>8. Locked'
  <2>1. \A d \in Calls : calls'[d].op = "successor" => d = c
    BY <1>1, <1>5 DEF CP!SuccessorUnlocked, Sets, PlanningInv, Coherent, CallsTyped
  <2>2. planned'[calls'[c].sid].successor = calls'[c].read.successor
    BY <1>3, <1>4, <1>5 DEF Sets
  <2> QED
    BY <2>1, <2>2 DEF Locked
<1>9. calls[c].op # "approve"
  BY <1>4 DEF CP!Idle
<1>10. CP!ApprovedIsSettled'
  BY <1>4, <1>5, <1>6, <1>9, CallHasNoWorkflow, SettledSet
<1> QED
  BY <1>4, <1>7, <1>8, <1>10, DurableStays DEF Coherent

-----------------------------------------------------------------------------
(* Steps that write a session.                                             *)

\* What Core may answer a call of an operation.
LEMMA AnswersTyped ==
    ASSUME PlanningInv, NEW c \in Calls, NEW op, NEW answer \in CP!Answers(c, op)
    PROVE  calls[c].op = op /\ answer \in Prints \cup {Unset}
  BY DEF CP!Answers, PlanningInv, Coherent, CallsTyped, CallTyped

\* A call ends or goes on while sessions are written and no workflow is.
LEMMA SessionStep ==
    ASSUME PlanningInv, scope' = scope, workflows' = workflows, HistoryGrows,
           NEW c \in Calls, NEW k, Sets(calls, calls', c, k), calls[c].op # "approve",
           k.op # "successor", CallTyped(scope.effect, planned', workflows', k),
           Stored(scope.effect, planned', workflows'),
           Grown(planned, workflows, planned', workflows'), WorkflowsKeep, SuccessorsKeep,
           \A sid \in DOMAIN planned' \ DOMAIN planned : planned'[sid].predecessor = Unset
    PROVE  Coherent'
<1>1. Stored(scope.effect, planned, workflows)'
  OBVIOUS
<1>2. CallsTyped'
  BY CallsSet
<1>3. Locked'
  BY LockSet
<1>4. Named'
  BY NamesKept
<1>5. Followed'
  BY ChainKept
<1>6. CP!RequestIsThePlan'
  BY DEF PlanningInv, Coherent, CP!RequestIsThePlan, CP!Operational
<1>7. CP!ApprovedIsSettled'
  BY CallHasNoWorkflow, SettledSet
<1> QED
  BY <1>1, <1>2, <1>3, <1>4, <1>5, <1>6, <1>7 DEF Coherent

\* A new session.
LEMMA NewSessionTyped ==
    ASSUME NEW e, NEW S, NEW W, NEW sid, NEW print \in Prints,
           NEW pred \in SessionIds \cup {Unset}
    PROVE  /\ SessionTyped(e, sid, CP!NewSession(print, pred))
           /\ SessionLinked(S, W, sid, CP!NewSession(print, pred))
           /\ CP!NewSession(print, pred).predecessor = pred
  BY DEF SessionTyped, SessionLinked, CP!NewSession, PlannedSession, CP!Planning

\* A creation ends: the session is the first one.
LEMMA CreateEndsStep ==
    ASSUME PlanningInv, NEW c \in Calls, CP!CreateEnds(c) PROVE Coherent'
<1>1. PICK answer \in CP!Answers(c, "create") :
        planned' = IF planned = <<>> /\ answer # Unset
                   THEN CP!Put(planned, CP!SessionId(answer), CP!NewSession(answer, Unset))
                   ELSE planned
  BY DEF CP!CreateEnds
<1>2. /\ scope' = scope /\ workflows' = workflows /\ HistoryGrows
      /\ calls' = [calls EXCEPT ![c] = CP!Idle] /\ UNCHANGED overwritten
      /\ unattended \subseteq unattended'
  BY DEF CP!CreateEnds, CP!End, CP!history, HistoryGrows
<1>3. calls[c].op = "create" /\ answer \in Prints \cup {Unset}
  BY AnswersTyped
<1>4. CP!Idle.op # "successor"
  BY DEF CP!Idle
<1>5. CASE planned' = planned
  <2>1. UNCHANGED <<scope, CP!durable, overwritten>>
    BY <1>2, <1>5 DEF CP!durable
  <2> QED
    BY <1>2, <1>3, <1>4, <2>1, IdleCallTyped, QuietStep
<1>6. CASE planned = <<>> /\ answer # Unset
  <2> DEFINE sid == CP!SessionId(answer)
             s == CP!NewSession(answer, Unset)
  <2>1. Sets(planned, planned', sid, s)
    BY <1>1, <1>6, PutSets
  <2>2. sid \in SessionIds /\ DOMAIN planned = {}
    BY <1>3, <1>6, SessionIdsTyped
  <2>3. /\ SessionTyped(scope.effect, sid, s)
        /\ SessionLinked(planned', workflows, sid, s) /\ s.predecessor = Unset
    BY <1>3, <1>6, NewSessionTyped
  <2> HIDE DEF sid, s
  <2>4. /\ Stored(scope.effect, planned', workflows')
        /\ Grown(planned, workflows, planned', workflows')
    BY <1>2, <2>1, <2>2, <2>3, SessionSet DEF PlanningInv, Coherent
  <2>5. WorkflowsKeep /\ SuccessorsKeep
    BY <2>2 DEF WorkflowsKeep, SuccessorsKeep
  <2>6. \A i \in DOMAIN planned' \ DOMAIN planned : planned'[i].predecessor = Unset
    BY <2>1, <2>2, <2>3 DEF Sets
  <2>7. Sets(calls, calls', c, CP!Idle) /\ calls[c].op # "approve"
    BY <1>2, <1>3, CallSets
  <2> QED
    BY <1>2, <1>4, <2>4, <2>5, <2>6, <2>7, IdleCallTyped, SessionStep
<1> QED
  BY <1>1, <1>5, <1>6

\* Planning starts on a session without a plan, hence without a workflow.
LEMMA PlanAsksStep ==
    ASSUME PlanningInv, NEW c \in Calls, CP!PlanAsks(c) PROVE Coherent'
<1> DEFINE started(sid) == [planned[sid] EXCEPT !.status = "planning"]
           k(sid) == [CP!Asked("plan", sid, Unset) EXCEPT !.read = started(sid)]
<1>1. PICK sid \in DOMAIN planned :
        /\ planned[sid].status \notin {"plan_ready", "stale"}
        /\ planned' = [planned EXCEPT ![sid] = started(sid)]
        /\ CP!Begin(c, k(sid))
  BY DEF CP!PlanAsks
<1>2. /\ scope' = scope /\ workflows' = workflows /\ HistoryGrows
  BY DEF CP!PlanAsks, CP!history, HistoryGrows
<1>3. PICK s : s = started(sid)
  OBVIOUS
<1>4. PICK new : new = k(sid)
  OBVIOUS
<1>5. /\ SessionTyped(scope.effect, sid, planned[sid]) /\ sid \in SessionIds
      /\ SessionLinked(planned, workflows, sid, planned[sid])
  BY DEF PlanningInv, Coherent, Stored
<1>6. /\ s \in PlannedSession /\ s.status = "planning" /\ s.plan = planned[sid].plan
      /\ s.workflow = planned[sid].workflow /\ s.request = planned[sid].request
      /\ s.planFingerprint = planned[sid].planFingerprint
      /\ s.successor = planned[sid].successor
      /\ s.predecessor = planned[sid].predecessor
  BY <1>3, <1>5 DEF SessionTyped, PlannedSession, CP!Planning
<1>7. SessionTyped(scope.effect, sid, s)
  BY <1>1, <1>5, <1>6 DEF SessionTyped
<1>8. Sets(planned, planned', sid, s)
  BY <1>1, <1>3, ExceptSets
<1>9. SessionLinked(planned', workflows, sid, s)
  <2>1. \A i \in DOMAIN planned : i \in DOMAIN planned'
                                 /\ planned'[i].predecessor = planned[i].predecessor
    BY <1>6, <1>8 DEF Sets
  <2> QED
    BY <1>5, <1>6, <2>1 DEF SessionLinked
<1>10. /\ Stored(scope.effect, planned', workflows')
       /\ Grown(planned, workflows, planned', workflows')
  BY <1>2, <1>5, <1>6, <1>7, <1>8, <1>9, SessionSet DEF PlanningInv, Coherent
<1>11. WorkflowsKeep /\ SuccessorsKeep /\ DOMAIN planned' = DOMAIN planned
  BY <1>6, <1>8 DEF WorkflowsKeep, SuccessorsKeep, Sets
<1>12. CallTyped(scope.effect, planned', workflows', new)
  <2>1. core \in Prints
    BY DEF PlanningInv, Bounds
  <2>2. /\ new.op = "plan" /\ new.sid = sid /\ new.wid = Unset /\ new.read = s
        /\ new.seen = {core}
        /\ new = [op |-> "plan", sid |-> sid, wid |-> Unset, read |-> s, seen |-> {core}]
    BY <1>3, <1>4 DEF CP!Asked
  <2>3. s.predecessor = planned'[sid].predecessor /\ sid \in DOMAIN planned'
    BY <1>8 DEF Sets
  <2> QED
    BY <1>2, <1>5, <1>6, <1>7, <1>9, <2>1, <2>2, <2>3 DEF CallTyped
<1>13. calls' = [calls EXCEPT ![c] = new] /\ calls[c].op # "approve"
  BY <1>1, <1>4 DEF CP!Begin, CP!Idle
<1>14. new.op # "successor"
  BY <1>4 DEF CP!Asked
<1>15. Sets(calls, calls', c, new)
  BY <1>13, CallSets
<1> QED
  BY <1>2, <1>10, <1>11, <1>12, <1>13, <1>14, <1>15, SessionStep

\* What planning decides on: a plan, or a status without one.
LEMMA DecisionsTyped ==
    ASSUME PlanningInv, NEW c, NEW answer, NEW d \in CP!Decisions(c, answer)
    PROVE  /\ d.status \in {"plan_ready", "failed", "stale"}
           /\ d.status = "plan_ready" <=> d.plan # Unset
           /\ d.plan \in PlanSet \cup {Unset}
           /\ scope.effect # "operational_action" /\ d.plan # Unset =>
                 d.plan = CP!RepositoryPlan(d.plan.head)
<1>1. head \in Heads /\ plans + 1 \in Nat
  BY DEF PlanningInv, Bounds
<1>2. /\ CP!RepositoryPlan(head) \in PlanSet /\ CP!OperationalPlan(plans + 1) \in PlanSet
      /\ CP!RepositoryPlan(head).head = head
  BY <1>1, PlansTyped
<1>3. CASE d.status = "plan_ready" /\ d.plan = CP!OperationalPlan(plans + 1) /\ CP!Operational
  BY <1>2, <1>3, Distinct DEF CP!Operational
<1>4. CASE d.status = "plan_ready" /\ d.plan = CP!RepositoryPlan(head)
  BY <1>2, <1>4, Distinct
<1>5. CASE d.status \in {"failed", "stale"} /\ d.plan = Unset
  BY <1>5
<1> QED
  BY <1>3, <1>4, <1>5 DEF CP!Decisions

\* Planning ends: the session as it was when it started is written, and noted
\* if another version was stored by then.
LEMMA PlanEndsStep ==
    ASSUME PlanningInv, NEW c \in Calls, CP!PlanEnds(c) PROVE Coherent'
<1> DEFINE sid == calls[c].sid
           read == calls[c].read
           WritesBack(d) ==
             /\ planned' = [planned EXCEPT ![sid] =
                              [read EXCEPT !.status = d.status, !.plan = d.plan]]
             /\ overwritten' = IF planned[sid] # read
                               THEN [overwritten EXCEPT !.plan = @ \cup {sid}]
                               ELSE overwritten
             /\ unattended' = unattended /\ scope' = scope /\ workflows' = workflows
             /\ CP!End(c)
<1>0. PICK answer \in CP!Answers(c, "plan") :
        \E d \in CP!Decisions(c, answer) : WritesBack(d)
  BY DEF CP!PlanEnds
<1>1. PICK d \in CP!Decisions(c, answer) : WritesBack(d)
  BY <1>0
<1>2. calls[c].op = "plan"
  BY AnswersTyped
<1>3. /\ sid \in DOMAIN planned /\ sid \in SessionIds
      /\ SessionTyped(scope.effect, sid, read)
      /\ SessionLinked(planned, workflows, sid, read)
      /\ read.predecessor = planned[sid].predecessor /\ read.status = "planning"
  BY <1>2 DEF PlanningInv, Coherent, CallsTyped, CallTyped, Stored
<1>4. read.plan = Unset /\ read.workflow = Unset /\ read.request = Unset
  BY <1>3 DEF SessionTyped
<1>5. PICK s : s = [read EXCEPT !.status = d.status, !.plan = d.plan]
  OBVIOUS
<1>6. /\ d.status \in {"plan_ready", "failed", "stale"}
      /\ d.status = "plan_ready" <=> d.plan # Unset
      /\ d.plan \in PlanSet \cup {Unset}
      /\ scope.effect # "operational_action" /\ d.plan # Unset =>
            d.plan = CP!RepositoryPlan(d.plan.head)
  BY DecisionsTyped
<1>7. /\ s \in PlannedSession /\ s.status = d.status /\ s.plan = d.plan
      /\ s.workflow = Unset /\ s.request = Unset
      /\ s.successor = read.successor /\ s.predecessor = read.predecessor
  BY <1>3, <1>4, <1>5, <1>6 DEF SessionTyped, PlannedSession, CP!Planning
<1>8. SessionTyped(scope.effect, sid, s)
  BY <1>6, <1>7 DEF SessionTyped
<1>9. Sets(planned, planned', sid, s)
  BY <1>1, <1>3, <1>5, ExceptSets
<1>10. HistoryGrows /\ (planned[sid] # read => sid \in overwritten'.plan)
  BY <1>1 DEF HistoryGrows, PlanningInv, Bounds
<1>11. Sets(calls, calls', c, CP!Idle)
  BY <1>1, CallSets DEF CP!End
<1>12. scope' = scope /\ workflows' = workflows
  BY <1>1
<1> HIDE DEF sid, read
<1>13. SessionLinked(planned', workflows, sid, s)
  <2>1. \A i \in DOMAIN planned : i \in DOMAIN planned'
                                 /\ planned'[i].predecessor = planned[i].predecessor
    BY <1>3, <1>7, <1>9 DEF Sets
  <2> QED
    BY <1>3, <1>7, <2>1 DEF SessionLinked
<1>14. /\ Stored(scope.effect, planned', workflows')
       /\ Grown(planned, workflows, planned', workflows')
  BY <1>3, <1>7, <1>8, <1>9, <1>12, <1>13, SessionSet DEF PlanningInv, Coherent
<1>15. WorkflowsKeep /\ SuccessorsKeep /\ DOMAIN planned' = DOMAIN planned
  BY <1>3, <1>4, <1>7, <1>9, <1>10 DEF WorkflowsKeep, SuccessorsKeep, Sets
<1>16. CP!Idle.op # "successor" /\ calls[c].op # "approve"
  BY <1>2 DEF CP!Idle
<1> QED
  BY <1>10, <1>11, <1>12, <1>14, <1>15, <1>16, IdleCallTyped, SessionStep

\* The predecessor as it was read gets a successor: the chain and what it says
\* of workflows hold, as the lock kept its successor.
LEMMA SucceedStep ==
    ASSUME PlanningInv, NEW c \in Calls, calls[c].op = "successor", CP!End(c),
           scope' = scope, workflows' = workflows, unattended' = unattended,
           NEW print \in Prints, NEW id \in SessionIds, CP!Succeed(c, print, id)
    PROVE  Coherent'
<1> DEFINE pred == calls[c].sid
           read == calls[c].read
<1>1. /\ pred \in DOMAIN planned /\ pred \in SessionIds
      /\ SessionTyped(scope.effect, pred, read)
      /\ SessionLinked(planned, workflows, pred, read)
      /\ read.predecessor = planned[pred].predecessor
  BY DEF PlanningInv, Coherent, CallsTyped, CallTyped, Stored
<1>2. Sets(calls, calls', c, CP!Idle) /\ CP!Idle.op # "successor"
  BY CallSets DEF CP!End, CP!Idle
<1>3. CASE UNCHANGED <<planned, overwritten>>
  <2>1. UNCHANGED <<scope, CP!durable, overwritten>>
    BY <1>3 DEF CP!durable
  <2> QED
    BY <1>2, <2>1, IdleCallTyped, QuietStep DEF CP!End
<1>4. CASE ~ UNCHANGED <<planned, overwritten>>
  <2>1. id \notin DOMAIN planned /\ read.successor = Unset
    BY <1>1, <1>4 DEF CP!Succeed, SessionLinked
  <2> DEFINE linked == [read EXCEPT !.successor = id]
             mid == [planned EXCEPT ![pred] = linked]
  <2>2. /\ planned' = CP!Put(mid, id, CP!NewSession(print, pred))
        /\ overwritten' = IF planned[pred] # read
                          THEN [overwritten EXCEPT !.successor = @ \cup {pred}]
                          ELSE overwritten
    BY <1>4, <2>1 DEF CP!Succeed
  <2>3. PICK s : s = linked
    OBVIOUS
  <2>4. PICK new : new = CP!NewSession(print, pred)
    OBVIOUS
  <2>5. PICK S : S = mid
    OBVIOUS
  <2>6. Sets(planned, S, pred, s) /\ Sets(S, planned', id, new)
    BY <1>1, <2>2, <2>3, <2>4, <2>5, ExceptSets, PutSets
  <2>7. /\ s \in PlannedSession /\ s.status = read.status /\ s.plan = read.plan
        /\ s.workflow = read.workflow /\ s.request = read.request
        /\ s.planFingerprint = read.planFingerprint
        /\ s.successor = id /\ s.predecessor = read.predecessor
    BY <1>1, <2>3 DEF SessionTyped, PlannedSession
  <2>8. /\ HistoryGrows /\ overwritten.plan = overwritten'.plan
        /\ planned[pred] # read => pred \in overwritten'.successor
    BY <2>2 DEF HistoryGrows, PlanningInv, Bounds
  <2>9. new.predecessor = pred /\ new.successor = Unset
    BY <2>4 DEF CP!NewSession
  <2>10. SessionTyped(scope.effect, id, new)
    BY <1>1, <2>4, NewSessionTyped
  <2> HIDE DEF linked, mid, pred, read
  <2>11. /\ DOMAIN planned' = DOMAIN planned \cup {id} /\ id # pred
         /\ planned'[id] = new /\ planned'[pred] = s
         /\ \A i \in DOMAIN planned : i # pred => planned'[i] = planned[i]
    BY <1>1, <2>1, <2>6 DEF Sets
  <2>12. Grown(planned, workflows, planned', workflows')
    BY <1>1, <2>7, <2>11 DEF Grown
  <2>13. SessionTyped(scope.effect, pred, s)
    BY <1>1, <2>7 DEF SessionTyped
  <2>14. SessionLinked(planned', workflows, pred, s)
    BY <1>1, <2>7, <2>9, <2>11 DEF SessionLinked
  <2>15. SessionLinked(planned', workflows, id, new)
    BY <1>1, <2>4, NewSessionTyped
  <2>16. Stored(scope.effect, planned', workflows')
    <3>1. ASSUME NEW i \in DOMAIN planned'
          PROVE  /\ SessionTyped(scope.effect, i, planned'[i])
                 /\ SessionLinked(planned', workflows, i, planned'[i])
      <4>1. CASE i = id
        BY <2>10, <2>11, <2>15, <4>1
      <4>2. CASE i = pred
        BY <2>11, <2>13, <2>14, <4>2
      <4>3. CASE i \in DOMAIN planned /\ i # pred
        BY <2>11, <2>12, <4>3, LinkedStays
        DEF PlanningInv, Coherent, Stored, SessionTyped
      <4> QED
        BY <2>11, <4>1, <4>2, <4>3
    <3>2. DOMAIN planned' \subseteq SessionIds
      BY <2>11 DEF PlanningInv, Coherent, Stored
    <3>3. \A wid \in DOMAIN workflows : WorkflowTyped(planned', wid, workflows[wid])
      BY <2>11 DEF PlanningInv, Coherent, Stored, WorkflowTyped
    <3> QED
      BY <3>1, <3>2, <3>3 DEF Stored
  <2>17. Stored(scope.effect, planned, workflows)'
    BY <2>16
  <2>18. CallsTyped'
    BY <1>2, <2>12, IdleCallTyped, CallsSet
  <2>19. Locked'
    <3>1. \A d \in Calls : calls'[d].op # "successor"
      BY <1>2 DEF Sets, PlanningInv, Coherent, CallsTyped, Locked
    <3> QED
      BY <3>1 DEF Locked
  <2>20. Named'
    <3>1. \A wid \in DOMAIN workflows : wid.session \in DOMAIN planned
      BY DEF PlanningInv, Coherent, Stored, WorkflowTyped
    <3>2. \A i \in DOMAIN planned :
            \/ planned'[i].workflow = planned[i].workflow
            \/ i \in overwritten'.plan \cup overwritten'.successor
      BY <2>7, <2>8, <2>11
    <3> QED
      BY <2>8, <3>1, <3>2 DEF PlanningInv, Coherent, Named, HistoryGrows
  <2>21. Followed'
    <3>1. planned[pred].successor = Unset \/ pred \in overwritten.plan
      BY <2>1 DEF PlanningInv, Coherent, Locked, pred, read
    <3>2. ASSUME NEW i \in DOMAIN planned, planned[i].predecessor # Unset
          PROVE  \/ planned[i].predecessor \in overwritten'.plan
                 \/ /\ planned[i].predecessor \in DOMAIN planned'
                    /\ planned'[planned[i].predecessor].successor = i
      <4>1. i # Unset
        BY Distinct DEF PlanningInv, Coherent, Stored
      <4> QED
        BY <2>8, <2>11, <3>1, <3>2, <4>1 DEF PlanningInv, Coherent, Followed
    <3>3. \A i \in DOMAIN planned : planned'[i].predecessor = planned[i].predecessor
      BY <2>12 DEF Grown
    <3> QED
      BY <1>1, <2>7, <2>9, <2>11, <3>2, <3>3 DEF Followed
  <2>22. CP!RequestIsThePlan'
    BY DEF PlanningInv, Coherent, CP!RequestIsThePlan, CP!Operational
  <2>23. CP!ApprovedIsSettled'
    BY <1>2, <2>8, CallHasNoWorkflow, SettledSet
  <2> QED
    BY <2>17, <2>18, <2>19, <2>20, <2>21, <2>22, <2>23 DEF Coherent
<1> QED
  BY <1>3, <1>4

\* The creation of a successor ends.
LEMMA SuccessorEndsStep ==
    ASSUME PlanningInv, NEW c \in Calls, CP!SuccessorEnds(c) PROVE Coherent'
<1>1. PICK answer \in CP!Answers(c, "successor") :
        IF answer = Unset
        THEN UNCHANGED <<planned, overwritten>>
        ELSE \E id \in CP!SuccessorIds(c, answer) : CP!Succeed(c, answer, id)
  BY DEF CP!SuccessorEnds
<1>2. /\ CP!End(c) /\ scope' = scope /\ workflows' = workflows /\ unattended' = unattended
  BY DEF CP!SuccessorEnds
<1>3. calls[c].op = "successor" /\ answer \in Prints \cup {Unset}
  BY AnswersTyped
<1>4. CASE UNCHANGED <<planned, overwritten>>
  <2>1. UNCHANGED <<scope, CP!durable, overwritten>>
    BY <1>2, <1>4 DEF CP!durable
  <2>2. CP!Idle.op # "successor"
    BY DEF CP!Idle
  <2> QED
    BY <1>2, <1>3, <2>1, <2>2, IdleCallTyped, QuietStep DEF CP!End
<1>5. ASSUME answer # Unset, NEW id \in CP!SuccessorIds(c, answer), CP!Succeed(c, answer, id)
      PROVE  Coherent'
  <2>1. calls[c].sid \in SessionIds /\ head \in Heads
    BY <1>3 DEF PlanningInv, Coherent, Bounds, CallsTyped, CallTyped, Stored
  <2>2. id \in SessionIds
    BY <1>3, <1>5, <2>1, SessionIdsTyped DEF CP!SuccessorIds
  <2> QED
    BY <1>2, <1>3, <1>5, <2>2, SucceedStep
<1> QED
  BY <1>1, <1>4, <1>5

-----------------------------------------------------------------------------
(* Steps that write a workflow.                                            *)

\* A new workflow is for a ready plan, and its session names it.
LEMMA ConvertEndsStep ==
    ASSUME PlanningInv, NEW c \in Calls, CP!ConvertEnds(c) PROVE Coherent'
<1> DEFINE sid == calls[c].sid
           read == calls[c].read
           plan == calls[c].read.plan
           wid == CP!WorkflowId(sid, plan)
<1>1. PICK answer \in CP!Answers(c, "convert") :
        IF CP!Accepted(c, answer) /\ CP!MayConvert(sid, plan)
        THEN /\ workflows' = CP!Put(workflows, wid, CP!NewShell(plan))
             /\ planned' = [planned EXCEPT ![sid] = CP!Converted(@, wid)]
        ELSE UNCHANGED CP!durable
  BY DEF CP!ConvertEnds
<1>2. /\ CP!End(c) /\ scope' = scope /\ UNCHANGED CP!history /\ HistoryGrows
      /\ overwritten' = overwritten /\ unattended' = unattended
  BY DEF CP!ConvertEnds, CP!history, HistoryGrows
<1>3. calls[c].op = "convert"
  BY AnswersTyped
<1>4. CP!Idle.op # "successor" /\ Sets(calls, calls', c, CP!Idle) /\ calls[c].op # "approve"
  BY <1>2, <1>3, CallSets DEF CP!Idle, CP!End
<1>5. CASE UNCHANGED CP!durable
  BY <1>2, <1>4, <1>5, IdleCallTyped, QuietStep DEF CP!End
<1>6. CASE ~ UNCHANGED CP!durable
  <2>1. /\ CP!MayConvert(sid, plan)
        /\ workflows' = CP!Put(workflows, wid, CP!NewShell(plan))
        /\ planned' = [planned EXCEPT ![sid] = CP!Converted(@, wid)]
    BY <1>1, <1>6
  <2>2. /\ sid \in DOMAIN planned /\ sid \in SessionIds
        /\ SessionTyped(scope.effect, sid, planned[sid])
        /\ SessionLinked(planned, workflows, sid, planned[sid])
        /\ plan # Unset /\ plan \in PlanSet
    BY <1>3
    DEF PlanningInv, Coherent, CallsTyped, CallTyped, Stored, SessionTyped,
        PlannedSession
  <2>3. /\ planned[sid].workflow = Unset /\ planned[sid].plan = plan
        /\ wid \notin DOMAIN workflows
    BY <2>1 DEF CP!MayConvert
  <2>4. wid \in WorkflowIds /\ wid.session = sid /\ wid.plan = plan /\ wid # Unset
    BY <2>2, Distinct
  <2>5. wid = CP!WorkflowId(wid.session, wid.plan)
    BY <2>4
  <2>6. PICK s : s = CP!Converted(planned[sid], wid)
    OBVIOUS
  <2>7. PICK w : w = CP!NewShell(plan)
    OBVIOUS
  <2>8. Sets(planned, planned', sid, s) /\ Sets(workflows, workflows', wid, w)
    BY <2>1, <2>2, <2>6, <2>7, ExceptSets, PutSets
  <2>9. /\ s \in PlannedSession /\ s.status = planned[sid].status /\ s.plan = plan
        /\ s.workflow = wid /\ s.planFingerprint = plan
        /\ s.request = planned[sid].request
        /\ s.successor = planned[sid].successor
        /\ s.predecessor = planned[sid].predecessor
    BY <2>2, <2>3, <2>4, <2>6 DEF CP!Converted, SessionTyped, PlannedSession
  <2>10. w \in Workflow /\ w.request = Unset /\ ~ Waits(w)
    BY <2>2, <2>7 DEF CP!NewShell, Workflow, Waits
  <2>11. SessionTyped(scope.effect, sid, s)
    BY <2>2, <2>3, <2>5, <2>4, <2>9 DEF SessionTyped
  <2> HIDE DEF sid, read, plan, wid
  <2>12. WorkflowTyped(planned, wid, w)
    BY <2>2, <2>4, <2>5, <2>10 DEF WorkflowTyped
  <2>13. /\ Stored(scope.effect, planned, workflows')
         /\ Grown(planned, workflows, planned, workflows')
    BY <2>3, <2>8, <2>12, WorkflowSet DEF PlanningInv, Coherent
  <2>14. SessionLinked(planned', workflows', sid, s)
    <3>1. \A i \in DOMAIN planned : i \in DOMAIN planned'
                                 /\ planned'[i].predecessor = planned[i].predecessor
      BY <2>8, <2>9 DEF Sets
    <3>2. wid \in DOMAIN workflows' /\ s.request = Unset
      BY <2>2, <2>3, <2>8, <2>9 DEF Sets, SessionTyped
    <3> QED
      BY <2>2, <2>9, <3>1, <3>2 DEF SessionLinked
  <2>15. /\ Stored(scope.effect, planned', workflows')
         /\ Grown(planned, workflows', planned', workflows')
    BY <2>2, <2>8, <2>9, <2>11, <2>13, <2>14, SessionSet
  <2>16. Grown(planned, workflows, planned', workflows')
    BY <2>13, <2>15, GrownTwice
  <2>17. Stored(scope.effect, planned, workflows)'
    BY <1>2, <2>15
  <2>18. SuccessorsKeep /\ DOMAIN planned' = DOMAIN planned
    BY <2>2, <2>8, <2>9 DEF SuccessorsKeep, Sets
  <2>19. CallsTyped' /\ Locked' /\ Followed'
    BY <1>2, <1>4, <2>16, <2>18, IdleCallTyped, CallsSet, LockSet, ChainKept
  <2>20. Named'
    <3> SUFFICES ASSUME NEW v \in DOMAIN workflows'
                 PROVE  \/ planned'[v.session].workflow = v
                        \/ v.session \in overwritten.plan \cup overwritten.successor
      BY <1>2 DEF Named
    <3>1. CASE v = wid
      BY <2>4, <2>8, <2>9, <3>1 DEF Sets
    <3>2. CASE v # wid
      <4>1. v \in DOMAIN workflows
        BY <2>8, <3>2 DEF Sets
      <4>2. v \in WorkflowIds /\ v.session \in DOMAIN planned
        BY <4>1, Distinct DEF PlanningInv, Coherent, Stored, WorkflowTyped
      <4>3. \/ planned[v.session].workflow = v
            \/ v.session \in overwritten.plan \cup overwritten.successor
        BY <4>1 DEF PlanningInv, Coherent, Named
      <4>4. v # Unset
        BY <4>2, Distinct
      <4> QED
        BY <2>3, <2>8, <4>2, <4>3, <4>4 DEF Sets
    <3> QED
      BY <3>1, <3>2
  <2>21. CP!RequestIsThePlan'
    BY <1>2, <2>8, <2>10, RequestsSet
  <2>22. ASSUME NEW v \in DOMAIN workflows', Waits(workflows'[v])
         PROVE  v \in DOMAIN workflows /\ Waits(workflows[v]) /\ calls[c].wid # v
    <3>1. v \in DOMAIN workflows /\ workflows'[v] = workflows[v]
      BY <2>8, <2>10, <2>22 DEF Sets
    <3> QED
      BY <1>4, <2>22, <3>1, CallHasNoWorkflow
  <2>23. CP!ApprovedIsSettled'
    BY <1>2, <1>4, <2>22, SettledSet
  <2> QED
    BY <2>17, <2>19, <2>20, <2>21, <2>23 DEF Coherent
<1> QED
  BY <1>5, <1>6

\* A translation is for the plan of a session and of the workflow it names: both
\* get the request, and the workflow no longer waits.
LEMMA TranslatedStep ==
    ASSUME PlanningInv, NEW c \in Calls, calls[c].op \in {"translate", "approve"}, NEW plan,
           CP!MayTranslate(planned[calls[c].sid], plan), CP!Translated(calls[c].sid), CP!End(c),
           scope' = scope, overwritten' = overwritten, unattended' = unattended
    PROVE  Coherent'
<1> DEFINE sid == calls[c].sid
           wid == planned[sid].workflow
           request == CP!Request(planned[sid])
<1>1. /\ sid \in DOMAIN planned /\ sid \in SessionIds
      /\ SessionTyped(scope.effect, sid, planned[sid])
      /\ SessionLinked(planned, workflows, sid, planned[sid])
  BY DEF PlanningInv, Coherent, CallsTyped, CallTyped, Stored
<1>2. /\ wid # Unset /\ planned[sid].plan # Unset
      /\ CP!Operational => workflows[wid].shell = "approved"
      /\ ~ CP!Operational => head = planned[sid].plan.head
  BY DEF CP!MayTranslate, CP!HeadReviewed
<1>3. /\ wid \in DOMAIN workflows /\ WorkflowTyped(planned, wid, workflows[wid])
      /\ wid = CP!WorkflowId(sid, planned[sid].plan) /\ planned[sid].plan \in PlanSet
  BY <1>1, <1>2
  DEF SessionTyped, SessionLinked, PlannedSession, PlanningInv, Coherent, Stored
<1>4. wid.session = sid /\ wid.plan = planned[sid].plan
  BY <1>1, <1>3, Distinct
<1>5. request = planned[sid].plan
  BY <1>1, <1>2 DEF CP!Request, SessionTyped, CP!Operational
<1>6. PICK w : w = [workflows[wid] EXCEPT !.state = "awaiting_implementation_approval",
                                          !.request = request]
  OBVIOUS
<1>7. PICK s : s = [planned[sid] EXCEPT !.request = request]
  OBVIOUS
<1>8. /\ workflows' = [workflows EXCEPT ![wid].state = "awaiting_implementation_approval",
                                       ![wid].request = request]
      /\ planned' = [planned EXCEPT ![sid].request = request]
  BY DEF CP!Translated
<1>9. Sets(planned, planned', sid, s) /\ Sets(workflows, workflows', wid, w)
  BY <1>1, <1>3, <1>6, <1>7, <1>8 DEF Sets
<1>10. /\ w \in Workflow /\ w.state = "awaiting_implementation_approval"
       /\ w.request = request /\ w.shell = workflows[wid].shell
  BY <1>3, <1>5, <1>6 DEF WorkflowTyped, Workflow
<1>11. /\ s \in PlannedSession /\ s.status = planned[sid].status
       /\ s.plan = planned[sid].plan /\ s.workflow = wid /\ s.request = request
       /\ s.planFingerprint = planned[sid].planFingerprint
       /\ s.successor = planned[sid].successor
       /\ s.predecessor = planned[sid].predecessor
  BY <1>1, <1>3, <1>5, <1>7 DEF SessionTyped, PlannedSession
<1>12. SessionTyped(scope.effect, sid, s)
  BY <1>1, <1>2, <1>11 DEF SessionTyped
<1>13. HistoryGrows /\ Sets(calls, calls', c, CP!Idle) /\ CP!Idle.op # "successor"
  BY CallSets DEF HistoryGrows, CP!End, CP!Idle
<1> HIDE DEF sid, wid, request
<1>14. WorkflowTyped(planned, wid, w)
  BY <1>3, <1>10 DEF WorkflowTyped
<1>15. /\ Stored(scope.effect, planned, workflows')
       /\ Grown(planned, workflows, planned, workflows')
  BY <1>9, <1>10, <1>14, WorkflowSet DEF PlanningInv, Coherent
<1>16. SessionLinked(planned', workflows', sid, s)
  <2>1. \A i \in DOMAIN planned : i \in DOMAIN planned'
                                 /\ planned'[i].predecessor = planned[i].predecessor
    BY <1>9, <1>11 DEF Sets
  <2>2. wid \in DOMAIN workflows' /\ workflows'[wid] = w
    BY <1>9 DEF Sets
  <2> QED
    BY <1>1, <1>10, <1>11, <2>1, <2>2 DEF SessionLinked
<1>17. /\ Stored(scope.effect, planned', workflows')
       /\ Grown(planned, workflows', planned', workflows')
  BY <1>1, <1>9, <1>11, <1>12, <1>15, <1>16, SessionSet
<1>18. Grown(planned, workflows, planned', workflows')
  BY <1>15, <1>17, GrownTwice
<1>19. Stored(scope.effect, planned, workflows)'
  BY <1>17
<1>20. /\ SuccessorsKeep /\ DOMAIN planned' = DOMAIN planned
       /\ DOMAIN workflows' = DOMAIN workflows
  BY <1>1, <1>3, <1>9, <1>11 DEF SuccessorsKeep, Sets
<1>21. WorkflowsKeep
  BY <1>1, <1>9, <1>11 DEF WorkflowsKeep, Sets, wid
<1>22. CallsTyped' /\ Locked' /\ Followed' /\ Named'
  BY <1>13, <1>18, <1>20, <1>21, IdleCallTyped, CallsSet, LockSet, ChainKept, NamesKept
<1>23. CP!RequestIsThePlan'
  BY <1>2, <1>4, <1>5, <1>9, <1>10, RequestsSet
<1>24. ASSUME NEW v \in DOMAIN workflows', Waits(workflows'[v])
       PROVE  \/ v \in DOMAIN workflows /\ Waits(workflows[v]) /\ calls[c].wid # v
              \/ v.session \in overwritten'.plan \cup overwritten'.successor
  <2>1. v # wid
    BY <1>9, <1>10, <1>24 DEF Sets, Waits
  <2>2. v \in DOMAIN workflows /\ workflows'[v] = workflows[v]
    BY <1>9, <2>1 DEF Sets
  <2>3. CASE calls[c].op # "approve"
    BY <1>24, <2>2, <2>3, CallHasNoWorkflow
  <2>4. CASE calls[c].op = "approve" /\ calls[c].wid = v
    <3>1. v.session = sid
      BY <2>4 DEF PlanningInv, Coherent, CallsTyped, CallTyped, sid
    <3> QED
      BY <2>1, <2>2, <3>1 DEF PlanningInv, Coherent, Named, wid
  <2> QED
    BY <1>24, <2>2, <2>3, <2>4
<1>25. CP!ApprovedIsSettled'
  BY <1>13, <1>24, SettledSet
<1> QED
  BY <1>19, <1>22, <1>23, <1>25 DEF Coherent

\* A translation ends.
LEMMA TranslateEndsStep ==
    ASSUME PlanningInv, NEW c \in Calls, CP!TranslateEnds(c) PROVE Coherent'
<1>1. PICK answer \in CP!Answers(c, "translate") :
        \/ /\ CP!MayTranslate(planned[calls[c].sid], calls[c].read.plan)
           /\ CP!Translated(calls[c].sid)
        \/ UNCHANGED CP!durable
  BY DEF CP!TranslateEnds
<1>2. /\ CP!End(c) /\ scope' = scope /\ overwritten' = overwritten
      /\ unattended' = unattended
  BY DEF CP!TranslateEnds, CP!history
<1>3. calls[c].op = "translate"
  BY AnswersTyped
<1>4. CASE UNCHANGED CP!durable
  <2>1. CP!Idle.op # "successor"
    BY DEF CP!Idle
  <2> QED
    BY <1>2, <1>3, <1>4, <2>1, IdleCallTyped, QuietStep DEF CP!End
<1>5. CASE /\ CP!MayTranslate(planned[calls[c].sid], calls[c].read.plan)
           /\ CP!Translated(calls[c].sid)
  BY <1>2, <1>3, <1>5, TranslatedStep
<1> QED
  BY <1>1, <1>4, <1>5

\* The decision on a shell, or the block of its workflow: call c becomes k.
LEMMA ShellStep ==
    ASSUME PlanningInv, UNCHANGED <<scope, planned, overwritten>>, unattended \subseteq unattended',
           NEW c \in Calls, NEW k, Sets(calls, calls', c, k), k.op # "successor",
           CallTyped(scope.effect, planned, workflows, k),
           NEW wid \in DOMAIN workflows, NEW w \in Workflow,
           Sets(workflows, workflows', wid, w), w.request = workflows[wid].request,
           workflows[wid].shell = "approved" => w.shell = "approved",
           workflows[wid].state = "awaiting_implementation_approval" =>
              w.state = "awaiting_implementation_approval",
           calls[c].op = "approve" => calls[c].wid = wid,
           Waits(w) => \/ k.wid = wid
                       \/ wid.session \in overwritten.plan \cup overwritten.successor
    PROVE  Coherent'
<1>1. /\ HistoryGrows /\ WorkflowsKeep /\ SuccessorsKeep
      /\ DOMAIN workflows' = DOMAIN workflows
  BY DEF HistoryGrows, WorkflowsKeep, SuccessorsKeep, Sets
<1>2. WorkflowTyped(planned, wid, w)
  BY DEF PlanningInv, Coherent, Stored, WorkflowTyped
<1>3. /\ Stored(scope.effect, planned, workflows')
      /\ Grown(planned, workflows, planned, workflows')
  BY <1>2, WorkflowSet DEF PlanningInv, Coherent
<1>4. Stored(scope.effect, planned, workflows)'
  BY <1>3
<1>5. CallTyped(scope.effect, planned', workflows', k)
  BY <1>3, CallStays
<1>6. CallsTyped' /\ Locked' /\ Followed' /\ Named'
  BY <1>1, <1>3, <1>5, CallsSet, LockSet, ChainKept, NamesKept
<1>7. CP!RequestIsThePlan'
  <2>1. w.request # Unset => /\ w.request = wid.plan
                             /\ CP!Operational => w.shell = "approved"
    BY DEF PlanningInv, Coherent, CP!RequestIsThePlan
  <2> QED
    BY <2>1, RequestsSet
<1>8. ASSUME NEW v \in DOMAIN workflows', Waits(workflows'[v])
      PROVE  \/ v \in DOMAIN workflows /\ Waits(workflows[v]) /\ calls[c].wid # v
             \/ k.wid = v
             \/ v.session \in overwritten'.plan \cup overwritten'.successor
  <2>1. CASE v = wid
    BY <1>8, <2>1 DEF Sets
  <2>2. CASE v # wid
    <3>1. v \in DOMAIN workflows /\ workflows'[v] = workflows[v]
      BY <2>2 DEF Sets
    <3> QED
      BY <1>8, <2>2, <3>1, CallHasNoWorkflow
  <2> QED
    BY <2>1, <2>2
<1>9. CP!ApprovedIsSettled'
  BY <1>1, <1>8, SettledSet
<1> QED
  BY <1>4, <1>6, <1>7, <1>9 DEF Coherent

\* Of a session with a request the workflow has it too, and no longer waits.
LEMMA RequestedIsDone ==
    ASSUME PlanningInv, NEW wid \in DOMAIN workflows, planned[wid.session].request # Unset
    PROVE  \/ workflows[wid].state = "awaiting_implementation_approval"
           \/ wid.session \in overwritten.plan \cup overwritten.successor
<1>1. wid.session \in DOMAIN planned
  BY DEF PlanningInv, Coherent, Stored, WorkflowTyped
<1>2. SessionLinked(planned, workflows, wid.session, planned[wid.session])
  BY <1>1 DEF PlanningInv, Coherent, Stored
<1> QED
  BY <1>2 DEF SessionLinked, PlanningInv, Coherent, Named

\* A shell that is decided and nothing else: a rejected one waits for no
\* translation, an approved one has nobody who would make it.
LEMMA DecisionStep ==
    ASSUME PlanningInv, NEW wid \in DOMAIN workflows,
           NEW decision \in {"approved", "rejected"},
           workflows[wid].shell = "pending",
           workflows' = [workflows EXCEPT ![wid].shell = decision],
           UNCHANGED <<scope, planned, calls, overwritten>>,
           unattended \subseteq unattended',
           decision = "approved" => wid \in unattended'
    PROVE  Coherent'
<1>1. workflows' = [workflows EXCEPT ![wid] = [workflows[wid] EXCEPT !.shell = decision]]
  OBVIOUS
<1>2. /\ scope' = scope /\ planned' = planned /\ calls' = calls
      /\ overwritten' = overwritten
  OBVIOUS
<1>3. PICK w : w = [workflows[wid] EXCEPT !.shell = decision]
  OBVIOUS
<1>4. Sets(workflows, workflows', wid, w)
  BY <1>1, <1>3 DEF Sets
<1>5. WorkflowTyped(planned, wid, workflows[wid])
  BY DEF PlanningInv, Coherent, Stored
<1>6. /\ w \in Workflow /\ w.request = workflows[wid].request /\ w.shell = decision
      /\ w.state = workflows[wid].state
  BY <1>3, <1>5 DEF WorkflowTyped, Workflow
<1>7. WorkflowTyped(planned, wid, w)
  BY <1>5, <1>6 DEF WorkflowTyped
<1>8. /\ Stored(scope.effect, planned, workflows')
      /\ Grown(planned, workflows, planned, workflows')
  BY <1>4, <1>6, <1>7, WorkflowSet DEF PlanningInv, Coherent
<1>9. Stored(scope.effect, planned, workflows)'
  BY <1>2, <1>8
<1>10. CallsTyped' /\ Locked'
  BY <1>2, <1>8, CallStays DEF PlanningInv, Coherent, CallsTyped, Locked
<1>11. Named' /\ Followed'
  BY <1>2, <1>4 DEF PlanningInv, Coherent, Named, Followed, Sets
<1>12. CP!RequestIsThePlan'
  <2>1. w.request # Unset => w.request = wid.plan /\ ~ CP!Operational
    BY <1>6 DEF PlanningInv, Coherent, CP!RequestIsThePlan
  <2> QED
    BY <1>2, <1>4, <2>1, RequestsSet
<1>13. CP!ApprovedIsSettled'
  BY <1>2, <1>4, <1>6 DEF PlanningInv, Coherent, CP!ApprovedIsSettled, Sets
<1> QED
  BY <1>9, <1>10, <1>11, <1>12, <1>13 DEF Coherent

\* A rejected shell never waited for a translation, nor does it now.
LEMMA RejectShellStep ==
    ASSUME PlanningInv, CP!RejectShell PROVE Coherent'
<1>1. PICK wid \in DOMAIN workflows :
        CP!Undecided(wid) /\ workflows' = [workflows EXCEPT ![wid].shell = "rejected"]
  BY DEF CP!RejectShell
<1>2. UNCHANGED <<scope, planned, calls, overwritten, unattended>>
  BY DEF CP!RejectShell, CP!history
<1> QED
  BY <1>1, <1>2, DecisionStep DEF CP!Undecided

\* The approval route decides a shell and leaves its workflow to nobody.
LEMMA DecideShellStep ==
    ASSUME PlanningInv, CP!DecideShell PROVE Coherent'
<1>1. PICK wid \in DOMAIN workflows, decision \in {"approved", "rejected"} :
        /\ workflows[wid].shell = "pending"
        /\ workflows' = [workflows EXCEPT ![wid].shell = decision]
        /\ unattended' = unattended \cup {wid}
        /\ UNCHANGED <<scope, planned, calls, overwritten>>
  BY DEF CP!DecideShell
<1> QED
  BY <1>1, DecisionStep

\* A blocked workflow does not wait, one with its request stays as it is.
LEMMA BlockedTyped ==
    ASSUME NEW w \in Workflow
    PROVE  /\ CP!Blocked(w) \in Workflow /\ ~ Waits(CP!Blocked(w))
           /\ CP!Blocked(w).request = w.request /\ CP!Blocked(w).shell = w.shell
           /\ w.state # "awaiting_approval" => CP!Blocked(w) = w
  BY DEF CP!Blocked, Workflow, Waits

\* An approval begins a translation, or settles the workflow at once.
LEMMA ApproveShellStep ==
    ASSUME PlanningInv, NEW c \in Calls, CP!ApproveShell(c) PROVE Coherent'
<1> DEFINE approved(wid) == [workflows[wid] EXCEPT !.shell = "approved"]
           session(wid) == planned[wid.session]
<1>1. PICK wid \in DOMAIN workflows :
        /\ CP!Undecided(wid) /\ calls[c] = CP!Idle
        /\ \/ /\ CP!Begin(c, CP!Asked("approve", wid.session, wid))
              /\ workflows' = [workflows EXCEPT ![wid] = approved(wid)]
           \/ /\ calls' = calls
              /\ workflows' = [workflows EXCEPT ![wid] =
                                 IF session(wid).request # Unset THEN approved(wid)
                                 ELSE CP!Blocked(approved(wid))]
  BY DEF CP!ApproveShell
<1>2. UNCHANGED <<scope, planned, overwritten>> /\ unattended' = unattended
  BY DEF CP!ApproveShell, CP!history
<1>3. WorkflowTyped(planned, wid, workflows[wid]) /\ wid.session \in DOMAIN planned
  BY DEF PlanningInv, Coherent, Stored, WorkflowTyped
<1>4. PICK a : a = approved(wid)
  OBVIOUS
<1>5. /\ a \in Workflow /\ a.request = workflows[wid].request /\ a.shell = "approved"
      /\ a.state = workflows[wid].state /\ a.state = "awaiting_approval"
  BY <1>1, <1>3, <1>4 DEF WorkflowTyped, Workflow, CP!Undecided
<1>6. calls[c].op # "approve" /\ CP!Idle.op # "successor"
  BY <1>1 DEF CP!Idle
<1> HIDE DEF approved, session
<1>7. CASE /\ CP!Begin(c, CP!Asked("approve", wid.session, wid))
           /\ workflows' = [workflows EXCEPT ![wid] = approved(wid)]
  <2>1. Sets(workflows, workflows', wid, a)
    BY <1>4, <1>7, ExceptSets
  <2>2. PICK k : k = CP!Asked("approve", wid.session, wid)
    OBVIOUS
  <2>3. k.op # "successor" /\ k.wid = wid
    BY <2>2 DEF CP!Asked
  <2>4. wid # Unset
    BY <1>3, Distinct DEF WorkflowTyped, PlanningInv, Coherent, Stored
  <2>5. CallTyped(scope.effect, planned, workflows, k)
    BY <1>3, <2>2, <2>4, AskedTyped
  <2>6. Sets(calls, calls', c, k)
    BY <1>7, <2>2, CallSets DEF CP!Begin
  <2> QED
    BY <1>2, <1>5, <1>6, <2>1, <2>3, <2>5, <2>6, ShellStep
<1>8. CASE /\ calls' = calls
           /\ workflows' = [workflows EXCEPT ![wid] =
                              IF session(wid).request # Unset THEN approved(wid)
                              ELSE CP!Blocked(approved(wid))]
  <2>1. Sets(calls, calls', c, CP!Idle)
    BY <1>1, <1>8 DEF Sets, PlanningInv, Coherent, CallsTyped
  <2>2. CASE session(wid).request # Unset
    <3>1. Sets(workflows, workflows', wid, a)
      BY <1>4, <1>8, <2>2, ExceptSets
    <3>2. wid.session \in overwritten.plan \cup overwritten.successor
      BY <1>5, <2>2, RequestedIsDone DEF session
    <3> QED
      BY <1>2, <1>5, <1>6, <2>1, <3>1, <3>2, IdleCallTyped, ShellStep
  <2>3. CASE ~ session(wid).request # Unset
    <3>1. Sets(workflows, workflows', wid, CP!Blocked(a))
      BY <1>4, <1>8, <2>3, ExceptSets
    <3>2. /\ CP!Blocked(a) \in Workflow /\ ~ Waits(CP!Blocked(a))
          /\ CP!Blocked(a).request = workflows[wid].request
          /\ CP!Blocked(a).shell = "approved"
          /\ workflows[wid].state # "awaiting_implementation_approval"
      BY <1>5, BlockedTyped
    <3> QED
      BY <1>2, <1>6, <2>1, <3>1, <3>2, IdleCallTyped, ShellStep
  <2> QED
    BY <2>2, <2>3
<1> QED
  BY <1>1, <1>7, <1>8

\* An approving call ends: translated, done already, or blocked.
LEMMA ApproveEndsStep ==
    ASSUME PlanningInv, NEW c \in Calls, CP!ApproveEnds(c) PROVE Coherent'
<1> DEFINE sid == calls[c].sid
           wid == calls[c].wid
           named == /\ planned[sid].workflow # Unset
                    /\ workflows[planned[sid].workflow].request # Unset
                    /\ planned[sid].request # Unset
<1>1. PICK answer \in CP!Answers(c, "approve") :
        \/ CP!MayTranslate(planned[sid], calls[c].read.plan) /\ CP!Translated(sid)
        \/ /\ workflows' = [workflows EXCEPT ![wid] =
                              IF CP!Accepted(c, answer) /\ named THEN @ ELSE CP!Blocked(@)]
           /\ UNCHANGED planned
  BY DEF CP!ApproveEnds
<1>2. /\ CP!End(c) /\ scope' = scope /\ overwritten' = overwritten
      /\ unattended' = unattended
  BY DEF CP!ApproveEnds, CP!history
<1>3. calls[c].op = "approve"
  BY AnswersTyped
<1>4. wid \in DOMAIN workflows /\ wid.session = sid
  BY <1>3 DEF PlanningInv, Coherent, CallsTyped, CallTyped
<1>5. workflows[wid] \in Workflow
  BY <1>4 DEF PlanningInv, Coherent, Stored, WorkflowTyped
<1>6. CP!Idle.op # "successor" /\ Sets(calls, calls', c, CP!Idle)
  BY <1>2, CallSets DEF CP!Idle, CP!End
<1>7. CASE CP!MayTranslate(planned[sid], calls[c].read.plan) /\ CP!Translated(sid)
  BY <1>2, <1>3, <1>7, TranslatedStep
<1> HIDE DEF sid, wid
<1>8. ASSUME planned' = planned, NEW w, w = workflows[wid], named,
             workflows' = [workflows EXCEPT ![wid] = w]
      PROVE  Coherent'
  <2>1. Sets(workflows, workflows', wid, w)
    BY <1>4, <1>8, ExceptSets
  <2>2. Waits(w) => wid.session \in overwritten.plan \cup overwritten.successor
    BY <1>4, <1>8, RequestedIsDone DEF Waits
  <2> QED
    BY <1>2, <1>4, <1>5, <1>6, <1>8, <2>1, <2>2, IdleCallTyped, ShellStep DEF wid
<1>9. ASSUME planned' = planned, NEW w, w = CP!Blocked(workflows[wid]),
             workflows' = [workflows EXCEPT ![wid] = w]
      PROVE  Coherent'
  <2>1. Sets(workflows, workflows', wid, w)
    BY <1>4, <1>9, ExceptSets
  <2>2. /\ w \in Workflow /\ ~ Waits(w) /\ w.request = workflows[wid].request
        /\ w.shell = workflows[wid].shell
        /\ workflows[wid].state = "awaiting_implementation_approval" =>
              w.state = "awaiting_implementation_approval"
    BY <1>5, <1>9, BlockedTyped
  <2> QED
    BY <1>2, <1>4, <1>6, <1>9, <2>1, <2>2, IdleCallTyped, ShellStep DEF wid
<1> QED
  BY <1>1, <1>7, <1>8, <1>9

-----------------------------------------------------------------------------
(* The invariant.                                                          *)

\* The bounds hold initially, and nothing is stored.
LEMMA PlanningInit == CP!Init => PlanningInv
<1> SUFFICES ASSUME CP!Init PROVE PlanningInv
  OBVIOUS
<1>1. Bounds
  BY PlanningHolds DEF CP!SettingsAssumption, CP!Init, Bounds
<1>2. DOMAIN planned = {} /\ DOMAIN workflows = {}
  BY DEF CP!Init
<1>3. Stored(scope.effect, planned, workflows) /\ Named /\ Followed
  BY <1>2 DEF Stored, Named, Followed
<1>4. CP!RequestIsThePlan /\ CP!ApprovedIsSettled
  BY <1>2 DEF CP!RequestIsThePlan, CP!ApprovedIsSettled
<1>5. DOMAIN calls = Calls /\ \A c \in Calls : calls[c] = CP!Idle
  BY DEF CP!Init
<1>6. CallsTyped
  BY <1>5, IdleCallTyped DEF CallsTyped
<1>7. Locked
  BY <1>5 DEF Locked, CP!Idle
<1> QED
  BY <1>1, <1>3, <1>4, <1>6, <1>7 DEF PlanningInv, Coherent

\* What a step counts, it counts below the setting's bound.
Counts ==
    /\ scope' = scope /\ core' \in Prints /\ head' \in Heads
    /\ edits' = edits \/ (edits' = edits + 1 /\ edits < scope.edits)
    /\ begins' = begins \/ (begins' = begins + 1 /\ begins < scope.begins)
    /\ plans' = plans \/ (plans' = plans + 1 /\ plans < scope.plans)
    /\ faults' = faults \/ (faults' = faults + 1 /\ faults < scope.faults)

\* Every step does.
LEMMA CountsStep ==
    ASSUME PlanningInv, CP!Next PROVE Counts
<1>1. core \in Prints /\ head \in Heads
  BY DEF PlanningInv, Bounds
<1>2. CASE CP!Drift
  BY <1>1, <1>2 DEF Counts, CP!Drift
<1>3. CASE CP!RejectShell \/ CP!DecideShell
  BY <1>1, <1>3 DEF Counts, CP!RejectShell, CP!DecideShell, CP!world
<1>4. CASE CP!Restart
  BY <1>1, <1>4 DEF Counts, CP!Restart, CP!world
<1>5. ASSUME NEW c \in Calls, CP!CreateAsks(c) PROVE Counts
  BY <1>1, <1>5 DEF Counts, CP!CreateAsks, CP!Begin, CP!world
<1>6. ASSUME NEW c \in Calls, CP!CreateEnds(c) PROVE Counts
  BY <1>1, <1>6 DEF Counts, CP!CreateEnds, CP!End, CP!world
<1>7. ASSUME NEW c \in Calls, CP!SuccessorAsks(c) PROVE Counts
  BY <1>1, <1>7 DEF Counts, CP!SuccessorAsks, CP!Begin, CP!world
<1>8. ASSUME NEW c \in Calls, CP!SuccessorEnds(c) PROVE Counts
  BY <1>1, <1>8 DEF Counts, CP!SuccessorEnds, CP!End, CP!world
<1>9. ASSUME NEW c \in Calls, CP!PlanAsks(c) PROVE Counts
  BY <1>1, <1>9 DEF Counts, CP!PlanAsks, CP!Begin, CP!world
<1>10. ASSUME NEW c \in Calls, CP!PlanEnds(c) PROVE Counts
  BY <1>1, <1>10 DEF Counts, CP!PlanEnds, CP!End, CP!world
<1>11. ASSUME NEW c \in Calls, CP!ConvertAsks(c) PROVE Counts
  BY <1>1, <1>11 DEF Counts, CP!ConvertAsks, CP!Begin, CP!world
<1>12. ASSUME NEW c \in Calls, CP!ConvertEnds(c) PROVE Counts
  BY <1>1, <1>12 DEF Counts, CP!ConvertEnds, CP!End, CP!world
<1>13. ASSUME NEW c \in Calls, CP!TranslateAsks(c) PROVE Counts
  BY <1>1, <1>13 DEF Counts, CP!TranslateAsks, CP!Begin, CP!world
<1>14. ASSUME NEW c \in Calls, CP!TranslateEnds(c) PROVE Counts
  BY <1>1, <1>14 DEF Counts, CP!TranslateEnds, CP!End, CP!world
<1>15. ASSUME NEW c \in Calls, CP!ApproveShell(c) PROVE Counts
  BY <1>1, <1>15 DEF Counts, CP!ApproveShell, CP!Begin, CP!world
<1>16. ASSUME NEW c \in Calls, CP!ApproveEnds(c) PROVE Counts
  BY <1>1, <1>16 DEF Counts, CP!ApproveEnds, CP!End, CP!world
<1>17. ASSUME NEW c \in Calls, CP!WriteFails(c) PROVE Counts
  BY <1>1, <1>17 DEF Counts, CP!WriteFails, CP!End, CP!world
<1> QED
  BY <1>2, <1>3, <1>4, <1>5, <1>6, <1>7, <1>8, <1>9, <1>10, <1>11, <1>12, <1>13, <1>14,
     <1>15, <1>16, <1>17
  DEF CP!Next

\* So the bounds hold.
LEMMA BoundsStep ==
    ASSUME PlanningInv, CP!Next PROVE Bounds'
<1>1. /\ scope \in PlanningSettings
      /\ begins \in Nat /\ plans \in Nat /\ faults \in Nat /\ edits \in Nat
      /\ scope.begins \in Nat /\ scope.plans \in Nat
      /\ scope.faults \in Nat /\ scope.edits \in Nat
      /\ begins <= scope.begins /\ plans <= scope.plans
      /\ faults <= scope.faults /\ edits <= scope.edits
  BY PlanningHolds DEF CP!SettingsAssumption, PlanningInv, Bounds
<1>2. Counts
  BY CountsStep
<1>3. overwritten' \in [plan : SUBSET SessionIds, successor : SUBSET SessionIds]
  <2>1. overwritten \in [plan : SUBSET SessionIds, successor : SUBSET SessionIds]
    BY DEF PlanningInv, Bounds
  <2>2. ASSUME NEW c \in Calls, CP!SuccessorEnds(c) \/ CP!PlanEnds(c)
        PROVE  overwritten' \in [plan : SUBSET SessionIds, successor : SUBSET SessionIds]
    <3>1. calls[c].op \in {"successor", "plan"}
      BY <2>2, AnswersTyped DEF CP!SuccessorEnds, CP!PlanEnds
    <3>2. calls[c].sid \in SessionIds
      BY <3>1 DEF PlanningInv, Coherent, CallsTyped, CallTyped, Stored
    <3>3. \/ overwritten' = overwritten
          \/ overwritten' = [overwritten EXCEPT !.plan = @ \cup {calls[c].sid}]
          \/ overwritten' = [overwritten EXCEPT !.successor = @ \cup {calls[c].sid}]
      BY <2>2 DEF CP!SuccessorEnds, CP!PlanEnds, CP!Succeed
    <3> QED
      BY <2>1, <3>2, <3>3
  <2>3. CASE overwritten' = overwritten
    BY <2>1, <2>3
  <2> QED
    BY <2>2, <2>3
    DEF CP!Next, CP!Drift, CP!RejectShell, CP!DecideShell, CP!Restart, CP!CreateAsks,
        CP!CreateEnds, CP!SuccessorAsks, CP!PlanAsks, CP!ConvertAsks, CP!ConvertEnds, CP!TranslateAsks,
        CP!TranslateEnds, CP!ApproveShell, CP!ApproveEnds, CP!WriteFails, CP!history
<1> QED
  BY <1>1, <1>2, <1>3 DEF Bounds, Counts

\* Every step keeps the invariant.
LEMMA PlanningStep == PlanningInv /\ [CP!Next]_CP!vars => PlanningInv'
<1> SUFFICES ASSUME PlanningInv, [CP!Next]_CP!vars PROVE PlanningInv'
  OBVIOUS
<1>1. CASE CP!Next
  <2>1. Bounds'
    BY <1>1, BoundsStep
  <2>2. \/ CP!Drift \/ CP!RejectShell \/ CP!DecideShell \/ CP!Restart
        \/ \E c \in Calls :
              \/ CP!CreateAsks(c) \/ CP!CreateEnds(c) \/ CP!SuccessorAsks(c) \/ CP!SuccessorEnds(c)
              \/ CP!PlanAsks(c) \/ CP!PlanEnds(c) \/ CP!ConvertAsks(c) \/ CP!ConvertEnds(c)
              \/ CP!TranslateAsks(c) \/ CP!TranslateEnds(c)
              \/ CP!ApproveShell(c) \/ CP!ApproveEnds(c) \/ CP!WriteFails(c)
    BY <1>1 DEF CP!Next
  <2>3. ASSUME NEW c \in Calls,
               \/ CP!CreateAsks(c) \/ CP!CreateEnds(c) \/ CP!SuccessorAsks(c) \/ CP!SuccessorEnds(c)
               \/ CP!PlanAsks(c) \/ CP!PlanEnds(c)
        PROVE  Coherent'
    BY <2>3, CreateAsksStep, CreateEndsStep, SuccessorAsksStep, SuccessorEndsStep,
       PlanAsksStep, PlanEndsStep
  <2>4. ASSUME NEW c \in Calls,
               \/ CP!ConvertAsks(c) \/ CP!ConvertEnds(c) \/ CP!TranslateAsks(c) \/ CP!TranslateEnds(c)
               \/ CP!ApproveShell(c) \/ CP!ApproveEnds(c) \/ CP!WriteFails(c)
        PROVE  Coherent'
    BY <2>4, ConvertAsksStep, ConvertEndsStep, TranslateAsksStep, TranslateEndsStep,
       ApproveShellStep, ApproveEndsStep, WriteFailsStep
  <2>5. Coherent'
    BY <2>2, <2>3, <2>4, DriftStep, RejectShellStep, DecideShellStep, RestartStep
  <2> QED
    BY <2>1, <2>5 DEF PlanningInv
<1>2. CASE UNCHANGED CP!vars
  BY <1>2
  DEF CP!vars, CP!durable, CP!world, CP!history, PlanningInv, Bounds, Coherent,
      CallsTyped, Locked, Named, Followed, CP!RequestIsThePlan, CP!ApprovedIsSettled,
      CP!Operational
<1> QED
  BY <1>1, <1>2

\* The invariant holds what a client relies on.
LEMMA InvSound ==
    ASSUME PlanningInv PROVE CP!WorkflowIsNamed /\ CP!ConversionSound /\ CP!LineageIsChain
<1>1. ASSUME NEW sid \in DOMAIN planned
      PROVE  /\ SessionTyped(scope.effect, sid, planned[sid])
             /\ SessionLinked(planned, workflows, sid, planned[sid])
  BY DEF PlanningInv, Coherent, Stored
<1>2. ASSUME NEW wid \in DOMAIN workflows
      PROVE  WorkflowTyped(planned, wid, workflows[wid])
  BY DEF PlanningInv, Coherent, Stored
<1>3. \A c \in Calls : calls[c].sid \in DOMAIN planned \cup {Unset}
  BY DEF PlanningInv, Coherent, CallsTyped, CallTyped
<1>4. CP!TypeOK
  BY <1>1, <1>2, <1>3
  DEF CP!TypeOK, PlanningInv, Bounds, SessionTyped, SessionLinked, PlannedSession,
      WorkflowTyped, Workflow
<1>5. CP!WorkflowIsNamed
  BY <1>4 DEF CP!WorkflowIsNamed, PlanningInv, Coherent, Named
<1>6. CP!LineageIsChain
  BY <1>1 DEF CP!LineageIsChain, SessionLinked, PlanningInv, Coherent, Followed
<1> QED
  BY <1>5, <1>6 DEF CP!ConversionSound, PlanningInv, Coherent

\* convert_plan_to_workflow_shell creates or returns: a session names the
\* workflow made for it, whatever calls overlap, fail or are cut off, unless an
\* older version of the session was written back.
THEOREM NameSafety == PlanningSpec => []WorkflowIsNamed
<1>1. PlanningInv => CP!WorkflowIsNamed
  BY InvSound
<1> QED
  BY <1>1, PlanningInit, PlanningStep, PTL DEF PlanningSpec, WorkflowIsNamed, CP!Spec

\* An exact request is for the plan of its workflow and for the HEAD reviewed
\* with it, and a shell approved by submit_workflow_shell_approval does not wait
\* once that call has ended, unless a fault ended it; of one that the approval
\* route decided nothing is said.
THEOREM ConversionSafety == PlanningSpec => []ConversionSound
<1>1. PlanningInv => CP!ConversionSound
  BY InvSound
<1> QED
  BY <1>1, PlanningInit, PlanningStep, PTL DEF PlanningSpec, ConversionSound, CP!Spec

\* A successor names its predecessor and is the one the predecessor names,
\* unless planning wrote an older version of the predecessor back.
THEOREM LineageSafety == PlanningSpec => []LineageIsChain
<1>1. PlanningInv => CP!LineageIsChain
  BY InvSound
<1> QED
  BY <1>1, PlanningInit, PlanningStep, PTL DEF PlanningSpec, LineageIsChain, CP!Spec
=============================================================================
