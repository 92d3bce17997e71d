------------------------ MODULE OperationalExecution ------------------------
(***************************************************************************)
(* The Agent's operational orchestrator on top of Core's lifecycle.  Each  *)
(* resume of an operational workflow is one coroutine of the Agent's event *)
(* loop: it reads the session, either POSTs the approved request to Core   *)
(* or GETs its status, and after that one await writes the whole session   *)
(* it read, with a new state and reference, over whatever is stored by     *)
(* then.  POSTs and answers may be lost, late or time out; the Agent and   *)
(* Core may restart on their own.                                          *)
(***************************************************************************)
EXTENDS OperationalLifecycle

CONSTANTS
    Calls,    \* resume coroutines of the Agent
    NoReq,    \* the request of an idle coroutine
    Expiry    \* whether expires_at may pass

ASSUME CallsAssumption == NoReq \notin Requests /\ Expiry \in BOOLEAN

VARIABLES
    session,   \* Agent, durable: request ID -> its workflow's state
    ref,       \* Agent, durable: request ID -> operational_execution_reference
    policy,    \* Agent: the intent is in OPERATIONAL_EXECUTION_INTENTS
    calls,     \* Agent: the resume coroutines
    posts,     \* the POST each coroutine has under way, also after it gave up
    expired    \* request ID -> its expires_at has passed

agent == <<session, ref, policy>>
vars == <<lifecycle, agent, calls, posts, expired>>

----------------------------------------------------------------------------
(* The Agent's view of a lifecycle.                                        *)

\* A reference: its stage, the ledger state and the dispatch status last seen.
Reference(stage, ledger, dispatch) ==
    [stage |-> stage, ledger |-> ledger, dispatch |-> dispatch]

NoReference == Reference("none", "none", "none")

Resubmits == {"none", "execution_blocked", "submission_outcome_unknown"}

\* _from_dispatch: the stage and the workflow state for an answered POST.
DispatchStage(status) ==
    CASE status = "succeeded" -> "verification_pending"
      [] status = "outcome_unknown" -> "outcome_unknown"
      [] status = "failed" -> "failed"

DispatchSession(status) ==
    IF status = "succeeded" THEN "verifying" ELSE "blocked"

\* Mutant: a verification in progress is shown as its success.
EagerStage(ledger) ==
    CASE ledger \in Undecided -> "dispatch_pending"
      [] ledger = "succeeded" -> "verification_pending"
      [] ledger = "verifying" -> "verified"
      [] OTHER -> ledger

\* _from_status: the same for a ledger state that Core reports.
StatusStage(ledger) ==
    CASE ledger \in Undecided -> "dispatch_pending"
      [] ledger \in {"succeeded", "verifying"} -> "verification_pending"
      [] OTHER -> ledger

StatusSession(ledger) ==
    CASE StatusStage(ledger) = "dispatch_pending" -> "executing"
      [] StatusStage(ledger) = "verification_pending" -> "verifying"
      [] StatusStage(ledger) = "verified" -> "completed"
      [] OTHER -> "blocked"

IdleCall == [pc |-> "idle", req |-> NoReq, old |-> "none",
             reply |-> "none", dispatch |-> "none"]

NoPost == [at |-> "none", req |-> NoReq]

\* _store: the session that was read comes back with these two fields new.
Store(r, reference, state_) ==
    /\ ref' = [ref EXCEPT ![r] = reference]
    /\ session' = [session EXCEPT ![r] = state_]

EndCall(c) == calls' = [calls EXCEPT ![c] = IdleCall]

----------------------------------------------------------------------------
Init ==
    /\ LifecycleInit
    /\ session = [r \in Requests |-> "awaiting_implementation_approval"]
    /\ ref = [r \in Requests |-> NoReference]
    /\ policy \in BOOLEAN
    /\ calls = [c \in Calls |-> IdleCall]
    /\ posts = [c \in Calls |-> NoPost]
    /\ expired = [r \in Requests |-> FALSE]

(* A resume, up to its await.  An expired approval ends it at once: nothing *)
(* is stored and Core is not asked.                                         *)

\* A coroutine's name is used again once its POST is over.
Starts(c, r) == calls[c].pc = "idle" /\ posts[c] = NoPost /\ ~expired[r]

Await(c, r, pc) ==
    calls' = [calls EXCEPT ![c] = [IdleCall EXCEPT !.pc = pc, !.req = r,
                                                   !.old = ref[r].dispatch]]

ResumeBlocked(c, r) ==
    /\ Starts(c, r)
    /\ ref[r].stage \in Resubmits
    /\ ~policy
    /\ Store(r, Reference("execution_blocked", "none", "none"), session[r])
    /\ UNCHANGED <<lifecycle, policy, calls, posts, expired>>

ResumeDispatch(c, r) ==
    /\ Starts(c, r)
    /\ ref[r].stage \in Resubmits
    /\ policy
    /\ Await(c, r, "dispatch")
    /\ posts' = [posts EXCEPT ![c] = [at |-> "network", req |-> r]]
    /\ UNCHANGED <<lifecycle, agent, expired>>

\* Mutant: a reference that says terminal is not asked about again.
ResumeReconcileOpen(c, r) ==
    /\ Starts(c, r)
    /\ ref[r].stage \in {"dispatch_pending", "verification_pending"}
    /\ Await(c, r, "status")
    /\ UNCHANGED <<lifecycle, agent, posts, expired>>

ResumeReconcile(c, r) ==
    /\ Starts(c, r)
    /\ ref[r].stage \notin Resubmits
    /\ Await(c, r, "status")
    /\ UNCHANGED <<lifecycle, agent, posts, expired>>

(* The end of a resume.                                                    *)

DispatchAnswered(c) ==
    LET r == calls[c].req IN
    /\ calls[c].pc = "dispatch"
    /\ calls[c].reply \in ResultStatus
    /\ Store(r, Reference(DispatchStage(calls[c].reply), calls[c].reply,
                          calls[c].reply),
             DispatchSession(calls[c].reply))
    /\ EndCall(c)
    /\ UNCHANGED <<lifecycle, policy, posts, expired>>

\* A timeout, a lost connection or an HTTP error: the outcome is not known.
DispatchFails(c) ==
    /\ calls[c].pc = "dispatch"
    /\ Store(calls[c].req, Reference("submission_outcome_unknown", "none",
                                     "none"),
             "executing")
    /\ EndCall(c)
    /\ UNCHANGED <<lifecycle, policy, posts, expired>>

StatusAnswered(c) ==
    /\ calls[c].pc = "status"
    /\ calls[c].reply \in LifecycleState
    /\ Store(calls[c].req,
             Reference(StatusStage(calls[c].reply), calls[c].reply,
                       IF calls[c].dispatch # "none" THEN calls[c].dispatch
                       ELSE calls[c].old),
             StatusSession(calls[c].reply))
    /\ EndCall(c)
    /\ UNCHANGED <<lifecycle, policy, posts, expired>>

\* operational_status_unavailable, nothing is stored: also Core's 404.
StatusFails(c) ==
    /\ calls[c].pc = "status"
    /\ EndCall(c)
    /\ UNCHANGED <<lifecycle, agent, posts, expired>>

\* The Agent's snapshot recovery blocks interrupted sessions and keeps their
\* references; a new version may come with another set of enabled intents.
AgentRestarts ==
    /\ session' = [r \in Requests |->
                      IF session[r] \in {"executing", "verifying"} THEN "blocked"
                      ELSE session[r]]
    /\ policy' \in BOOLEAN
    /\ calls' = [c \in Calls |-> IdleCall]
    /\ UNCHANGED <<lifecycle, ref, posts, expired>>

----------------------------------------------------------------------------
(* Core.  A POST that it accepted runs on when the Agent stops waiting.    *)

\* The coroutine is gone when the POST is answered: nobody receives it.
Reply(c, pc, a, dispatch) ==
    calls' = IF calls[c].pc = pc
             THEN [calls EXCEPT ![c].reply = a, ![c].dispatch = dispatch]
             ELSE calls

CoreAccepts(c) ==
    LET r == posts[c].req IN
    /\ posts[c].at = "network"
    /\ IF state[r] = "absent" THEN Claim(r) ELSE UNCHANGED lifecycle
    /\ posts' = [posts EXCEPT ![c].at = "core"]
    /\ UNCHANGED <<agent, calls, expired>>

PostLost(c) ==
    /\ posts[c].at = "network"
    /\ posts' = [posts EXCEPT ![c] = NoPost]
    /\ UNCHANGED <<lifecycle, agent, calls, expired>>

\* Only a POST that runs takes an undecided row further.
CoreDispatches(c) ==
    LET r == posts[c].req IN
    /\ posts[c].at = "core"
    /\ Advance(r) \/ \E status \in ResultStatus : Decide(r, status)
    /\ UNCHANGED <<agent, calls, posts, expired>>

AnswerPost(c, a) ==
    /\ posts[c].at = "core"
    /\ Answer(posts[c].req, a)
    /\ Reply(c, "dispatch", a, "none")
    /\ posts' = [posts EXCEPT ![c] = NoPost]
    /\ UNCHANGED <<agent, expired>>

CoreAnswers(c) == \E status \in ResultStatus : AnswerPost(c, status)

CoreRejects(c) == AnswerPost(c, "error")

CoreReports(c) ==
    LET r == calls[c].req IN
    /\ calls[c].pc = "status"
    /\ calls[c].reply = "none"
    /\ state[r] # "absent"
    /\ Reply(c, "status", state[r], result[r])
    /\ UNCHANGED <<lifecycle, agent, posts, expired>>

CoreVerifies(r) ==
    /\ BeginVerification(r) \/ Conclude(r)
    /\ UNCHANGED <<agent, calls, posts, expired>>

CoreRestarts ==
    /\ Reconcile
    /\ posts' = [c \in Calls |-> NoPost]
    /\ UNCHANGED <<agent, calls, expired>>

Expire(r) ==
    /\ Expiry
    /\ ~expired[r]
    /\ expired' = [expired EXCEPT ![r] = TRUE]
    /\ UNCHANGED <<lifecycle, agent, calls, posts>>

----------------------------------------------------------------------------
Resume(c, r) == ResumeBlocked(c, r) \/ ResumeDispatch(c, r)
                  \/ ResumeReconcile(c, r)

Next ==
    \/ AgentRestarts \/ CoreRestarts
    \/ \E c \in Calls :
          \/ DispatchAnswered(c) \/ DispatchFails(c) \/ StatusAnswered(c)
          \/ StatusFails(c) \/ PostLost(c) \/ CoreReports(c)
          \/ CoreAccepts(c) \/ CoreDispatches(c)
          \/ CoreAnswers(c) \/ CoreRejects(c)
          \/ \E r \in Requests : Resume(c, r)
    \/ \E r \in Requests : CoreVerifies(r) \/ Expire(r)

Spec == Init /\ [][Next]_vars

\* The operator keeps resuming the workflow, a call ends by its timeout, one that
\* is retried for ever is answered in time at last, and Core works on what it has
\* accepted and ends it.
Fairness ==
    /\ \A r \in Requests : WF_vars(\E c \in Calls : Resume(c, r))
    /\ \A c \in Calls :
          /\ WF_vars(DispatchFails(c))
          /\ WF_vars(StatusFails(c))
          /\ WF_vars(CoreDispatches(c))
          /\ WF_vars(CoreAnswers(c) \/ CoreRejects(c))
          /\ WF_vars(CoreAccepts(c) \/ PostLost(c))
          /\ SF_vars(calls[c].pc = "dispatch" /\ CoreAccepts(c))
          /\ SF_vars(calls[c].pc = "dispatch" /\ CoreAnswers(c))
          /\ SF_vars(CoreReports(c))
          /\ SF_vars(DispatchAnswered(c))
          /\ SF_vars(StatusAnswered(c))

FairSpec == Spec /\ Fairness

----------------------------------------------------------------------------
(* Properties.                                                             *)

Stage == Resubmits \cup Concluded
           \cup {"dispatch_pending", "verification_pending", "failed",
                 "outcome_unknown"}

ReferenceType == [stage : Stage, ledger : LifecycleState \cup {"none"},
                  dispatch : ResultStatus \cup {"none"}]

\* The variables keep their types; an idle call has no request.
TypeOK ==
    /\ state \in [Requests -> LifecycleState]
    /\ result \in [Requests -> ResultStatus \cup {"none"}]
    /\ answers \in [Requests -> SUBSET (ResultStatus \cup {"error"})]
    /\ session \in [Requests -> {"awaiting_implementation_approval", "executing",
                                 "verifying", "completed", "blocked"}]
    /\ ref \in [Requests -> ReferenceType]
    /\ policy \in BOOLEAN
    /\ expired \in [Requests -> BOOLEAN]
    /\ \A c \in Calls :
          /\ calls[c] \in [pc : {"idle", "dispatch", "status"},
                           req : Requests \cup {NoReq}, old : ResultStatus \cup {"none"},
                           reply : LifecycleState \cup {"none", "error"},
                           dispatch : ResultStatus \cup {"none"}]
          /\ calls[c].pc = "idle" <=> calls[c].req = NoReq
          /\ posts[c] \in [at : {"none", "network", "core"},
                           req : Requests \cup {NoReq}]

\* However late or out of order the answers are stored, the Agent shows a
\* workflow as completed only when Core's row is verified, a verification
\* verdict only when it is Core's, and verification as pending only when Core
\* has stored a dispatch result.
NeverAheadOfCore ==
    \A r \in Requests :
        /\ session[r] = "completed" => ref[r].stage = "verified"
        /\ ref[r].stage \in {"verified", "verification_failed"}
              => state[r] = ref[r].stage
        /\ ref[r].stage = "verification_pending" => result[r] # "none"

\* The dispatch status in a reference is never the Agent's guess: it is the result
\* Core stored, or Core has told some POST that the request is in progress or its
\* target unavailable.  Success is only ever the stored result.
DispatchStatusTold ==
    \A r \in Requests :
        ref[r].dispatch # "none" =>
            \/ ref[r].dispatch = result[r]
            \/ ref[r].dispatch \in answers[r] \ {"succeeded"}

\* The Agent's stored view of an operational action never outruns Core's row,
\* and never tells an outcome that Core did not.
FollowsCore ==
    /\ TypeOK
    /\ NeverAheadOfCore
    /\ DispatchStatusTold

\* As long as the approval has not expired and the intent stays enabled, the
\* Agent learns how Core's lifecycle ended, whatever was lost on the way.
OutcomeLearned ==
    \A r \in Requests, end \in Concluded \cup {"failed"} :
        state[r] = end ~> ref[r].ledger = end \/ ~policy
=============================================================================
