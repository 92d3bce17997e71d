--------------------- MODULE OperationalExecutionProofs ---------------------
(***************************************************************************)
(* Proofs about OperationalExecution, for every set of requests and of     *)
(* resume coroutines: however late or out of order the answers come, the   *)
(* Agent's reference never says more than Core has decided or told.        *)
(***************************************************************************)
EXTENDS OperationalExecution, TLAPS

----------------------------------------------------------------------------
(* The invariant.                                                          *)

\* The types, with the domains of what is kept per coroutine.
RowsTyped ==
    /\ state \in [Requests -> LifecycleState]
    /\ result \in [Requests -> ResultStatus \cup {"none"}]
    /\ answers \in [Requests -> SUBSET (ResultStatus \cup {"error"})]

AgentTyped ==
    /\ session \in [Requests -> {"awaiting_implementation_approval", "executing",
                                 "verifying", "completed", "blocked"}]
    /\ ref \in [Requests -> ReferenceType]
    /\ policy \in BOOLEAN
    /\ expired \in [Requests -> BOOLEAN]

CallRecord == [pc : {"idle", "dispatch", "status"}, req : Requests \cup {NoReq},
               old : ResultStatus \cup {"none"}, reply : LifecycleState \cup {"none", "error"},
               dispatch : ResultStatus \cup {"none"}]

CallType == {call \in CallRecord : call.pc = "idle" <=> call.req = NoReq}

PostType == [at : {"none", "network", "core"}, req : Requests \cup {NoReq}]

TypeInv ==
    /\ RowsTyped
    /\ AgentTyped
    /\ calls \in [Calls -> CallType]
    /\ posts \in [Calls -> PostType]

\* A row has a dispatch result from its decision on.
RowsDecided ==
    \A r \in Requests : result[r] = "none" <=> state[r] \in Undecided \cup {"absent"}

\* Core has told this dispatch status of the request, or would tell it.
Told(r, status) == status = result[r] \/ status \in answers[r] \ {"succeeded"}

\* A ledger state that Core has reported: a verdict stays, and a row is only
\* verified once it has a result.
Reported(r, ledger) ==
    /\ ledger \in {"verified", "verification_failed"} => state[r] = ledger
    /\ ledger \in {"succeeded", "verifying"} => result[r] # "none"

\* A POST that is under way is about a request, and about that of its coroutine as
\* long as this one waits for it.
PostBelongs(c) ==
    posts[c].at # "none" =>
        /\ posts[c].req \in Requests
        /\ calls[c].pc = "dispatch" => posts[c].req = calls[c].req

PostsBelong == \A c \in Calls : PostBelongs(c)

\* What a coroutine carries over its await: the dispatch status that it read before,
\* and an answer of the kind that it waits for.
CallTrue(c) ==
    LET r == calls[c].req IN
    /\ calls[c].pc = "dispatch" =>
          /\ calls[c].reply \in ResultStatus \cup {"none", "error"}
          /\ calls[c].reply \in ResultStatus => Told(r, calls[c].reply)
    /\ calls[c].pc = "status" =>
          /\ calls[c].reply \in (LifecycleState \ {"absent"}) \cup {"none"}
          /\ Reported(r, calls[c].reply)
          /\ calls[c].old # "none" => Told(r, calls[c].old)
          /\ calls[c].dispatch # "none" => calls[c].dispatch = result[r]

CallsTrue == \A c \in Calls : CallTrue(c)

\* The properties, for one request.
Follow(r) ==
    /\ session[r] = "completed" => ref[r].stage = "verified"
    /\ ref[r].stage \in {"verified", "verification_failed"} => state[r] = ref[r].stage
    /\ ref[r].stage = "verification_pending" => result[r] # "none"
    /\ ref[r].dispatch # "none" => Told(r, ref[r].dispatch)

Follows == \A r \in Requests : Follow(r)

AgentInv == TypeInv /\ RowsDecided /\ PostsBelong /\ CallsTrue /\ Follows

----------------------------------------------------------------------------
(* Core.                                                                   *)

\* What Core has decided or told stays so.
Keeps ==
    \A r \in Requests :
        /\ result[r] # "none" => result'[r] = result[r]
        /\ state[r] \in {"verified", "verification_failed"} => state'[r] = state[r]
        /\ answers[r] \subseteq answers'[r]

\* One row moves: the step is about that row only.
LEMMA RowStep ==
    ASSUME RowsTyped, RowsDecided, NEW r \in Requests,
           \/ Claim(r) \/ Advance(r) \/ BeginVerification(r) \/ Conclude(r)
           \/ \E status \in ResultStatus : Decide(r, status)
    PROVE  RowsTyped' /\ RowsDecided' /\ Keeps
<1> USE DEF LifecycleState, Undecided, Concluded, ResultStatus
<1>1. CASE Claim(r)
  BY <1>1 DEF Claim, Move, RowsTyped, RowsDecided, Keeps
<1>2. CASE Advance(r)
  BY <1>2 DEF Advance, Move, RowsTyped, RowsDecided, Keeps
<1>3. CASE BeginVerification(r)
  BY <1>3 DEF BeginVerification, Move, RowsTyped, RowsDecided, Keeps
<1>4. CASE Conclude(r)
  BY <1>4 DEF Conclude, Move, RowsTyped, RowsDecided, Keeps
<1>5. ASSUME NEW status \in ResultStatus, Decide(r, status)
      PROVE  RowsTyped' /\ RowsDecided' /\ Keeps
  BY <1>5 DEF Decide, Move, RowsTyped, RowsDecided, Keeps
<1> QED
  BY <1>1, <1>2, <1>3, <1>4, <1>5

\* Startup decides the rows whose dispatch was interrupted.
LEMMA ReconcileStep ==
    ASSUME RowsTyped, RowsDecided, Reconcile
    PROVE  RowsTyped' /\ RowsDecided' /\ Keeps
  BY DEF Reconcile, RowsTyped, RowsDecided, Keeps, LifecycleState, Undecided, Concluded,
     ResultStatus

\* An answer moves no row, and success is only answered where it is the result.
LEMMA AnswerStep ==
    ASSUME RowsTyped, RowsDecided, NEW r \in Requests,
           NEW a \in ResultStatus \cup {"error"}, Answer(r, a)
    PROVE  RowsTyped' /\ RowsDecided' /\ Keeps /\ (a # "error" => Told(r, a)')
  BY DEF Answer, Answers, RowsTyped, RowsDecided, Keeps, Told, ResultStatus

\* Core leaves its rows alone.
LEMMA RowsUnchanged ==
    ASSUME RowsTyped, RowsDecided, UNCHANGED lifecycle
    PROVE  RowsTyped' /\ RowsDecided' /\ Keeps
  BY DEF lifecycle, RowsTyped, RowsDecided, Keeps

\* The steps of the Agent, its POSTs and the clock leave Core's rows alone.
AgentStep ==
    \/ AgentRestarts
    \/ \E c \in Calls :
          \/ DispatchAnswered(c) \/ DispatchFails(c) \/ StatusAnswered(c)
          \/ StatusFails(c) \/ PostLost(c) \/ CoreReports(c)
          \/ \E r \in Requests : Resume(c, r)
    \/ \E r \in Requests : Expire(r)

\* Every step keeps what Core has decided or told.
LEMMA NextRows ==
    ASSUME TypeInv, RowsDecided, PostsBelong, [Next]_vars
    PROVE  RowsTyped' /\ RowsDecided' /\ Keeps
<1>1. RowsTyped
  BY DEF TypeInv
<1>2. CASE UNCHANGED lifecycle
  BY <1>1, <1>2, RowsUnchanged
<1>3. CASE AgentStep \/ UNCHANGED vars
  <2>1. UNCHANGED lifecycle
    BY <1>3 DEF AgentStep, AgentRestarts, DispatchAnswered, DispatchFails, StatusAnswered,
       StatusFails, PostLost, CoreReports, Resume, ResumeBlocked, ResumeDispatch,
       ResumeReconcile, Expire, vars
  <2> QED
    BY <1>2, <2>1
<1>4. CASE CoreRestarts
  BY <1>1, <1>4, ReconcileStep DEF CoreRestarts
<1>5. ASSUME NEW c \in Calls, CoreAccepts(c) PROVE RowsTyped' /\ RowsDecided' /\ Keeps
  <2>1. posts[c].req \in Requests
    BY <1>5 DEF CoreAccepts, PostsBelong, PostBelongs
  <2>2. Claim(posts[c].req) \/ UNCHANGED lifecycle
    BY <1>5 DEF CoreAccepts
  <2> QED
    BY <1>1, <1>2, <2>1, <2>2, RowStep
<1>6. ASSUME NEW c \in Calls, CoreDispatches(c) PROVE RowsTyped' /\ RowsDecided' /\ Keeps
  <2>1. posts[c].req \in Requests
    BY <1>6 DEF CoreDispatches, PostsBelong, PostBelongs
  <2> QED
    BY <1>1, <1>6, <2>1, RowStep DEF CoreDispatches
<1>7. ASSUME NEW c \in Calls, CoreAnswers(c) \/ CoreRejects(c)
      PROVE  RowsTyped' /\ RowsDecided' /\ Keeps
  <2>1. PICK a \in ResultStatus \cup {"error"} : AnswerPost(c, a)
    BY <1>7 DEF CoreAnswers, CoreRejects
  <2>2. posts[c].req \in Requests
    BY <2>1 DEF AnswerPost, PostsBelong, PostBelongs
  <2> QED
    BY <1>1, <2>1, <2>2, AnswerStep DEF AnswerPost
<1>8. ASSUME NEW r \in Requests, CoreVerifies(r) PROVE RowsTyped' /\ RowsDecided' /\ Keeps
  BY <1>1, <1>8, RowStep DEF CoreVerifies
<1> QED
  BY <1>3, <1>4, <1>5, <1>6, <1>7, <1>8 DEF Next, AgentStep

----------------------------------------------------------------------------
(* The Agent: types.                                                       *)

\* The type invariant says what the runs check of the types.
LEMMA TypesMean == TypeInv => TypeOK
  BY DEF TypeInv, TypeOK, RowsTyped, AgentTyped, CallType, CallRecord, PostType

\* Idle coroutines, absent POSTs and references are typed.
LEMMA Values ==
    /\ IdleCall \in CallType
    /\ NoPost \in PostType
    /\ NoReference \in ReferenceType
    /\ NoPost.at = "none" /\ IdleCall.pc = "idle"
    /\ NoReference.stage = "none" /\ NoReference.dispatch = "none"
  BY CallsAssumption DEF IdleCall, CallType, CallRecord, NoPost, PostType, NoReference,
     Reference, ReferenceType, Stage, Resubmits

\* What a reference says.
LEMMA ReferenceFields ==
    ASSUME NEW stage \in Stage, NEW ledger \in LifecycleState \cup {"none"},
           NEW dispatch \in ResultStatus \cup {"none"}
    PROVE  /\ Reference(stage, ledger, dispatch) \in ReferenceType
           /\ Reference(stage, ledger, dispatch).stage = stage
           /\ Reference(stage, ledger, dispatch).dispatch = dispatch
  BY DEF Reference, ReferenceType

\* What an answered POST says of the workflow.
LEMMA DispatchView ==
    ASSUME NEW status \in ResultStatus
    PROVE  /\ DispatchStage(status) \in {"verification_pending", "outcome_unknown", "failed"}
           /\ DispatchStage(status) \in Stage
           /\ DispatchStage(status) = "verification_pending" => status = "succeeded"
           /\ DispatchSession(status) \in {"verifying", "blocked"}
  BY DEF DispatchStage, DispatchSession, ResultStatus, Stage

\* What a reported ledger state says of the workflow.
LEMMA StatusView ==
    ASSUME NEW ledger \in LifecycleState \ {"absent"}
    PROVE  /\ StatusStage(ledger) \in Stage
           /\ StatusStage(ledger) \in {"verified", "verification_failed"}
                 => ledger = StatusStage(ledger)
           /\ StatusStage(ledger) = "verification_pending"
                 => ledger \in {"succeeded", "verifying"}
           /\ StatusSession(ledger) \in {"executing", "verifying", "completed", "blocked"}
           /\ StatusSession(ledger) = "completed" => StatusStage(ledger) = "verified"
  BY DEF StatusStage, StatusSession, LifecycleState, Undecided, Concluded, Stage

\* One coroutine or POST changes.
LEMMA SetCall ==
    ASSUME calls \in [Calls -> CallType], NEW c \in Calls, NEW call \in CallType,
           calls' = [calls EXCEPT ![c] = call]
    PROVE  /\ calls' \in [Calls -> CallType]
           /\ \A d \in Calls : calls'[d] = IF d = c THEN call ELSE calls[d]
  OBVIOUS

\* Writing one post leaves the others as they were.
LEMMA SetPost ==
    ASSUME posts \in [Calls -> PostType], NEW c \in Calls, NEW post \in PostType,
           posts' = [posts EXCEPT ![c] = post]
    PROVE  /\ posts' \in [Calls -> PostType]
           /\ \A d \in Calls : posts'[d] = IF d = c THEN post ELSE posts[d]
  OBVIOUS

\* One workflow is stored.
LEMMA StoreOne ==
    ASSUME AgentTyped, NEW r \in Requests, NEW reference \in ReferenceType,
           NEW state_ \in {"awaiting_implementation_approval", "executing",
                           "verifying", "completed", "blocked"},
           Store(r, reference, state_), UNCHANGED <<policy, expired>>
    PROVE  /\ AgentTyped'
           /\ \A q \in Requests :
                 /\ ref'[q] = IF q = r THEN reference ELSE ref[q]
                 /\ session'[q] = IF q = r THEN state_ ELSE session[q]
  BY DEF Store, AgentTyped

\* A coroutine with a request to work on.
LEMMA Busy ==
    ASSUME TypeInv, NEW c \in Calls, calls[c].pc # "idle"
    PROVE  calls[c].req \in Requests
  BY DEF TypeInv, CallType, CallRecord

----------------------------------------------------------------------------
(* What stays true while Core goes on.                                     *)

\* A coroutine that waits.
LEMMA CallStable ==
    ASSUME TypeInv, CallsTrue, Keeps, NEW c \in Calls, calls'[c] = calls[c]
    PROVE  CallTrue(c)'
<1>1. CASE calls[c].pc = "idle"
  BY <1>1 DEF CallTrue
<1>2. CASE calls[c].pc # "idle"
  <2>1. calls[c].req \in Requests
    BY <1>2, Busy
  <2>2. CallTrue(c)
    BY DEF CallsTrue
  <2>3. "none" \notin ResultStatus
    BY DEF ResultStatus
  <2> QED
    BY <2>1, <2>2, <2>3 DEF CallTrue, Told, Reported, Keeps
<1> QED
  BY <1>1, <1>2

\* A POST under way.
LEMMA PostStable ==
    ASSUME PostsBelong, NEW c \in Calls,
           posts'[c].at = "none" \/ (posts'[c].req = posts[c].req /\ posts[c].at # "none"),
           \/ calls'[c].pc # "dispatch"
           \/ calls'[c].pc = calls[c].pc /\ calls'[c].req = calls[c].req
    PROVE  PostBelongs(c)'
  BY DEF PostsBelong, PostBelongs

\* A workflow that is not stored, or only loses that it is shown as under way.
LEMMA FollowStable ==
    ASSUME Follows, Keeps, NEW r \in Requests, ref'[r] = ref[r],
           session'[r] = session[r] \/ session'[r] # "completed"
    PROVE  Follow(r)'
  BY DEF Follows, Follow, Told, Keeps

\* The rest of a step in which coroutines and workflows are left alone.
LEMMA AllStable ==
    ASSUME TypeInv, PostsBelong, CallsTrue, Follows, Keeps, RowsTyped',
           UNCHANGED <<calls, agent>>, expired' \in [Requests -> BOOLEAN],
           posts' \in [Calls -> PostType],
           \A c \in Calls : posts'[c].at = "none"
                            \/ (posts'[c].req = posts[c].req /\ posts[c].at # "none")
    PROVE  TypeInv' /\ PostsBelong' /\ CallsTrue' /\ Follows'
<1>1. TypeInv'
  BY DEF TypeInv, AgentTyped, agent
<1>2. PostsBelong'
  BY PostStable DEF PostsBelong
<1>3. CallsTrue'
  BY CallStable DEF CallsTrue
<1>4. Follows'
  BY FollowStable DEF Follows, agent
<1> QED
  BY <1>1, <1>2, <1>3, <1>4

----------------------------------------------------------------------------
(* The steps.                                                              *)

Rest == TypeInv /\ PostsBelong /\ CallsTrue /\ Follows

\* Core works on what it has accepted, POSTs are lost, and requests expire.
LEMMA CoreSteps ==
    ASSUME AgentInv, RowsTyped', Keeps,
           \/ CoreRestarts
           \/ \E c \in Calls : PostLost(c) \/ CoreAccepts(c) \/ CoreDispatches(c)
           \/ \E r \in Requests : CoreVerifies(r) \/ Expire(r)
           \/ UNCHANGED vars
    PROVE  Rest'
<1> USE DEF AgentInv, Rest
<1>p. posts \in [Calls -> PostType] /\ expired \in [Requests -> BOOLEAN]
  BY DEF TypeInv, AgentTyped
<1>1. CASE CoreRestarts
  <2>1. posts' = [c \in Calls |-> NoPost] /\ UNCHANGED <<calls, agent, expired>>
    BY <1>1 DEF CoreRestarts
  <2>2. posts' \in [Calls -> PostType] /\ \A c \in Calls : posts'[c].at = "none"
    BY <2>1, Values
  <2> QED
    BY <1>p, <2>1, <2>2, AllStable
<1>2. ASSUME NEW c \in Calls, PostLost(c) PROVE Rest'
  <2>1. posts' = [posts EXCEPT ![c] = NoPost] /\ UNCHANGED <<calls, agent, expired>>
        /\ posts[c].at = "network"
    BY <1>2 DEF PostLost
  <2>2. /\ posts' \in [Calls -> PostType]
        /\ \A d \in Calls : posts'[d] = IF d = c THEN NoPost ELSE posts[d]
    BY <1>p, <2>1, SetPost, Values
  <2>3. \A d \in Calls : posts'[d].at = "none"
                         \/ (posts'[d].req = posts[d].req /\ posts[d].at # "none")
    BY <1>p, <2>2, Values DEF PostType
  <2> QED
    BY <1>p, <2>1, <2>2, <2>3, AllStable
<1>3. ASSUME NEW c \in Calls, CoreAccepts(c) PROVE Rest'
  <2>1. posts' = [posts EXCEPT ![c].at = "core"] /\ UNCHANGED <<calls, agent, expired>>
        /\ posts[c].at = "network"
    BY <1>3 DEF CoreAccepts
  <2>2. posts' \in [Calls -> PostType]
    BY <1>p, <2>1 DEF PostType
  <2>3. \A d \in Calls : posts'[d].at = "none"
                         \/ (posts'[d].req = posts[d].req /\ posts[d].at # "none")
    BY <1>p, <2>1 DEF PostType
  <2> QED
    BY <1>p, <2>1, <2>2, <2>3, AllStable
<1>4. ASSUME UNCHANGED <<calls, agent, posts>>, expired' \in [Requests -> BOOLEAN]
      PROVE  Rest'
  <2>1. \A d \in Calls : posts'[d].at = "none"
                         \/ (posts'[d].req = posts[d].req /\ posts[d].at # "none")
    BY <1>4
  <2> QED
    BY <1>p, <1>4, <2>1, AllStable
<1>5. CASE \/ \E c \in Calls : CoreDispatches(c)
           \/ \E r \in Requests : CoreVerifies(r)
           \/ UNCHANGED vars
  BY <1>p, <1>4, <1>5 DEF CoreDispatches, CoreVerifies, vars
<1>6. ASSUME NEW r \in Requests, Expire(r) PROVE Rest'
  BY <1>p, <1>4, <1>6 DEF Expire
<1> QED
  BY <1>1, <1>2, <1>3, <1>5, <1>6

\* Core answers a POST, to a coroutine that may have given up.
LEMMA AnswerSteps ==
    ASSUME AgentInv, RowsTyped', Keeps, NEW c \in Calls, NEW a \in ResultStatus \cup {"error"},
           NEW r \in Requests, r = posts[c].req, AnswerPost(c, a), a # "error" => Told(r, a)'
    PROVE  Rest'
<1> USE DEF AgentInv
<1>1. /\ posts[c].at = "core" /\ posts' = [posts EXCEPT ![c] = NoPost]
      /\ UNCHANGED <<agent, expired>>
      /\ calls' = IF calls[c].pc = "dispatch"
                  THEN [calls EXCEPT ![c].reply = a, ![c].dispatch = "none"] ELSE calls
  BY DEF AnswerPost, Reply
<1>2. /\ posts' \in [Calls -> PostType]
      /\ \A d \in Calls : posts'[d] = IF d = c THEN NoPost ELSE posts[d]
  BY <1>1, SetPost, Values DEF TypeInv
<1>3. \A d \in Calls : posts'[d].at = "none"
                       \/ (posts'[d].req = posts[d].req /\ posts[d].at # "none")
  BY <1>2, Values DEF TypeInv, PostType
<1>4. CASE calls[c].pc # "dispatch"
  <2>1. UNCHANGED calls
    BY <1>1, <1>4
  <2> QED
    BY <1>1, <1>2, <1>3, <2>1, AllStable DEF TypeInv, AgentTyped, Rest
<1>5. CASE calls[c].pc = "dispatch"
  <2>1. calls' = [calls EXCEPT ![c].reply = a, ![c].dispatch = "none"]
    BY <1>1, <1>5
  <2>2. calls \in [Calls -> CallType] /\ a \in LifecycleState \cup {"none", "error"}
        /\ "none" \in ResultStatus \cup {"none"}
    BY DEF TypeInv, ResultStatus, LifecycleState
  <2> DEFINE call == [calls[c] EXCEPT !.reply = a, !.dispatch = "none"]
  <2>c. /\ call \in CallType
        /\ call.pc = calls[c].pc /\ call.req = calls[c].req /\ call.reply = a
    BY <2>2 DEF CallType, CallRecord
  <2>d. calls' = [calls EXCEPT ![c] = call]
    BY <2>1, <2>2
  <2> HIDE DEF call
  <2>3. /\ calls' \in [Calls -> CallType]
        /\ \A d \in Calls \ {c} : calls'[d] = calls[d]
        /\ calls'[c].pc = calls[c].pc /\ calls'[c].req = calls[c].req
        /\ calls'[c].reply = a
    BY <2>2, <2>c, <2>d, SetCall
  <2>4. TypeInv'
    BY <1>1, <1>2, <2>3 DEF TypeInv, AgentTyped, agent
  <2>5. \A d \in Calls : calls'[d].pc = calls[d].pc /\ calls'[d].req = calls[d].req
    BY <2>3
  <2>6. PostsBelong'
    BY <1>3, <2>5, PostStable DEF PostsBelong
  <2>7. posts[c].req = calls[c].req
    BY <1>1, <1>5 DEF PostsBelong, PostBelongs
  <2>8. CallTrue(c)'
    <3>1. calls'[c].pc = "dispatch" /\ calls'[c].req = r /\ calls'[c].reply = a
      BY <1>5, <2>3, <2>7
    <3> QED
      BY <2>2, <3>1 DEF CallTrue, Told, ResultStatus
  <2>9. \A d \in Calls \ {c} : CallTrue(d)'
    BY <2>3, CallStable
  <2>10. Follows'
    BY <1>1, FollowStable DEF Follows, agent
  <2> QED
    BY <2>4, <2>6, <2>8, <2>9, <2>10 DEF Rest, CallsTrue
<1> QED
  BY <1>4, <1>5

\* One coroutine changes and nothing is stored.
LEMMA OneCall ==
    ASSUME AgentInv, RowsTyped', Keeps, NEW c \in Calls, NEW call \in CallType,
           calls' = [calls EXCEPT ![c] = call], UNCHANGED <<agent, expired>>,
           posts' \in [Calls -> PostType], \A d \in Calls \ {c} : posts'[d] = posts[d],
           PostBelongs(c)', CallTrue(c)'
    PROVE  Rest'
<1> USE DEF AgentInv
<1>1. /\ calls' \in [Calls -> CallType]
      /\ \A d \in Calls : calls'[d] = IF d = c THEN call ELSE calls[d]
  BY SetCall DEF TypeInv
<1>2. TypeInv'
  BY <1>1 DEF TypeInv, AgentTyped, agent
<1>3. \A d \in Calls \ {c} : CallTrue(d)' /\ PostBelongs(d)'
  <2>1. \A d \in Calls \ {c} : CallTrue(d)'
    BY <1>1, CallStable
  <2>2. \A d \in Calls \ {c} : PostBelongs(d)'
    BY <1>1 DEF PostsBelong, PostBelongs
  <2> QED
    BY <2>1, <2>2
<1>4. Follows'
  BY FollowStable DEF Follows, agent
<1> QED
  BY <1>2, <1>3, <1>4 DEF Rest, PostsBelong, CallsTrue

\* A resume up to its await, a status that Core reports, and one that never comes.
LEMMA WaitSteps ==
    ASSUME AgentInv, RowsTyped', Keeps, NEW c \in Calls,
           \/ \E r \in Requests : ResumeDispatch(c, r) \/ ResumeReconcile(c, r)
           \/ CoreReports(c) \/ StatusFails(c)
    PROVE  Rest'
<1> USE DEF AgentInv
<1>t. calls \in [Calls -> CallType] /\ posts \in [Calls -> PostType]
      /\ ref \in [Requests -> ReferenceType] /\ RowsTyped
  BY DEF TypeInv, AgentTyped
<1>n. "none" \notin ResultStatus /\ "none" \notin LifecycleState /\ NoReq \notin Requests
  BY CallsAssumption DEF ResultStatus, LifecycleState, Undecided, Concluded
<1>1. ASSUME NEW r \in Requests, NEW pc \in {"dispatch", "status"}, Await(c, r, pc)
      PROVE  \E call \in CallType :
                /\ calls' = [calls EXCEPT ![c] = call]
                /\ call.pc = pc /\ call.req = r /\ call.old = ref[r].dispatch
                /\ call.reply = "none" /\ call.dispatch = "none"
  <2> DEFINE call == [IdleCall EXCEPT !.pc = pc, !.req = r, !.old = ref[r].dispatch]
  <2>1. ref[r].dispatch \in ResultStatus \cup {"none"}
    BY <1>t DEF ReferenceType
  <2>2. /\ call \in CallType /\ call.pc = pc /\ call.req = r
        /\ call.old = ref[r].dispatch /\ call.reply = "none" /\ call.dispatch = "none"
    BY <1>n, <2>1 DEF IdleCall, CallType, CallRecord
  <2>3. calls' = [calls EXCEPT ![c] = call]
    BY <1>1 DEF Await
  <2> QED
    BY <2>2, <2>3
<1>2. ASSUME NEW r \in Requests, ResumeDispatch(c, r) PROVE Rest'
  <2>1. /\ Await(c, r, "dispatch") /\ UNCHANGED <<agent, expired>>
        /\ posts' = [posts EXCEPT ![c] = [at |-> "network", req |-> r]]
    BY <1>2 DEF ResumeDispatch
  <2>2. PICK call \in CallType :
           /\ calls' = [calls EXCEPT ![c] = call]
           /\ call.pc = "dispatch" /\ call.req = r /\ call.reply = "none"
    BY <1>1, <2>1
  <2>3. [at |-> "network", req |-> r] \in PostType
    BY DEF PostType
  <2>4. /\ posts' \in [Calls -> PostType]
        /\ \A d \in Calls \ {c} : posts'[d] = posts[d]
        /\ posts'[c].req = r
    BY <1>t, <2>1, <2>3, SetPost
  <2>5. calls'[c] = call
    BY <1>t, <2>2
  <2>6. PostBelongs(c)' /\ CallTrue(c)'
    BY <1>n, <2>2, <2>4, <2>5 DEF PostBelongs, CallTrue
  <2> QED
    BY <2>1, <2>2, <2>4, <2>6, OneCall
<1>3. ASSUME NEW r \in Requests, ResumeReconcile(c, r) PROVE Rest'
  <2>1. /\ Await(c, r, "status") /\ UNCHANGED <<agent, expired, posts>>
        /\ posts[c] = NoPost
    BY <1>3 DEF ResumeReconcile, Starts
  <2>2. PICK call \in CallType :
           /\ calls' = [calls EXCEPT ![c] = call]
           /\ call.pc = "status" /\ call.req = r /\ call.old = ref[r].dispatch
           /\ call.reply = "none" /\ call.dispatch = "none"
    BY <1>1, <2>1
  <2>5. calls'[c] = call
    BY <1>t, <2>2
  <2>6. PostBelongs(c)'
    BY <2>1, Values DEF PostBelongs
  <2>7. ref[r].dispatch # "none" => Told(r, ref[r].dispatch)'
    BY FollowStable, <2>1 DEF agent, Follow, Follows
  <2>8. CallTrue(c)'
    BY <1>n, <2>1, <2>2, <2>5, <2>7 DEF CallTrue, Told, Reported, agent
  <2> QED
    BY <1>t, <2>1, <2>2, <2>6, <2>8, OneCall
<1>4. CASE CoreReports(c)
  <2> DEFINE r == calls[c].req
             call == [calls[c] EXCEPT !.reply = state[r], !.dispatch = result[r]]
  <2>1. /\ calls[c].pc = "status" /\ state[r] # "absent"
        /\ calls' = [calls EXCEPT ![c].reply = state[r], ![c].dispatch = result[r]]
        /\ UNCHANGED <<lifecycle, agent, expired, posts>>
    BY <1>4 DEF CoreReports, Reply
  <2>2. r \in Requests
    BY <2>1, Busy
  <2>3. state[r] \in LifecycleState \ {"absent"} /\ result[r] \in ResultStatus \cup {"none"}
    BY <1>t, <2>1, <2>2 DEF RowsTyped
  <2>4. /\ call \in CallType /\ call.pc = "status" /\ call.req = r
        /\ call.old = calls[c].old
        /\ call.reply = state[r] /\ call.dispatch = result[r]
    BY <1>t, <2>1, <2>3 DEF CallType, CallRecord
  <2>5. calls' = [calls EXCEPT ![c] = call]
    BY <1>t, <2>1
  <2>6. calls'[c] = call
    BY <1>t, <2>5
  <2>7. PostBelongs(c)'
    BY <2>1, <2>4, <2>6 DEF PostBelongs, PostsBelong
  <2>8. Reported(r, state[r])
    BY <2>2 DEF Reported, RowsDecided, Undecided
  <2>9. CallTrue(c)'
    <3>1. calls[c].old # "none" => Told(r, calls[c].old)
      BY <2>1 DEF CallsTrue, CallTrue
    <3>2. UNCHANGED <<state, result, answers>>
      BY <2>1 DEF lifecycle
    <3> QED
      BY <2>3, <2>4, <2>6, <2>8, <3>1, <3>2 DEF CallTrue, Told, Reported
  <2> QED
    BY <1>t, <2>1, <2>4, <2>5, <2>7, <2>9, OneCall
<1>5. CASE StatusFails(c)
  <2>1. /\ calls' = [calls EXCEPT ![c] = IdleCall] /\ UNCHANGED <<agent, expired, posts>>
    BY <1>5 DEF StatusFails, EndCall
  <2>2. calls'[c].pc = "idle"
    BY <1>t, <2>1, Values
  <2>3. PostBelongs(c)' /\ CallTrue(c)'
    BY <2>1, <2>2 DEF PostBelongs, PostsBelong, CallTrue
  <2> QED
    BY <1>t, <2>1, <2>3, Values, OneCall
<1> QED
  BY <1>2, <1>3, <1>4, <1>5

\* A coroutine ends, or never waited, and its workflow is stored.
LEMMA StoreStep ==
    ASSUME AgentInv, RowsTyped', Keeps, NEW c \in Calls, NEW r \in Requests,
           NEW reference \in ReferenceType,
           NEW state_ \in {"awaiting_implementation_approval", "executing",
                           "verifying", "completed", "blocked"},
           Store(r, reference, state_), UNCHANGED <<policy, expired, posts>>,
           EndCall(c) \/ UNCHANGED calls,
           Follow(r)'
    PROVE  Rest'
<1> USE DEF AgentInv
<1>1. /\ AgentTyped'
      /\ \A q \in Requests :
            /\ ref'[q] = IF q = r THEN reference ELSE ref[q]
            /\ session'[q] = IF q = r THEN state_ ELSE session[q]
  BY StoreOne DEF TypeInv
<1>2. /\ calls' \in [Calls -> CallType]
      /\ \A d \in Calls : calls'[d] = calls[d] \/ calls'[d].pc = "idle"
  <2>1. CASE EndCall(c)
    BY <2>1, Values, SetCall DEF EndCall, TypeInv
  <2>2. CASE UNCHANGED calls
    BY <2>2 DEF TypeInv
  <2> QED
    BY <2>1, <2>2
<1>3. TypeInv'
  BY <1>1, <1>2 DEF TypeInv
<1>4. \A d \in Calls : CallTrue(d)'
  <2> TAKE d \in Calls
  <2>1. CASE calls'[d] = calls[d]
    BY <2>1, CallStable
  <2>2. CASE calls'[d].pc = "idle"
    BY <2>2 DEF CallTrue
  <2> QED
    BY <1>2, <2>1, <2>2
<1>5. \A d \in Calls : PostBelongs(d)'
  BY <1>2 DEF PostsBelong, PostBelongs
<1>6. \A q \in Requests \ {r} : Follow(q)'
  BY <1>1, FollowStable
<1> QED
  BY <1>3, <1>4, <1>5, <1>6 DEF Rest, PostsBelong, CallsTrue, Follows

\* The end of a resume that stores what it was told, or that nothing is known.
LEMMA StoreSteps ==
    ASSUME AgentInv, RowsTyped', Keeps, NEW c \in Calls,
           \/ \E r \in Requests : ResumeBlocked(c, r)
           \/ DispatchAnswered(c) \/ DispatchFails(c) \/ StatusAnswered(c)
    PROVE  Rest'
<1> USE DEF AgentInv
<1>r. ResultStatus \subseteq LifecycleState /\ "none" \in LifecycleState \cup {"none"}
      /\ "none" \in ResultStatus \cup {"none"} /\ "none" \notin LifecycleState
      /\ "none" \notin ResultStatus
  BY DEF ResultStatus, LifecycleState, Undecided, Concluded
<1>s. Resubmits \subseteq Stage /\ "submission_outcome_unknown" \in Resubmits
      /\ "execution_blocked" \in Resubmits
      /\ Resubmits \cap {"verified", "verification_failed", "verification_pending"} = {}
  BY DEF Resubmits, Stage
<1>1. ASSUME NEW r \in Requests, ResumeBlocked(c, r) PROVE Rest'
  <2>1. /\ ref[r].stage \in Resubmits
        /\ Store(r, Reference("execution_blocked", "none", "none"), session[r])
        /\ UNCHANGED <<policy, expired, posts, calls>>
    BY <1>1 DEF ResumeBlocked
  <2> DEFINE reference == Reference("execution_blocked", "none", "none")
  <2>2. /\ reference \in ReferenceType /\ reference.stage = "execution_blocked"
        /\ reference.dispatch = "none"
    BY <1>r, <1>s, ReferenceFields
  <2>3. session[r] \in {"awaiting_implementation_approval", "executing",
                        "verifying", "completed", "blocked"}
        /\ session[r] # "completed"
    BY <1>s, <2>1 DEF TypeInv, AgentTyped, Follows, Follow
  <2>4. ref'[r] = reference /\ session'[r] = session[r]
    BY <2>1 DEF Store, TypeInv, AgentTyped
  <2>5. Follow(r)'
    BY <2>2, <2>3, <2>4 DEF Follow
  <2> QED
    BY <2>1, <2>2, <2>3, <2>5, StoreStep
<1>2. CASE DispatchFails(c)
  <2> DEFINE r == calls[c].req
             reference == Reference("submission_outcome_unknown", "none", "none")
  <2>1. /\ calls[c].pc = "dispatch" /\ Store(r, reference, "executing") /\ EndCall(c)
        /\ UNCHANGED <<policy, expired, posts>>
    BY <1>2 DEF DispatchFails
  <2>2. /\ reference \in ReferenceType /\ reference.stage = "submission_outcome_unknown"
        /\ reference.dispatch = "none"
    BY <1>r, <1>s, ReferenceFields
  <2>3. PICK q \in Requests : q = r
    BY <2>1, Busy
  <2> HIDE DEF reference
  <2>4. ref'[q] = reference /\ session'[q] = "executing"
    BY <2>1, <2>3 DEF Store, TypeInv, AgentTyped
  <2>5. Follow(q)'
    BY <2>2, <2>4 DEF Follow
  <2> QED
    BY <2>1, <2>2, <2>3, <2>5, StoreStep
<1>3. CASE DispatchAnswered(c)
  <2> DEFINE r == calls[c].req
             status == calls[c].reply
             reference == Reference(DispatchStage(status), status, status)
  <2>1. /\ calls[c].pc = "dispatch" /\ status \in ResultStatus
        /\ Store(r, reference, DispatchSession(status)) /\ EndCall(c)
        /\ UNCHANGED <<lifecycle, policy, expired, posts>>
    BY <1>3 DEF DispatchAnswered
  <2>2. /\ DispatchStage(status) \in {"verification_pending", "outcome_unknown", "failed"}
        /\ DispatchStage(status) \in Stage
        /\ DispatchStage(status) = "verification_pending" => status = "succeeded"
        /\ DispatchSession(status) \in {"verifying", "blocked"}
    BY <2>1, DispatchView
  <2>3. /\ reference \in ReferenceType /\ reference.stage = DispatchStage(status)
        /\ reference.dispatch = status
    BY <1>r, <2>1, <2>2, ReferenceFields
  <2>4. PICK q \in Requests : q = r
    BY <2>1, Busy
  <2>5. Told(q, status)
    BY <2>1, <2>4 DEF CallsTrue, CallTrue
  <2> HIDE DEF reference
  <2>6. ref'[q] = reference /\ session'[q] = DispatchSession(status)
    BY <2>1, <2>4 DEF Store, TypeInv, AgentTyped
  <2>7. UNCHANGED <<state, result, answers>>
    BY <2>1 DEF lifecycle
  <2>8. Follow(q)'
    BY <1>r, <2>1, <2>2, <2>3, <2>5, <2>6, <2>7 DEF Follow, Told
  <2> QED
    BY <2>1, <2>2, <2>3, <2>4, <2>8, StoreStep
<1>4. CASE StatusAnswered(c)
  <2> DEFINE r == calls[c].req
             ledger == calls[c].reply
             dispatch == IF calls[c].dispatch # "none" THEN calls[c].dispatch
                         ELSE calls[c].old
             reference == Reference(StatusStage(ledger), ledger, dispatch)
  <2>1. /\ calls[c].pc = "status" /\ ledger \in LifecycleState
        /\ Store(r, reference, StatusSession(ledger)) /\ EndCall(c)
        /\ UNCHANGED <<lifecycle, policy, expired, posts>>
    BY <1>4 DEF StatusAnswered
  <2>2. ledger \in LifecycleState \ {"absent"} /\ Reported(r, ledger)
        /\ (dispatch # "none" => Told(r, dispatch))
    BY <1>r, <2>1 DEF CallsTrue, CallTrue, Told
  <2>3. /\ StatusStage(ledger) \in Stage
        /\ StatusStage(ledger) \in {"verified", "verification_failed"}
              => ledger = StatusStage(ledger)
        /\ StatusStage(ledger) = "verification_pending"
              => ledger \in {"succeeded", "verifying"}
        /\ StatusSession(ledger) \in {"executing", "verifying", "completed", "blocked"}
        /\ StatusSession(ledger) = "completed" => StatusStage(ledger) = "verified"
    BY <2>2, StatusView
  <2>4. dispatch \in ResultStatus \cup {"none"}
    BY DEF TypeInv, CallType, CallRecord
  <2>5. /\ reference \in ReferenceType /\ reference.stage = StatusStage(ledger)
        /\ reference.dispatch = dispatch
    BY <2>1, <2>3, <2>4, ReferenceFields
  <2>6. PICK q \in Requests : q = r
    BY <2>1, Busy
  <2> HIDE DEF reference, dispatch
  <2>7. ref'[q] = reference /\ session'[q] = StatusSession(ledger)
    BY <2>1, <2>6 DEF Store, TypeInv, AgentTyped
  <2>8. UNCHANGED <<state, result, answers>>
    BY <2>1 DEF lifecycle
  <2>9. Follow(q)'
    BY <2>2, <2>3, <2>5, <2>6, <2>7, <2>8 DEF Follow, Told, Reported
  <2> QED
    BY <2>1, <2>3, <2>5, <2>6, <2>9, StoreStep
<1> QED
  BY <1>1, <1>2, <1>3, <1>4

\* A restart blocks the sessions that were under way and drops their coroutines.
LEMMA RestartStep ==
    ASSUME AgentInv, RowsTyped', Keeps, AgentRestarts
    PROVE  Rest'
<1> USE DEF AgentInv
<1>1. /\ session' = [r \in Requests |-> IF session[r] \in {"executing", "verifying"}
                                        THEN "blocked" ELSE session[r]]
      /\ policy' \in BOOLEAN /\ calls' = [c \in Calls |-> IdleCall]
      /\ UNCHANGED <<ref, posts, expired>>
  BY DEF AgentRestarts
<1>2. calls' \in [Calls -> CallType] /\ \A c \in Calls : calls'[c].pc = "idle"
  BY <1>1, Values
<1>3. AgentTyped'
  BY <1>1 DEF AgentTyped, TypeInv
<1>4. TypeInv'
  BY <1>1, <1>2, <1>3 DEF TypeInv
<1>5. PostsBelong' /\ CallsTrue'
  BY <1>1, <1>2 DEF PostsBelong, PostBelongs, CallsTrue, CallTrue
<1>6. Follows'
  BY <1>1, FollowStable DEF Follows
<1> QED
  BY <1>4, <1>5, <1>6 DEF Rest

----------------------------------------------------------------------------
(* The theorem.                                                            *)

\* The Agent starts with no reference and Core with no row.
LEMMA InitInv == Init => AgentInv
<1> SUFFICES ASSUME Init PROVE AgentInv
  OBVIOUS
<1>1. RowsTyped /\ RowsDecided
  BY DEF Init, LifecycleInit, RowsTyped, RowsDecided, LifecycleState, Undecided, ResultStatus
<1>2. AgentTyped
  BY Values DEF Init, AgentTyped
<1>3. /\ calls \in [Calls -> CallType] /\ posts \in [Calls -> PostType]
      /\ \A c \in Calls : calls[c].pc = "idle" /\ posts[c].at = "none"
  BY Values DEF Init
<1>4. PostsBelong /\ CallsTrue
  BY <1>3 DEF PostsBelong, PostBelongs, CallsTrue, CallTrue
<1>5. Follows
  BY Values DEF Init, Follows, Follow
<1> QED
  BY <1>1, <1>2, <1>3, <1>4, <1>5 DEF AgentInv, TypeInv

\* Every step of the Agent, of Core and of the network keeps the invariant.
LEMMA NextInv == AgentInv /\ [Next]_vars => AgentInv'
<1> SUFFICES ASSUME AgentInv, [Next]_vars PROVE AgentInv'
  OBVIOUS
<1>1. RowsTyped' /\ RowsDecided' /\ Keeps
  BY NextRows DEF AgentInv
<1>2. Rest'
  <2>1. ASSUME NEW c \in Calls, CoreAnswers(c) \/ CoreRejects(c) PROVE Rest'
    <3>1. PICK a \in ResultStatus \cup {"error"} : AnswerPost(c, a)
      BY <2>1 DEF CoreAnswers, CoreRejects
    <3>2. PICK r \in Requests : r = posts[c].req
      BY <3>1 DEF AnswerPost, AgentInv, PostsBelong, PostBelongs
    <3>3. Answer(r, a)
      BY <3>1, <3>2 DEF AnswerPost
    <3>4. a # "error" => Told(r, a)'
      BY <3>3, AnswerStep DEF AgentInv, TypeInv
    <3> QED
      BY <1>1, <3>1, <3>2, <3>4, AnswerSteps
  <2>2. ASSUME NEW c \in Calls, NEW r \in Requests, Resume(c, r) PROVE Rest'
    BY <1>1, <2>2, WaitSteps, StoreSteps DEF Resume
  <2>3. ASSUME NEW c \in Calls,
               \/ DispatchAnswered(c) \/ DispatchFails(c) \/ StatusAnswered(c)
               \/ StatusFails(c) \/ CoreReports(c)
        PROVE  Rest'
    BY <1>1, <2>3, WaitSteps, StoreSteps
  <2>4. CASE \/ CoreRestarts \/ UNCHANGED vars
             \/ \E c \in Calls : PostLost(c) \/ CoreAccepts(c) \/ CoreDispatches(c)
             \/ \E r \in Requests : CoreVerifies(r) \/ Expire(r)
    BY <1>1, <2>4, CoreSteps
  <2>5. CASE AgentRestarts
    BY <1>1, <2>5, RestartStep
  <2> QED
    BY <2>1, <2>2, <2>3, <2>4, <2>5 DEF Next
<1> QED
  BY <1>1, <1>2 DEF Rest, AgentInv

\* OperationalExecutionOrchestrator.resume: whichever resume ends last, however late its
\* answer, over lost messages and restarts of either side, the stored reference shows a
\* workflow as completed only when Core's row is verified, and a dispatch status only
\* when Core stored or told it.
THEOREM AgentSafety == Spec => []FollowsCore
<1>1. Init => AgentInv
  BY InitInv
<1>2. AgentInv /\ [Next]_vars => AgentInv'
  BY NextInv
<1>3. AgentInv => FollowsCore
  <2> SUFFICES ASSUME AgentInv PROVE FollowsCore
    OBVIOUS
  <2>1. TypeOK
    BY TypesMean DEF AgentInv
  <2>2. NeverAheadOfCore /\ DispatchStatusTold
    BY DEF AgentInv, Follows, Follow, Told, NeverAheadOfCore, DispatchStatusTold
  <2> QED
    BY <2>1, <2>2 DEF FollowsCore
<1> QED
  BY <1>1, <1>2, <1>3, PTL DEF Spec

=============================================================================
