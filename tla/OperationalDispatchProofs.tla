---------------------- MODULE OperationalDispatchProofs ----------------------
(***************************************************************************)
(* Safety of operational dispatch for every set of requests, digests and   *)
(* connections and every bound on deliveries, crashes and database errors. *)
(***************************************************************************)
EXTENDS OperationalDispatch, TLAPS

----------------------------------------------------------------------------
(* Types strengthened by what each record's own fields say of each other.  *)

\* A row that the ledger's decoder accepts.
GoodRow ==
    {row \in RowType :
        /\ row.dispatch = NoResult \/ row.dispatch.status \in DispatchStatus
        /\ row.state \in {"succeeded", "failed", "outcome_unknown",
                          "target_replaced", "verifying"}
              => row.dispatch.status \in DispatchStatus
        /\ row.state \in {"verified", "verification_failed"}
              => row.verification # "none"
        /\ row.verification # "none"
              => row.state \in FINAL_STATES \cup {"outcome_unknown"}}

\* A busy connection works on a request and carries a result worth storing.
GoodCaller ==
    {k \in CallerType :
        /\ k.pc # "idle" => k.req \in Requests
        /\ k.pc \in {"returned", "persisting", "answering"}
              => k.res.status \in DispatchStatus
        /\ k.pc = "persisting" => k.to \in DispatchStatus \cup {"target_replaced"}}

\* A busy task works on a request and carries a verdict once it has one.
GoodTask ==
    {k \in TaskType :
        /\ k.pc # "idle" => k.req \in Requests
        /\ k.pc \in {"concluding", "concluded"} => k.verdict \in VerificationStatus}

LedgerGood == ledger \in [Requests -> GoodRow]
LogType == log \in [Requests -> Seq(LedgerState \X LedgerState)]
CallersGood == callers \in [Callers -> GoodCaller]
TasksGood == tasks \in [Tasks -> GoodTask]
AuditType == audit \in [Requests -> SUBSET AuditStatus]
RepliesType == replies \in [Requests -> SUBSET (DispatchStatus \cup
                                {"unavailable", "conflict", "error"})]
LoopType == loop \in Tasks \cup {NoOne}
ProcessType ==
    /\ core \in {"down", "booting", "up"}
    /\ gate \in Gates
    /\ reconciled \subseteq Requests
PostsType == posts \in [Requests -> Nat]
ProviderType ==
    /\ inflight \in [Requests -> Nat]
    /\ reboots \in [Requests -> Nat]
    /\ ptask \in [Requests -> {"none", "running", "ok", "failed"}]
    /\ guest \in [Requests -> {"running", "down"}]
    /\ returned \in [Requests -> BOOLEAN]
    /\ replaced \in [Requests -> BOOLEAN]
    /\ expired \in [Requests -> BOOLEAN]
BoundsType == deliveries \in Nat /\ crashes \in Nat /\ faults \in Nat

TypeInv ==
    /\ LedgerGood /\ LogType /\ CallersGood /\ TasksGood /\ AuditType
    /\ RepliesType /\ LoopType /\ ProcessType /\ PostsType /\ ProviderType
    /\ BoundsType

\* The strengthened types imply the type invariant and that rows decode.
LEMMA TypeInvStrong == TypeInv => TypeOK /\ RowsDecode
<1> SUFFICES ASSUME TypeInv PROVE TypeOK /\ RowsDecode
  OBVIOUS
<1>1. ledger \in [Requests -> RowType]
  BY DEF TypeInv, LedgerGood, GoodRow
<1>2. callers \in [Callers -> CallerType]
  BY DEF TypeInv, CallersGood, GoodCaller
<1>3. tasks \in [Tasks -> TaskType]
  BY DEF TypeInv, TasksGood, GoodTask
<1>4. TypeOK
  BY <1>1, <1>2, <1>3 DEF TypeInv, TypeOK, LogType, AuditType, RepliesType,
     LoopType, ProcessType, PostsType, ProviderType, BoundsType
<1>5. RowsDecode
  BY DEF TypeInv, LedgerGood, GoodRow, RowsDecode, HasResult, NoResult, Result,
         DispatchStatus
<1> QED
  BY <1>4, <1>5

\* Nothing is claimed, nobody runs: the initial state has its types.
LEMMA InitType == Init => TypeInv
<1> SUFFICES ASSUME Init PROVE TypeInv
  OBVIOUS
<1>1. LedgerGood
  BY DEF Init, LedgerGood, GoodRow, RowType, AbsentRow, NoResult, Result,
         ResultType, LedgerState
<1>2. CallersGood
  BY DEF Init, CallersGood, GoodCaller, CallerType, IdleCaller, CallerPc,
         NoResult, Result, ResultType
<1>3. TasksGood
  BY DEF Init, TasksGood, GoodTask, TaskType, IdleTask, TaskPc
<1>4. LogType
  BY DEF Init, LogType
<1> QED
  BY <1>1, <1>2, <1>3, <1>4 DEF Init, TypeInv, AuditType, RepliesType, LoopType,
     ProcessType, PostsType, ProviderType, BoundsType, Gates

----------------------------------------------------------------------------
(* What the helpers of the actions do to the typed variables.              *)

\* Goto leaves a good connection good if its new program counter fits it.
LEMMA GotoGood ==
    ASSUME CallersGood, NEW c \in Callers, NEW pc \in CallerPc, Goto(c, pc),
           pc # "idle" => callers[c].req \in Requests,
           pc \notin {"returned", "persisting", "answering"}
    PROVE  CallersGood'
  BY DEF CallersGood, GoodCaller, CallerType, Goto

\* GotoWith leaves a good connection good if its result fits the new place.
LEMMA GotoWithGood ==
    ASSUME CallersGood, NEW c \in Callers, NEW pc \in CallerPc,
           NEW res \in ResultType,
           NEW to \in LedgerState \cup {"none", "unavailable"},
           GotoWith(c, pc, res, to), callers[c].req \in Requests,
           res.status \in DispatchStatus,
           pc = "persisting" => to \in DispatchStatus \cup {"target_replaced"}
    PROVE  CallersGood'
<1> DEFINE k == [callers[c] EXCEPT !.pc = pc, !.res = res, !.to = to]
<1>1. callers[c] \in CallerType /\ callers \in [Callers -> GoodCaller]
  BY DEF CallersGood, GoodCaller
<1>2. k \in CallerType /\ k.pc = pc /\ k.res = res /\ k.to = to
      /\ k.req = callers[c].req
  BY <1>1 DEF CallerType
<1>3. k \in GoodCaller
  BY <1>2 DEF GoodCaller
<1>4. callers' = [callers EXCEPT ![c] = k]
  BY <1>1 DEF GotoWith
<1> HIDE DEF k
<1> QED
  BY <1>1, <1>3, <1>4 DEF CallersGood

\* An ended connection is good.
LEMMA IdleGood ==
    ASSUME CallersGood, NEW c \in Callers,
           callers' = [callers EXCEPT ![c] = IdleCaller]
    PROVE  CallersGood'
  BY DEF CallersGood, GoodCaller, CallerType, IdleCaller, CallerPc, NoResult,
         Result, ResultType

\* A ledger write of a good row keeps ledger and transitions typed.
LEMMA WriteGood ==
    ASSUME LedgerGood, LogType, NEW r \in Requests, NEW row \in GoodRow,
           Write(r, row)
    PROVE  LedgerGood' /\ LogType'
<1>1. LedgerGood'
  BY DEF LedgerGood, Write
<1>2. <<ledger[r].state, row.state>> \in LedgerState \X LedgerState
  BY DEF LedgerGood, GoodRow, RowType
<1>3. LogType'
  BY <1>2 DEF LogType, Write
<1> QED
  BY <1>1, <1>3

\* Recording audit statuses keeps them typed.
LEMMA RecordType ==
    ASSUME AuditType, NEW r \in Requests, NEW S \in SUBSET AuditStatus,
           Record(r, S)
    PROVE  AuditType'
  BY DEF AuditType, Record

\* A verifier's verdict leaves its task good.
LEMMA ConcludeGood ==
    ASSUME TasksGood, NEW t \in Tasks, NEW v \in VerificationStatus,
           tasks[t].req \in Requests, Conclude(t, v)
    PROVE  TasksGood' /\ LoopType'
  BY DEF TasksGood, GoodTask, TaskType, TaskPc, Conclude, LoopType, Tasks

\* A task that moves on stays good until it concludes.
LEMMA TaskGotoGood ==
    ASSUME TasksGood, NEW t \in Tasks, NEW pc \in TaskPc, TaskGoto(t, pc),
           tasks[t].req \in Requests,
           pc = "concluding" => FALSE,
           pc = "concluded" => tasks[t].verdict \in VerificationStatus
    PROVE  TasksGood'
  BY DEF TasksGood, GoodTask, TaskType, TaskGoto

\* An ended task is good.
LEMMA IdleTaskGood ==
    ASSUME TasksGood, NEW t \in Tasks, tasks' = [tasks EXCEPT ![t] = IdleTask]
    PROVE  TasksGood'
  BY DEF TasksGood, GoodTask, TaskType, IdleTask, TaskPc

----------------------------------------------------------------------------
(* Every action keeps the types.                                           *)

\* The statuses and places that steps assign are of their types.
LEMMA Places ==
    /\ CallerPc = {"idle", "accepted", "claimed", "resolving", "matched",
                   "revalidated", "crossed", "checking", "posting", "returned",
                   "persisting", "answering"}
    /\ \A s \in DispatchStatus, u \in BOOLEAN :
          Result(s, u) \in ResultType /\ Result(s, u).status = s
    /\ \A s \in DispatchStatus, u \in BOOLEAN : Result(s, u) # NoResult
    /\ "failed" \in DispatchStatus /\ "outcome_unknown" \in DispatchStatus
    /\ "succeeded" \in DispatchStatus
    /\ DispatchStatus \cup {"target_replaced"} \subseteq LedgerState
  BY DEF CallerPc, DispatchStatus, Result, ResultType, LedgerState, NoResult

\* What a busy connection is known to hold.
LEMMA BusyCaller ==
    ASSUME CallersGood, NEW c \in Callers
    PROVE  /\ callers[c].pc # "idle" => callers[c].req \in Requests
           /\ callers[c].res \in ResultType
           /\ callers[c].to \in LedgerState \cup {"none", "unavailable"}
           /\ callers[c].digest \in Digests \cup {"none"}
           /\ callers[c].pc \in {"returned", "persisting", "answering"}
                => callers[c].res.status \in DispatchStatus
           /\ callers[c].pc = "persisting"
                => callers[c].to \in DispatchStatus \cup {"target_replaced"}
  BY DEF CallersGood, GoodCaller, CallerType

\* A variable that a step leaves alone keeps its type.
LEMMA Keep ==
    ASSUME TypeInv
    PROVE  /\ UNCHANGED ledger => LedgerGood'
           /\ UNCHANGED log => LogType'
           /\ UNCHANGED callers => CallersGood'
           /\ UNCHANGED tasks => TasksGood'
           /\ UNCHANGED audit => AuditType'
           /\ UNCHANGED replies => RepliesType'
           /\ UNCHANGED loop => LoopType'
           /\ UNCHANGED process => ProcessType'
           /\ UNCHANGED posts => PostsType'
           /\ UNCHANGED <<provider, expired>> => ProviderType'
           /\ UNCHANGED bounds => BoundsType'
  BY DEF TypeInv, LedgerGood, LogType, CallersGood, TasksGood, AuditType,
         RepliesType, LoopType, ProcessType, PostsType, ProviderType, BoundsType,
         process, provider, bounds

\* The event loop is handed to a coroutine or released.
LEMMA LoopMoves ==
    /\ \A c \in Callers : loop' = c => LoopType'
    /\ \A t \in Tasks : loop' = t => LoopType'
    /\ loop' = NoOne => LoopType'
  BY DEF LoopType, Tasks

\* Remembering an answer keeps the answers typed.
LEMMA ReplyType ==
    ASSUME RepliesType, NEW r \in Requests,
           NEW a \in DispatchStatus \cup {"unavailable", "conflict", "error"},
           replies' = [replies EXCEPT ![r] = @ \cup {a}]
    PROVE  RepliesType'
  BY DEF RepliesType

\* A coroutine that answers early ends with a stored or a fresh result.
LEMMA StoredResult ==
    ASSUME LedgerGood, NEW r \in Requests, HasResult(r)
    PROVE  /\ ledger[r].dispatch \in ResultType
           /\ ledger[r].dispatch.status \in DispatchStatus
  BY DEF LedgerGood, GoodRow, RowType, HasResult

\* Advancing only the state of a row within the undecided states is good.
LEMMA MoveGood ==
    ASSUME LedgerGood, LogType, NEW r \in Requests,
           NEW state \in {"revalidated", "dispatching"}, Move(r, state),
           ledger[r].state \in PreDispatch
    PROVE  LedgerGood' /\ LogType'
<1>1. ledger[r] \in RowType /\ ledger[r].verification = "none"
      /\ (ledger[r].dispatch = NoResult \/ ledger[r].dispatch.status \in DispatchStatus)
  BY DEF LedgerGood, GoodRow, PreDispatch, FINAL_STATES
<1>2. [ledger[r] EXCEPT !.state = state] \in GoodRow
  BY <1>1 DEF GoodRow, RowType, LedgerState
<1> QED
  BY <1>2, WriteGood DEF Move

\* A step of a dispatch coroutine keeps the types.
LEMMA ProceedType ==
    ASSUME TypeInv, NEW c \in Callers, Proceed(c)
    PROVE  TypeInv'
<1> DEFINE r == callers[c].req
<1> USE DEF TypeInv, durable, process, At, Running, Resumed
<1>0. callers[c].pc # "idle" => r \in Requests
  BY BusyCaller
<1>f. \A u \in BOOLEAN, s \in DispatchStatus :
         Result(s, u) \in ResultType /\ Result(s, u).status \in DispatchStatus
  BY Places
<1>l. "none" \in LedgerState \cup {"none", "unavailable"}
  OBVIOUS
<1>1. CASE ClaimNew(c)
  <2>1. r \in Requests
    BY <1>0, <1>1 DEF ClaimNew
  <2>2. [AbsentRow EXCEPT !.state = "claimed", !.digest = callers[c].digest]
          \in GoodRow
    BY <1>1, BusyCaller DEF AbsentRow, GoodRow, RowType, NoResult, Result,
       ResultType, LedgerState
  <2>3. LedgerGood' /\ LogType'
    BY <1>1, <2>1, <2>2, WriteGood DEF ClaimNew
  <2>4. CallersGood'
    BY <1>1, <2>1, GotoGood, Places DEF ClaimNew
  <2> QED
    BY <1>1, <2>3, <2>4, Keep DEF ClaimNew
<1>2. CASE ClaimAgain(c)
  <2>1. r \in Requests
    BY <1>0, <1>2 DEF ClaimAgain
  <2>2. CASE HasResult(r)
    <3>1. CallersGood'
      BY <1>2, <2>1, <2>2, <1>l, StoredResult, GotoWithGood, Places DEF ClaimAgain
    <3> QED
      BY <1>2, <3>1, Keep DEF ClaimAgain
  <2>3. CASE ~HasResult(r)
    <3>1. CallersGood'
      BY <1>2, <2>1, <2>3, GotoGood, Places DEF ClaimAgain
    <3> QED
      BY <1>2, <3>1, Keep DEF ClaimAgain
  <2> QED
    BY <2>2, <2>3
<1>3. CASE ClaimConflict(c)
  <2>1. r \in Requests
    BY <1>0, <1>3 DEF ClaimConflict
  <2>2. CallersGood' /\ RepliesType' /\ LoopType'
    BY <1>3, <2>1, IdleGood, ReplyType, LoopMoves DEF ClaimConflict
  <2>3. AuditType'
    BY <1>3, <2>1 DEF ClaimConflict, Record, AuditType, AuditStatus
  <2> QED
    BY <1>3, <2>2, <2>3, Keep DEF ClaimConflict
<1>4. CASE Refuse(c)
  <2>1. CallersGood'
    BY <1>0, <1>4, <1>f, GotoWithGood, Places DEF Refuse
  <2>2. AuditType'
    BY <1>0, <1>4 DEF Refuse, Record, AuditType, AuditStatus
  <2> QED
    BY <1>4, <2>1, <2>2, Keep DEF Refuse
<1>5. CASE AwaitResolver(c)
  <2>1. CallersGood' /\ LoopType'
    BY <1>0, <1>5, GotoGood, LoopMoves, Places DEF AwaitResolver
  <2> QED
    BY <1>5, <2>1, Keep DEF AwaitResolver
<1>6. CASE ResolvedReplaced(c)
  <2>1. r \in Requests /\ {"target_blocked"} \in SUBSET AuditStatus
        /\ "target_replaced" \in LedgerState
    BY <1>0, <1>6 DEF ResolvedReplaced, AuditStatus, LedgerState
  <2>2. CallersGood'
    BY <1>6, <1>f, <2>1, GotoWithGood, Places DEF ResolvedReplaced
  <2>3. AuditType' /\ LoopType'
    BY <1>6, <2>1, RecordType, LoopMoves DEF ResolvedReplaced
  <2> QED
    BY <1>6, <2>2, <2>3, Keep DEF ResolvedReplaced
<1>7. CASE ResolvedUnavailable(c)
  <2>1. r \in Requests /\ {"target_blocked"} \in SUBSET AuditStatus
    BY <1>0, <1>7 DEF ResolvedUnavailable, AuditStatus
  <2>2. CallersGood'
    BY <1>7, <1>f, <2>1, GotoWithGood, Places DEF ResolvedUnavailable
  <2>3. AuditType' /\ LoopType'
    BY <1>7, <2>1, RecordType, LoopMoves DEF ResolvedUnavailable
  <2> QED
    BY <1>7, <2>2, <2>3, Keep DEF ResolvedUnavailable
<1>8. CASE ResolvedMatch(c)
  <2>1. CallersGood' /\ LoopType'
    BY <1>0, <1>8, GotoGood, LoopMoves, Places DEF ResolvedMatch
  <2> QED
    BY <1>8, <2>1, Keep DEF ResolvedMatch
<1>9. CASE MarkRevalidated(c)
  <2>1. r \in Requests
    BY <1>0, <1>9 DEF MarkRevalidated
  <2>2. LedgerGood' /\ LogType'
    BY <1>9, <2>1, MoveGood, Keep DEF MarkRevalidated, PreDispatch
  <2>3. CallersGood'
    BY <1>9, <2>1, GotoGood, Places DEF MarkRevalidated
  <2> QED
    BY <1>9, <2>2, <2>3, Keep DEF MarkRevalidated
<1>10. CASE MarkDispatching(c)
  <2>1. r \in Requests
    BY <1>0, <1>10 DEF MarkDispatching
  <2>2. LedgerGood' /\ LogType'
    BY <1>10, <2>1, MoveGood DEF MarkDispatching, PreDispatch
  <2>3. CallersGood'
    BY <1>10, <2>1, GotoGood, Places DEF MarkDispatching
  <2> QED
    BY <1>10, <2>2, <2>3, Keep DEF MarkDispatching
<1>11. CASE LoseBarrier(c)
  <2>1. r \in Requests
    BY <1>0, <1>11 DEF LoseBarrier
  <2>2. CallersGood'
    <3>1. CASE HasResult(r)
      BY <1>11, <2>1, <3>1, <1>l, StoredResult, GotoWithGood, Places
         DEF LoseBarrier
    <3>2. CASE ~HasResult(r)
      BY <1>11, <2>1, <3>2, <1>f, <1>l, GotoWithGood, Places DEF LoseBarrier
    <3> QED
      BY <3>1, <3>2
  <2> QED
    BY <1>11, <2>2, Keep DEF LoseBarrier
<1>12. CASE AwaitHandler(c)
  <2>1. r \in Requests /\ {"barrier_crossed"} \in SUBSET AuditStatus
    BY <1>0, <1>12 DEF AwaitHandler, AuditStatus
  <2>2. CallersGood' /\ AuditType' /\ LoopType'
    BY <1>12, <2>1, GotoGood, RecordType, LoopMoves, Places DEF AwaitHandler
  <2> QED
    BY <1>12, <2>2, Keep DEF AwaitHandler
<1>13. CASE HandlerRefuses(c)
  <2>1. CallersGood' /\ LoopType'
    BY <1>0, <1>13, <1>f, <1>l, GotoWithGood, LoopMoves, Places DEF HandlerRefuses
  <2> QED
    BY <1>13, <2>1, Keep DEF HandlerRefuses
<1>14. CASE SendReboot(c)
  <2>1. CallersGood'
    BY <1>0, <1>14, GotoGood, Places DEF SendReboot
  <2>2. PostsType' /\ ProviderType'
    BY <1>0, <1>14 DEF SendReboot, PostsType, ProviderType
  <2> QED
    BY <1>14, <2>1, <2>2, Keep DEF SendReboot
<1>15. CASE RebootAccepted(c)
  <2>1. CallersGood' /\ LoopType'
    BY <1>0, <1>15, <1>f, <1>l, GotoWithGood, LoopMoves, Places DEF RebootAccepted
  <2> QED
    BY <1>15, <2>1, Keep DEF RebootAccepted
<1>16. CASE RebootUnknown(c)
  <2>1. CallersGood' /\ LoopType'
    BY <1>0, <1>16, <1>f, <1>l, GotoWithGood, LoopMoves, Places DEF RebootUnknown
  <2> QED
    BY <1>16, <2>1, Keep DEF RebootUnknown
<1>17. CASE AuditResult(c)
  <2>1. r \in Requests
    BY <1>0, <1>17 DEF AuditResult
  <2>2. /\ callers[c].res \in ResultType
        /\ callers[c].res.status \in DispatchStatus
        /\ callers[c].res.status \in LedgerState
    BY <1>17, BusyCaller, Places DEF AuditResult
  <2>3. CallersGood'
    BY <1>17, <2>1, <2>2, GotoWithGood, Places DEF AuditResult
  <2>4. AuditType'
    BY <1>17, <2>1 DEF AuditResult, Record, AuditType, AuditStatus
  <2> QED
    BY <1>17, <2>3, <2>4, Keep DEF AuditResult
<1>18. CASE PersistDispatchResult(c)
  <2>1. r \in Requests
    BY <1>0, <1>18 DEF PersistDispatchResult
  <2>2. /\ callers[c].res \in ResultType
        /\ callers[c].res.status \in DispatchStatus
        /\ callers[c].to \in DispatchStatus \cup {"target_replaced"}
    BY <1>18, BusyCaller DEF PersistDispatchResult
  <2>3. ledger[r] \in RowType /\ ledger[r].verification = "none"
    BY <1>18, <2>1 DEF PersistDispatchResult, MayPersistResult, PreDispatch,
       LedgerGood, GoodRow, FINAL_STATES
  <2>4. [ledger[r] EXCEPT !.state = callers[c].to, !.dispatch = callers[c].res]
          \in GoodRow
    BY <2>2, <2>3, Places DEF GoodRow, RowType, DispatchStatus
  <2>5. LedgerGood' /\ LogType'
    BY <1>18, <2>1, <2>4, WriteGood DEF PersistDispatchResult
  <2>6. CallersGood'
    BY <1>18, <1>l, <2>1, <2>2, GotoWithGood, Places DEF PersistDispatchResult
  <2> QED
    BY <1>18, <2>5, <2>6, Keep DEF PersistDispatchResult
<1>19. CASE ResultImmutable(c)
  <2>1. r \in Requests
    BY <1>0, <1>19 DEF ResultImmutable
  <2>2. CallersGood' /\ RepliesType' /\ LoopType'
    BY <1>19, <2>1, IdleGood, ReplyType, LoopMoves DEF ResultImmutable
  <2> QED
    BY <1>19, <2>2, Keep DEF ResultImmutable
<1>20. CASE Answer(c)
  <2>1. r \in Requests /\ callers[c].res.status \in DispatchStatus
    BY <1>0, <1>20, BusyCaller DEF Answer
  <2>2. CallersGood' /\ LoopType'
    BY <1>20, IdleGood, LoopMoves DEF Answer
  <2>3. RepliesType'
    BY <1>20, <2>1 DEF Answer, RepliesType
  <2>4. [IdleTask EXCEPT !.pc = "scheduled", !.req = r] \in GoodTask
    BY <2>1 DEF IdleTask, GoodTask, TaskType, TaskPc
  <2>5. TasksGood'
    BY <1>20, <2>4 DEF Answer, TasksGood, Tasks
  <2> QED
    BY <1>20, <2>2, <2>3, <2>5, Keep DEF Answer
<1> QED
  BY <1>1, <1>2, <1>3, <1>4, <1>5, <1>6, <1>7, <1>8, <1>9, <1>10, <1>11, <1>12,
     <1>13, <1>14, <1>15, <1>16, <1>17, <1>18, <1>19, <1>20 DEF Proceed

\* The start and the failure of a dispatch coroutine keep the types.
LEMMA DispatchType ==
    ASSUME TypeInv, NEW c \in Callers, Dispatch(c)
    PROVE  TypeInv'
<1> USE DEF TypeInv, durable, process, bounds
<1>1. ASSUME NEW r \in Requests, NEW d \in Digests, Deliver(c, r, d)
      PROVE  TypeInv'
  <2>1. [IdleCaller EXCEPT !.pc = "accepted", !.req = r, !.digest = d]
          \in GoodCaller
    BY DEF IdleCaller, GoodCaller, CallerType, CallerPc, NoResult, Result,
           ResultType
  <2>2. CallersGood' /\ BoundsType' /\ LoopType'
    BY <1>1, <2>1, LoopMoves DEF Deliver, CallersGood, BoundsType
  <2>3. AuditType'
    BY <1>1 DEF Deliver, Record, AuditType, AuditStatus
  <2> QED
    BY <1>1, <2>2, <2>3, Keep DEF Deliver
<1>2. CASE Proceed(c)
  BY <1>2, ProceedType
<1>3. CASE DispatchAborts(c)
  <2>1. callers[c].req \in Requests
    BY <1>3, BusyCaller DEF DispatchAborts
  <2>2. CallersGood' /\ RepliesType' /\ LoopType'
    BY <1>3, <2>1, IdleGood, ReplyType, LoopMoves DEF DispatchAborts
  <2>3. BoundsType'
    BY <1>3 DEF DispatchAborts, BoundsType
  <2> QED
    BY <1>3, <2>2, <2>3, Keep DEF DispatchAborts
<1> QED
  BY <1>1, <1>2, <1>3 DEF Dispatch

\* What a busy task is known to hold.
LEMMA BusyTask ==
    ASSUME TasksGood, NEW t \in Tasks
    PROVE  /\ tasks[t] \in TaskType
           /\ tasks[t].pc # "idle" => tasks[t].req \in Requests
           /\ tasks[t].pc \in {"concluding", "concluded"}
                => tasks[t].verdict \in VerificationStatus
  BY DEF TasksGood, GoodTask

\* A step of a verification task keeps the types.
LEMMA VerifyType ==
    ASSUME TypeInv, NEW t \in Tasks, Verify(t)
    PROVE  TypeInv'
<1> DEFINE r == tasks[t].req
<1> USE DEF TypeInv, durable, process, bounds, TaskRunning, TaskResumed, LoopHead
<1>0. tasks[t].pc # "idle" => r \in Requests
  BY BusyTask
<1>p. /\ "begun" \in TaskPc /\ "starting" \in TaskPc /\ "observing" \in TaskPc
      /\ "concluded" \in TaskPc /\ "querying" \in TaskPc /\ "polling" \in TaskPc
      /\ VerificationStatus = {"succeeded", "verification_failed",
                               "outcome_unknown", "target_replaced"}
  BY DEF TaskPc, VerificationStatus
<1>1. CASE BeginVerification(t)
  <2>1. r \in Requests
    BY <1>0, <1>1 DEF BeginVerification
  <2>2. ledger[r] \in GoodRow /\ ledger[r].verification = "none"
    BY <1>1, <2>1 DEF BeginVerification, OwnsVerification, LedgerGood
  <2>3. CASE ledger[r].state = "verifying"
    BY <1>1, <1>p, <2>1, <2>3, TaskGotoGood, LoopMoves, Keep DEF BeginVerification
  <2>4. CASE ledger[r].state # "verifying"
    <3>1. ledger[r].state \in {"succeeded", "outcome_unknown"}
      BY <1>1, <2>4 DEF BeginVerification, OwnsVerification
    <3>2. [ledger[r] EXCEPT !.state = "verifying"] \in GoodRow
      BY <2>2, <3>1 DEF GoodRow, RowType, LedgerState
    <3>3. LedgerGood' /\ LogType'
      BY <1>1, <2>1, <2>4, <3>2, WriteGood DEF BeginVerification, Move
    <3>4. TasksGood' /\ LoopType'
      BY <1>1, <1>p, <2>1, TaskGotoGood, LoopMoves DEF BeginVerification
    <3> QED
      BY <1>1, <3>3, <3>4, Keep DEF BeginVerification
  <2> QED
    BY <2>3, <2>4
<1>2. CASE SkipVerification(t)
  BY <1>2, IdleTaskGood, Keep DEF SkipVerification
<1>3. CASE AuditBegin(t)
  <2>1. TasksGood'
    BY <1>0, <1>3, <1>p, TaskGotoGood DEF AuditBegin
  <2>2. AuditType'
    BY <1>0, <1>3 DEF AuditBegin, Record, AuditType, AuditStatus
  <2> QED
    BY <1>3, <2>1, <2>2, Keep DEF AuditBegin
<1>4. CASE VerifierRaises(t)
  BY <1>0, <1>4, <1>p, ConcludeGood, Keep DEF VerifierRaises
<1>5. CASE Poll(t)
  <2>1. TasksGood' /\ LoopType'
    BY <1>0, <1>5, <1>p, TaskGotoGood, LoopMoves DEF Poll
  <2> QED
    BY <1>5, <2>1, Keep DEF Poll
<1>6. CASE DeadlinePasses(t)
  <2>1. TasksGood' /\ LoopType'
    BY <1>0, <1>6, <1>p, ConcludeGood DEF DeadlinePasses
  <2> QED
    BY <1>6, <2>1, Keep DEF DeadlinePasses
<1>7. CASE ObserveReplaced(t)
  BY <1>0, <1>7, <1>p, ConcludeGood, Keep DEF ObserveReplaced
<1>8. CASE ObserveTarget(t)
  <2>1. PICK seen \in {tasks[t].seen}
                         \cup (IF replaced[r] THEN {} ELSE {guest[r]}) :
               tasks' = [tasks EXCEPT ![t].pc = "querying", ![t].seen = seen]
    BY <1>8 DEF ObserveTarget
  <2>2. r \in Requests /\ tasks[t] \in TaskType
    BY <1>0, <1>8, BusyTask DEF ObserveTarget
  <2>3. seen \in {"none", "running", "down"}
    BY <2>1, <2>2 DEF TaskType, ProviderType
  <2> DEFINE k == [tasks[t] EXCEPT !.pc = "querying", !.seen = seen]
  <2>4. k \in GoodTask
    BY <2>2, <2>3, <1>p DEF GoodTask, TaskType
  <2>5. tasks' = [tasks EXCEPT ![t] = k]
    BY <2>1 DEF TasksGood
  <2> HIDE DEF k
  <2>6. TasksGood'
    BY <2>4, <2>5 DEF TasksGood
  <2> QED
    BY <1>8, <2>6, Keep DEF ObserveTarget
<1>9. CASE QueryFailed(t)
  BY <1>0, <1>9, <1>p, ConcludeGood, Keep DEF QueryFailed
<1>10. CASE QuerySucceeded(t)
  BY <1>0, <1>10, <1>p, ConcludeGood, Keep DEF QuerySucceeded
<1>11. CASE QueryAgain(t)
  <2>1. PICK ok \in {tasks[t].ok, tasks[t].ok \/ ptask[r] = "ok"} :
               tasks' = [tasks EXCEPT ![t].pc = "polling", ![t].ok = ok]
    BY <1>11 DEF QueryAgain
  <2>2. r \in Requests /\ tasks[t] \in TaskType
    BY <1>0, <1>11, BusyTask DEF QueryAgain
  <2>3. tasks[t].ok \in BOOLEAN
    BY <2>2 DEF TaskType
  <2>4. ok \in BOOLEAN
    BY <2>1, <2>3, Zenon
  <2> DEFINE k == [tasks[t] EXCEPT !.pc = "polling", !.ok = ok]
  <2>5. k \in GoodTask
    BY <2>2, <2>4, <1>p DEF GoodTask, TaskType
  <2>6. tasks' = [tasks EXCEPT ![t] = k]
    BY <2>1 DEF TasksGood
  <2> HIDE DEF k
  <2>7. TasksGood'
    BY <2>5, <2>6 DEF TasksGood
  <2> QED
    BY <1>11, <2>7, Keep DEF QueryAgain
<1>12. CASE PersistVerificationResult(t)
  <2>1. r \in Requests /\ tasks[t].verdict \in VerificationStatus
    BY <1>12, BusyTask DEF PersistVerificationResult
  <2>2. ledger[r] \in GoodRow /\ ledger[r].state = "verifying"
    BY <1>12, <2>1 DEF PersistVerificationResult, LedgerGood
  <2>3. [ledger[r] EXCEPT !.state = VerificationState(tasks[t].verdict),
                          !.verification = tasks[t].verdict] \in GoodRow
    BY <2>1, <2>2, <1>p DEF GoodRow, RowType, LedgerState, VerificationState,
       FINAL_STATES
  <2>4. LedgerGood' /\ LogType'
    BY <1>12, <2>1, <2>3, WriteGood DEF PersistVerificationResult
  <2>5. TasksGood'
    BY <1>12, <1>p, <2>1, TaskGotoGood DEF PersistVerificationResult
  <2> QED
    BY <1>12, <2>4, <2>5, Keep DEF PersistVerificationResult
<1>13. CASE AuditVerification(t)
  <2>1. r \in Requests /\ tasks[t].verdict \in VerificationStatus
    BY <1>13, BusyTask DEF AuditVerification
  <2>2. {VerificationAudit(tasks[t].verdict)} \in SUBSET AuditStatus
    BY <2>1, <1>p DEF VerificationAudit, AuditStatus
  <2>3. AuditType' /\ TasksGood' /\ LoopType'
    BY <1>13, <2>1, <2>2, RecordType, IdleTaskGood, LoopMoves DEF AuditVerification
  <2> QED
    BY <1>13, <2>3, Keep DEF AuditVerification
<1>14. CASE TaskAborts(t)
  <2>1. TasksGood' /\ LoopType'
    BY <1>14, IdleTaskGood, LoopMoves DEF TaskAborts
  <2>2. BoundsType'
    BY <1>14 DEF TaskAborts, BoundsType
  <2> QED
    BY <1>14, <2>1, <2>2, Keep DEF TaskAborts
<1> QED
  BY <1>1, <1>2, <1>3, <1>4, <1>5, <1>6, <1>7, <1>8, <1>9, <1>10, <1>11, <1>12,
     <1>13, <1>14 DEF Verify

\* Crash, restart and recovery keep the types.
LEMMA ProcessSteps ==
    ASSUME TypeInv, Crash \/ ReconcileStartup \/ ScheduleStartupRecovery
    PROVE  TypeInv'
<1> USE DEF TypeInv, durable, bounds
<1>1. CASE Crash
  <2>1. IdleCaller \in GoodCaller /\ IdleTask \in GoodTask
    BY DEF IdleCaller, GoodCaller, CallerType, CallerPc, NoResult, Result,
           ResultType, IdleTask, GoodTask, TaskType, TaskPc
  <2>2. CallersGood' /\ TasksGood' /\ ProcessType' /\ BoundsType' /\ LoopType'
    BY <1>1, <2>1, LoopMoves DEF Crash, CallersGood, TasksGood, ProcessType,
       BoundsType
  <2> QED
    BY <1>1, <2>2, Keep DEF Crash
<1>2. CASE ReconcileStartup
  <2>1. ASSUME NEW r \in Requests, ledger[r].state = "dispatching"
        PROVE  UnknownAfterRestart(ledger[r]) \in GoodRow
    <3>1. ledger[r] \in RowType /\ ledger[r].verification = "none"
      BY <2>1 DEF LedgerGood, GoodRow, FINAL_STATES
    <3>2. /\ Result("outcome_unknown", FALSE) \in ResultType
          /\ Result("outcome_unknown", FALSE).status \in DispatchStatus
      BY Places
    <3> QED
      BY <3>1, <3>2 DEF UnknownAfterRestart, GoodRow, RowType, LedgerState
  <2>2. LedgerGood'
    BY <1>2, <2>1 DEF ReconcileStartup, LedgerGood
  <2>3. LogType'
    BY <1>2 DEF ReconcileStartup, LogType, LedgerState
  <2>4. ProcessType'
    BY <1>2 DEF ReconcileStartup, ProcessType
  <2> QED
    BY <1>2, <2>2, <2>3, <2>4, Keep DEF ReconcileStartup
<1>3. CASE ScheduleStartupRecovery
  <2>1. \A r \in Requests : [IdleTask EXCEPT !.pc = "scheduled", !.req = r,
                                             !.recovery = TRUE] \in GoodTask
    BY DEF IdleTask, GoodTask, TaskType, TaskPc
  <2>2. TasksGood'
    BY <1>3, <2>1 DEF ScheduleStartupRecovery, TasksGood
  <2>3. AuditType' /\ ProcessType'
    BY <1>3 DEF ScheduleStartupRecovery, AuditType, AuditStatus, ProcessType
  <2> QED
    BY <1>3, <2>2, <2>3, Keep DEF ScheduleStartupRecovery
<1> QED
  BY <1>1, <1>2, <1>3

\* The provider and the clock keep the types.
LEMMA EnvironmentType ==
    ASSUME TypeInv, NEW r \in Requests, Environment(r)
    PROVE  TypeInv'
<1> USE DEF TypeInv, durable, process, bounds
<1>1. CASE ProviderReboots(r)
  <2>1. ProviderType'
    BY <1>1 DEF ProviderReboots, ProviderType
  <2> QED
    BY <1>1, <2>1, Keep DEF ProviderReboots
<1>2. CASE PostLost(r)
  <2>1. ProviderType'
    BY <1>2 DEF PostLost, ProviderType
  <2> QED
    BY <1>2, <2>1, Keep DEF PostLost
<1>3. CASE GuestStops(r)
  <2>1. ProviderType'
    BY <1>3 DEF GuestStops, ProviderType
  <2> QED
    BY <1>3, <2>1, Keep DEF GuestStops
<1>4. CASE GuestReturns(r)
  <2>1. ProviderType'
    BY <1>4 DEF GuestReturns, ProviderType
  <2> QED
    BY <1>4, <2>1, Keep DEF GuestReturns
<1>5. CASE TaskEnds(r)
  <2>1. \E end \in {"failed", "ok"} : ptask' = [ptask EXCEPT ![r] = end]
    BY <1>5 DEF TaskEnds
  <2>2. ProviderType'
    BY <1>5, <2>1 DEF TaskEnds, ProviderType
  <2> QED
    BY <1>5, <2>2, Keep DEF TaskEnds
<1>6. CASE TargetReplaced(r)
  <2>1. ProviderType'
    BY <1>6 DEF TargetReplaced, ProviderType
  <2> QED
    BY <1>6, <2>1, Keep DEF TargetReplaced
<1>7. CASE Expire(r)
  <2>1. ProviderType'
    BY <1>7 DEF Expire, ProviderType, provider
  <2> QED
    BY <1>7, <2>1, Keep DEF Expire
<1> QED
  BY <1>1, <1>2, <1>3, <1>4, <1>5, <1>6, <1>7 DEF Environment

\* Every step keeps the types.
LEMMA NextType == ASSUME TypeInv, [Next]_vars PROVE TypeInv'
<1>1. CASE UNCHANGED vars
  BY <1>1, Keep DEF vars, TypeInv, durable
<1>2. CASE Next
  BY <1>1, <1>2, DispatchType, VerifyType, ProcessSteps, EnvironmentType
     DEF Next, Quiescent
<1> QED
  BY <1>1, <1>2

\* Type correctness, and with it: Core never stores a row, an audit event or an
\* answer that its own decoders and enumerations would reject.
THEOREM TypeCorrect == Spec => [](TypeOK /\ RowsDecode)
<1>1. Spec => []TypeInv
  BY InitType, NextType, PTL DEF Spec
<1> QED
  BY <1>1, TypeInvStrong, PTL

----------------------------------------------------------------------------
(* The dispatch barrier.                                                   *)

\* The places between the barrier and the reboot POST.
Holding == {"crossed", "checking"}

\* The row is past the states from which a dispatch may still start.
Past(r) == ledger[r].state \notin {"absent"} \cup PreDispatch

\* A request that is not past the barrier was neither crossed nor sent.
UncrossedBefore ==
    \A r \in Requests : ~Past(r) => posts[r] = 0 /\ BarrierCrossings(r) = {}

\* A connection that is about to send holds a crossed and unsent request, ...
HoldersUnsent ==
    \A c \in Callers : callers[c].pc \in Holding =>
        /\ Past(callers[c].req)
        /\ posts[callers[c].req] = 0
        /\ BarrierCrossings(callers[c].req) # {}

\* ... and is the only one that does.
HolderUnique ==
    \A c, d \in Callers :
        /\ callers[c].pc \in Holding /\ callers[d].pc \in Holding
        /\ callers[c].req = callers[d].req
        => c = d

CrossedOnce ==
    \A r \in Requests : \A i, j \in BarrierCrossings(r) : i = j

SentOnce ==
    \A r \in Requests : posts[r] <= 1 /\ (posts[r] > 0 => BarrierCrossings(r) # {})

BarrierInv ==
    /\ UncrossedBefore /\ HoldersUnsent /\ HolderUnique /\ CrossedOnce
    /\ SentOnce /\ TransitionsValid

\* No connection enters the stretch between barrier and POST or changes its
\* request there.
QuietCallers ==
    \A d \in Callers : callers'[d].pc \in Holding =>
        callers[d].pc \in Holding /\ callers'[d].req = callers[d].req

\* A row that is not decided takes a recorded step that crosses no barrier.
Advance(r) ==
    /\ <<ledger[r].state, ledger'[r].state>> \in ALLOWED_LEDGER_TRANSITIONS
    /\ ledger'[r].state # "dispatching"
    /\ log'[r] = Append(log[r], <<ledger[r].state, ledger'[r].state>>)

Still(r) == ledger'[r].state = ledger[r].state /\ log'[r] = log[r]

\* A step that crosses no barrier and sends nothing.
Quiet ==
    /\ QuietCallers
    /\ UNCHANGED posts
    /\ \A r \in Requests : Still(r) \/ Advance(r)

\* The barrier invariant says that a POST is sent once, after its crossing.
LEMMA BarrierInvStrong ==
    ASSUME TypeInv, BarrierInv
    PROVE  AtMostOneReboot /\ BarrierPrecedesReboot /\ TransitionsValid
<1>1. AtMostOneReboot /\ TransitionsValid
  BY DEF BarrierInv, SentOnce, AtMostOneReboot
<1>2. ASSUME NEW r \in Requests, posts[r] > 0
      PROVE  /\ \E i \in BarrierCrossings(r) : BarrierCrossings(r) = {i}
             /\ ledger[r].state \notin {"absent"} \cup PreDispatch
  <2>1. PICK i \in BarrierCrossings(r) : TRUE
    BY <1>2 DEF BarrierInv, SentOnce
  <2>2. BarrierCrossings(r) = {i}
    BY <2>1 DEF BarrierInv, CrossedOnce
  <2>3. posts[r] # 0
    BY <1>2, SMT DEF TypeInv, PostsType
  <2>4. Past(r)
    BY <2>3 DEF BarrierInv, UncrossedBefore
  <2> QED
    BY <2>2, <2>4 DEF Past
<1> QED
  BY <1>1, <1>2 DEF BarrierPrecedesReboot

\* Nothing is claimed, so nothing is crossed or sent.
LEMMA InitBarrier == Init => BarrierInv
<1> SUFFICES ASSUME Init PROVE BarrierInv
  OBVIOUS
<1>1. \A r \in Requests : /\ log[r] = << >> /\ ledger[r].state = "absent"
                          /\ posts[r] = 0
  BY DEF Init, AbsentRow
<1>e. 1..Len(<< >>) = {}
  BY Len(<< >>) = 0
<1>2. \A r \in Requests : BarrierCrossings(r) = {}
  BY <1>1, <1>e DEF BarrierCrossings
<1>3. TransitionsValid
  BY <1>1, <1>e DEF TransitionsValid, TransitionSequenceValid
<1>4. \A c \in Callers : callers[c].pc = "idle"
  BY DEF Init, IdleCaller
<1> QED
  BY <1>1, <1>2, <1>3, <1>4 DEF BarrierInv, UncrossedBefore, HoldersUnsent,
     HolderUnique, CrossedOnce, SentOnce, Holding

\* What one more recorded transition does to the crossings of a request.
LEMMA AppendCrossings ==
    ASSUME LogType, NEW r \in Requests, NEW e \in LedgerState \X LedgerState,
           log'[r] = Append(log[r], e)
    PROVE  /\ e[2] # "dispatching" => BarrierCrossings(r)' = BarrierCrossings(r)
           /\ e[2] = "dispatching"
                => BarrierCrossings(r)' = BarrierCrossings(r) \cup {Len(log[r]) + 1}
<1> DEFINE n == Len(log[r])
<1>1. log[r] \in Seq(LedgerState \X LedgerState) /\ n \in Nat
  BY DEF LogType
<1>2. /\ Len(log'[r]) = n + 1
      /\ \A i \in 1..n : log'[r][i] = log[r][i]
      /\ log'[r][n + 1] = e
  BY <1>1
<1>3. 1..(n + 1) = 1..n \cup {n + 1}
  BY <1>1
<1>4. BarrierCrossings(r)' = {i \in 1..(n + 1) : log'[r][i][2] = "dispatching"}
  BY <1>2 DEF BarrierCrossings
<1>5. BarrierCrossings(r) = {i \in 1..n : log[r][i][2] = "dispatching"}
  BY DEF BarrierCrossings
<1> HIDE DEF n
<1> QED
  BY <1>2, <1>3, <1>4, <1>5

\* A recorded allowed transition extends a valid chain.
LEMMA AppendValid ==
    ASSUME LogType, LedgerGood, NEW r \in Requests, TransitionSequenceValid(r),
           <<ledger[r].state, ledger'[r].state>> \in ALLOWED_LEDGER_TRANSITIONS,
           log'[r] = Append(log[r], <<ledger[r].state, ledger'[r].state>>)
    PROVE  TransitionSequenceValid(r)'
<1> DEFINE n == Len(log[r])
<1> DEFINE e == <<ledger[r].state, ledger'[r].state>>
<1>1. log[r] \in Seq(LedgerState \X LedgerState) /\ n \in Nat
  BY DEF LogType
<1>2. /\ Len(log'[r]) = n + 1
      /\ \A i \in 1..n : log'[r][i] = log[r][i]
      /\ log'[r][n + 1] = e
      /\ log'[r] # << >>
  BY <1>1
<1>3. e[1] = ledger[r].state /\ e[2] = ledger'[r].state
  OBVIOUS
<1>4. ledger[r].state = IF n = 0 THEN "absent" ELSE log[r][n][2]
  BY <1>1 DEF TransitionSequenceValid
<1>5. ASSUME NEW i \in 1..(n + 1)
      PROVE  /\ log'[r][i] \in ALLOWED_LEDGER_TRANSITIONS
             /\ log'[r][i][1] = IF i = 1 THEN "absent" ELSE log'[r][i-1][2]
  <2>1. CASE i \in 1..n
    <3>1. i # 1 => i - 1 \in 1..n
      BY <1>1, <2>1
    <3>2. log[r][i] \in ALLOWED_LEDGER_TRANSITIONS
          /\ log[r][i][1] = IF i = 1 THEN "absent" ELSE log[r][i-1][2]
      BY <2>1 DEF TransitionSequenceValid
    <3> QED
      BY <1>2, <2>1, <3>1, <3>2
  <2>2. CASE i = n + 1
    <3>1. CASE n = 0
      BY <1>2, <1>3, <1>4, <2>2, <3>1
    <3>2. CASE n # 0
      <4>1. i # 1 /\ i - 1 = n /\ n \in 1..n
        BY <1>1, <2>2, <3>2
      <4>2. log'[r][i-1][2] = log[r][n][2]
        BY <1>2, <4>1
      <4> HIDE DEF n, e
      <4> QED
        BY <1>2, <1>3, <1>4, <2>2, <3>2, <4>1, <4>2 DEF e
    <3> QED
      BY <3>1, <3>2
  <2> QED
    BY <1>1, <2>1, <2>2
<1>6. ledger'[r].state = log'[r][Len(log'[r])][2]
  BY <1>1, <1>2, <1>3
<1> HIDE DEF n, e
<1> QED
  BY <1>2, <1>5, <1>6 DEF TransitionSequenceValid

\* A step that crosses no barrier and sends nothing keeps the invariant.
LEMMA QuietBarrier ==
    ASSUME TypeInv, BarrierInv, Quiet
    PROVE  BarrierInv'
<1>1. ASSUME NEW r \in Requests
      PROVE  /\ BarrierCrossings(r)' = BarrierCrossings(r)
             /\ Past(r) => Past(r)'
             /\ TransitionSequenceValid(r)'
  <2>1. TransitionSequenceValid(r)
    BY DEF BarrierInv, TransitionsValid
  <2>2. CASE Still(r)
    BY <2>1, <2>2 DEF Still, BarrierCrossings, Past, TransitionSequenceValid
  <2>3. CASE Advance(r)
    <3> DEFINE e == <<ledger[r].state, ledger'[r].state>>
    <3>1. e \in ALLOWED_LEDGER_TRANSITIONS /\ e[2] # "dispatching"
      BY <2>3 DEF Advance
    <3>2. e \in LedgerState \X LedgerState
      BY <3>1 DEF ALLOWED_LEDGER_TRANSITIONS, LedgerState, PreDispatch,
         FINAL_STATES
    <3>3. BarrierCrossings(r)' = BarrierCrossings(r)
      BY <2>3, <3>1, <3>2, AppendCrossings DEF Advance, TypeInv
    <3>4. Past(r) => Past(r)'
      BY <2>3 DEF Advance, ALLOWED_LEDGER_TRANSITIONS, Past, PreDispatch,
         FINAL_STATES
    <3>5. TransitionSequenceValid(r)'
      BY <2>1, <2>3, AppendValid DEF Advance, TypeInv
    <3> QED
      BY <3>3, <3>4, <3>5
  <2> QED
    BY <2>2, <2>3 DEF Quiet
<1>2. ASSUME NEW c \in Callers, callers'[c].pc \in Holding
      PROVE  /\ callers[c].pc \in Holding /\ callers'[c].req = callers[c].req
             /\ callers[c].req \in Requests
  <2>1. callers[c].pc \in Holding /\ callers'[c].req = callers[c].req
    BY <1>2 DEF Quiet, QuietCallers
  <2> QED
    BY <2>1, BusyCaller DEF TypeInv, Holding
<1>3. UncrossedBefore'
  BY <1>1 DEF BarrierInv, UncrossedBefore, Quiet
<1>4. HoldersUnsent'
  BY <1>1, <1>2 DEF BarrierInv, HoldersUnsent, Quiet
<1>5. HolderUnique'
  BY <1>2 DEF BarrierInv, HolderUnique
<1>6. CrossedOnce' /\ SentOnce'
  BY <1>1 DEF BarrierInv, CrossedOnce, SentOnce, Quiet
<1> QED
  BY <1>1, <1>3, <1>4, <1>5, <1>6 DEF BarrierInv, TransitionsValid

\* Crossing the barrier: only one connection can, and only once.
LEMMA CrossBarrier ==
    ASSUME TypeInv, BarrierInv, NEW c \in Callers, MarkDispatching(c)
    PROVE  BarrierInv'
<1>r. PICK r \in Requests : r = callers[c].req
  BY BusyCaller DEF TypeInv, MarkDispatching, Running, At
<1>1. r \in Requests /\ ledger[r].state = "revalidated"
  BY <1>r DEF MarkDispatching
<1>2. /\ \A q \in Requests \ {r} : ledger'[q] = ledger[q] /\ log'[q] = log[q]
      /\ ledger'[r].state = "dispatching"
      /\ log'[r] = Append(log[r], <<"revalidated", "dispatching">>)
      /\ posts' = posts
  <2>1. ledger[r] \in RowType
    BY <1>1 DEF TypeInv, LedgerGood, GoodRow
  <2> QED
    BY <1>1, <1>r, <2>1 DEF MarkDispatching, Move, Write, TypeInv, LedgerGood, LogType,
       RowType
<1>3. posts[r] = 0 /\ BarrierCrossings(r) = {}
  BY <1>1 DEF BarrierInv, UncrossedBefore, Past, PreDispatch
<1>4. \A d \in Callers : callers[d].pc \in Holding => callers[d].req # r
  BY <1>1 DEF BarrierInv, HoldersUnsent, Past, PreDispatch
<1>5. /\ \A d \in Callers \ {c} : callers'[d] = callers[d]
      /\ callers'[c].req = r
  BY <1>r DEF MarkDispatching, Goto, TypeInv, CallersGood, GoodCaller, CallerType
<1>6. BarrierCrossings(r)' = {Len(log[r]) + 1}
  <2>1. <<"revalidated", "dispatching">> \in LedgerState \X LedgerState
    BY DEF LedgerState
  <2> QED
    BY <1>1, <1>2, <1>3, <2>1, AppendCrossings DEF TypeInv
<1>7. \A q \in Requests \ {r} :
         /\ BarrierCrossings(q)' = BarrierCrossings(q)
         /\ Past(q)' = Past(q)
         /\ TransitionSequenceValid(q)' = TransitionSequenceValid(q)
  BY <1>2 DEF BarrierCrossings, Past, TransitionSequenceValid
<1>8. Past(r)'
  BY <1>2 DEF Past, PreDispatch
<1>9. TransitionSequenceValid(r)'
  <2>1. TransitionSequenceValid(r)
    BY <1>1 DEF BarrierInv, TransitionsValid
  <2>2. <<"revalidated", "dispatching">> \in ALLOWED_LEDGER_TRANSITIONS
    BY DEF ALLOWED_LEDGER_TRANSITIONS
  <2> QED
    BY <1>1, <1>2, <2>1, <2>2, AppendValid DEF TypeInv
<1>10. \A d \in Callers : callers[d].pc \in Holding => callers[d].req \in Requests
  BY BusyCaller DEF TypeInv, Holding
<1>11. UncrossedBefore'
  BY <1>2, <1>7, <1>8 DEF BarrierInv, UncrossedBefore
<1>12. HoldersUnsent'
  <2> SUFFICES ASSUME NEW d \in Callers, callers'[d].pc \in Holding
               PROVE  /\ Past(callers[d].req)'
                      /\ posts'[callers'[d].req] = 0
                      /\ BarrierCrossings(callers[d].req)' # {}
    BY DEF HoldersUnsent
  <2>1. CASE d = c
    <3>1. BarrierCrossings(r)' # {}
      BY <1>6
    <3> QED
      BY <1>2, <1>3, <1>5, <1>8, <2>1, <3>1
  <2>2. CASE d # c
    <3>1. PICK q \in Requests \ {r} : q = callers[d].req /\ callers'[d].req = q
      BY <1>4, <1>5, <1>10, <2>2
    <3>2. Past(q) /\ posts[q] = 0 /\ BarrierCrossings(q) # {}
      BY <1>5, <2>2, <3>1 DEF BarrierInv, HoldersUnsent
    <3>3. Past(q)' /\ posts'[q] = 0 /\ BarrierCrossings(q)' # {}
      BY <1>2, <1>7, <3>2
    <3> QED
      BY <3>1, <3>3
  <2> QED
    BY <2>1, <2>2
<1>13. HolderUnique'
  BY <1>4, <1>5 DEF BarrierInv, HolderUnique
<1>14. CrossedOnce'
  BY <1>6, <1>7 DEF BarrierInv, CrossedOnce
<1>15. SentOnce'
  BY <1>2, <1>3, <1>6, <1>7 DEF BarrierInv, SentOnce
<1> QED
  BY <1>7, <1>9, <1>11, <1>12, <1>13, <1>14, <1>15 DEF BarrierInv, TransitionsValid

\* Sending the reboot: the sender held an unsent request and lets go of it.
LEMMA SendBarrier ==
    ASSUME TypeInv, BarrierInv, NEW c \in Callers, SendReboot(c)
    PROVE  BarrierInv'
<1> DEFINE r == callers[c].req
<1>1. callers[c].pc \in Holding /\ r \in Requests
  BY BusyCaller DEF TypeInv, SendReboot, Resumed, At, Holding
<1>2. Past(r) /\ posts[r] = 0 /\ BarrierCrossings(r) # {}
  BY <1>1 DEF BarrierInv, HoldersUnsent
<1>3. posts'[r] = 1 /\ \A q \in Requests \ {r} : posts'[q] = posts[q]
  BY <1>1, <1>2 DEF SendReboot, TypeInv, PostsType
<1>4. ledger' = ledger /\ log' = log
  BY DEF SendReboot, durable
<1>5. /\ \A d \in Callers \ {c} : callers'[d] = callers[d]
      /\ callers'[c].pc \notin Holding
  BY DEF SendReboot, Goto, TypeInv, CallersGood, GoodCaller, CallerType, Holding
<1>6. \A d \in Callers \ {c} : callers[d].pc \in Holding => callers[d].req # r
  BY <1>1 DEF BarrierInv, HolderUnique
<1>7. \A q : /\ BarrierCrossings(q)' = BarrierCrossings(q)
             /\ Past(q)' = Past(q)
             /\ TransitionSequenceValid(q)' = TransitionSequenceValid(q)
  BY <1>4 DEF BarrierCrossings, Past, TransitionSequenceValid
<1>8. \A d \in Callers : callers[d].pc \in Holding => callers[d].req \in Requests
  BY BusyCaller DEF TypeInv, Holding
<1> HIDE DEF r
<1>9. UncrossedBefore'
  BY <1>2, <1>3, <1>7 DEF BarrierInv, UncrossedBefore
<1>10. HoldersUnsent'
  BY <1>3, <1>5, <1>6, <1>7, <1>8 DEF BarrierInv, HoldersUnsent
<1>11. HolderUnique'
  BY <1>5 DEF BarrierInv, HolderUnique
<1>12. CrossedOnce'
  BY <1>7 DEF BarrierInv, CrossedOnce
<1>13. SentOnce'
  BY <1>2, <1>3, <1>7 DEF BarrierInv, SentOnce
<1> QED
  BY <1>7, <1>9, <1>10, <1>11, <1>12, <1>13 DEF BarrierInv, TransitionsValid

----------------------------------------------------------------------------
(* All the other steps are quiet.                                          *)

\* How a connection may move without entering the stretch before the POST.
LEMMA CallerQuiet ==
    ASSUME CallersGood, NEW c \in Callers
    PROVE  /\ \A pc : pc \notin Holding /\ Goto(c, pc) => QuietCallers
           /\ \A pc : callers[c].pc \in Holding /\ Goto(c, pc) => QuietCallers
           /\ \A pc, res, to : pc \notin Holding /\ GotoWith(c, pc, res, to)
                 => QuietCallers
           /\ callers' = [callers EXCEPT ![c] = IdleCaller] => QuietCallers
           /\ UNCHANGED callers => QuietCallers
<1>1. ASSUME NEW pc, Goto(c, pc), pc \notin Holding \/ callers[c].pc \in Holding
      PROVE  QuietCallers
  BY <1>1 DEF CallersGood, GoodCaller, CallerType, Goto, QuietCallers
<1>2. ASSUME NEW pc, NEW res, NEW to, pc \notin Holding, GotoWith(c, pc, res, to)
      PROVE  QuietCallers
  <2>1. callers[c] \in CallerType /\ callers \in [Callers -> GoodCaller]
    BY DEF CallersGood, GoodCaller
  <2>2. callers'[c].pc = pc /\ \A d \in Callers \ {c} : callers'[d] = callers[d]
    BY <1>2, <2>1 DEF GotoWith, CallerType
  <2> QED
    BY <1>2, <2>2 DEF QuietCallers
<1>3. ASSUME callers' = [callers EXCEPT ![c] = IdleCaller]
      PROVE  QuietCallers
  BY <1>3 DEF CallersGood, IdleCaller, QuietCallers, Holding
<1>4. UNCHANGED callers => QuietCallers
  BY DEF QuietCallers
<1> QED
  BY <1>1, <1>2, <1>3, <1>4

\* A ledger write that enters no dispatching state advances its row only.
LEMMA WriteQuiet ==
    ASSUME LedgerGood, LogType, NEW r \in Requests, NEW row, Write(r, row),
           row.state # "dispatching"
    PROVE  \A q \in Requests : Still(q) \/ Advance(q)
  BY DEF LedgerGood, LogType, Write, Still, Advance

\* A ledger that is left alone stands still.
LEMMA KeepQuiet == UNCHANGED <<ledger, log>> => \A q \in Requests : Still(q)
  BY DEF Still

\* The steps of a dispatch coroutine but the crossing and the sending.
LEMMA ProceedQuiet ==
    ASSUME TypeInv, NEW c \in Callers, Proceed(c)
    PROVE  Quiet \/ MarkDispatching(c) \/ SendReboot(c)
<1> USE DEF TypeInv, Quiet, durable, Running, Resumed, At, Holding
<1> DEFINE r == callers[c].req
<1>0. callers[c].pc # "idle" => r \in Requests
  BY BusyCaller
<1>1. CASE ClaimNew(c)
  <2>1. [AbsentRow EXCEPT !.state = "claimed",
                          !.digest = callers[c].digest].state = "claimed"
    BY DEF AbsentRow
  <2> QED
    BY <1>0, <1>1, <2>1, WriteQuiet, CallerQuiet DEF ClaimNew
<1>2. CASE ClaimAgain(c)
  BY <1>2, KeepQuiet, CallerQuiet DEF ClaimAgain
<1>3. CASE ClaimConflict(c)
  BY <1>3, KeepQuiet, CallerQuiet DEF ClaimConflict
<1>4. CASE Refuse(c)
  BY <1>4, KeepQuiet, CallerQuiet DEF Refuse
<1>5. CASE AwaitResolver(c)
  BY <1>5, KeepQuiet, CallerQuiet DEF AwaitResolver
<1>6. CASE ResolvedReplaced(c)
  BY <1>6, KeepQuiet, CallerQuiet DEF ResolvedReplaced
<1>7. CASE ResolvedUnavailable(c)
  BY <1>7, KeepQuiet, CallerQuiet DEF ResolvedUnavailable
<1>8. CASE ResolvedMatch(c)
  BY <1>8, KeepQuiet, CallerQuiet DEF ResolvedMatch
<1>9. CASE MarkRevalidated(c)
  <2>1. QuietCallers
    BY <1>9, CallerQuiet DEF MarkRevalidated
  <2>2. CASE ledger[r].state = "claimed"
    <3>1. ledger[r] \in RowType
      BY <1>0, <1>9 DEF MarkRevalidated, LedgerGood, GoodRow
    <3>2. [ledger[r] EXCEPT !.state = "revalidated"].state = "revalidated"
      BY <3>1 DEF RowType
    <3> QED
      BY <1>0, <1>9, <2>1, <2>2, <3>2, WriteQuiet DEF MarkRevalidated, Move
  <2>3. CASE ledger[r].state # "claimed"
    BY <1>9, <2>1, <2>3, KeepQuiet DEF MarkRevalidated
  <2> QED
    BY <2>2, <2>3
<1>10. CASE LoseBarrier(c)
  BY <1>10, KeepQuiet, CallerQuiet DEF LoseBarrier
<1>11. CASE AwaitHandler(c)
  BY <1>11, KeepQuiet, CallerQuiet DEF AwaitHandler
<1>12. CASE HandlerRefuses(c)
  BY <1>12, KeepQuiet, CallerQuiet DEF HandlerRefuses
<1>13. CASE RebootAccepted(c)
  BY <1>13, KeepQuiet, CallerQuiet DEF RebootAccepted
<1>14. CASE RebootUnknown(c)
  BY <1>14, KeepQuiet, CallerQuiet DEF RebootUnknown
<1>15. CASE AuditResult(c)
  BY <1>15, KeepQuiet, CallerQuiet DEF AuditResult
<1>16. CASE PersistDispatchResult(c)
  <2>1. r \in Requests /\ callers[c].to # "dispatching"
    BY <1>0, <1>16, BusyCaller DEF PersistDispatchResult, DispatchStatus
  <2>2. ledger[r] \in RowType
    BY <2>1 DEF LedgerGood, GoodRow
  <2>3. [ledger[r] EXCEPT !.state = callers[c].to,
                          !.dispatch = callers[c].res].state = callers[c].to
    BY <2>2 DEF RowType
  <2> QED
    BY <1>16, <2>1, <2>3, WriteQuiet, CallerQuiet DEF PersistDispatchResult
<1>17. CASE ResultImmutable(c)
  BY <1>17, KeepQuiet, CallerQuiet DEF ResultImmutable
<1>18. CASE Answer(c)
  BY <1>18, KeepQuiet, CallerQuiet DEF Answer
<1> QED
  BY <1>1, <1>2, <1>3, <1>4, <1>5, <1>6, <1>7, <1>8, <1>9, <1>10, <1>11, <1>12,
     <1>13, <1>14, <1>15, <1>16, <1>17, <1>18 DEF Proceed

\* Verification is read-only: its steps only ever advance their own row.
LEMMA VerifyQuiet ==
    ASSUME TypeInv, NEW t \in Tasks, Verify(t)
    PROVE  Quiet
<1> USE DEF TypeInv, Quiet, durable, TaskRunning, TaskResumed
<1> DEFINE r == tasks[t].req
<1>0. tasks[t].pc # "idle" => r \in Requests
  BY BusyTask
<1>1. UNCHANGED callers => QuietCallers
  BY DEF QuietCallers
<1>2. CASE BeginVerification(t)
  <2>1. CASE ledger[r].state = "verifying"
    BY <1>1, <1>2, <2>1, KeepQuiet DEF BeginVerification
  <2>2. CASE ledger[r].state # "verifying"
    <3>1. r \in Requests /\ ledger[r] \in RowType
      BY <1>0, <1>2 DEF BeginVerification, LedgerGood, GoodRow
    <3>2. [ledger[r] EXCEPT !.state = "verifying"].state = "verifying"
      BY <3>1 DEF RowType
    <3> QED
      BY <1>1, <1>2, <2>2, <3>1, <3>2, WriteQuiet DEF BeginVerification, Move
  <2> QED
    BY <2>1, <2>2
<1>3. CASE PersistVerificationResult(t)
  <2>1. r \in Requests /\ tasks[t].verdict \in VerificationStatus
    BY <1>3, BusyTask DEF PersistVerificationResult
  <2>2. ledger[r] \in RowType
    BY <2>1 DEF LedgerGood, GoodRow
  <2>3. VerificationState(tasks[t].verdict) # "dispatching"
    BY <2>1 DEF VerificationState, VerificationStatus
  <2>4. [ledger[r] EXCEPT !.state = VerificationState(tasks[t].verdict),
                          !.verification = tasks[t].verdict].state
          # "dispatching"
    BY <2>2, <2>3 DEF RowType
  <2> QED
    BY <1>1, <1>3, <2>1, <2>4, WriteQuiet DEF PersistVerificationResult
<1>4. CASE UNCHANGED <<ledger, log, callers, posts>>
  BY <1>1, <1>4, KeepQuiet
<1> QED
  BY <1>2, <1>3, <1>4 DEF Verify, SkipVerification, AuditBegin, VerifierRaises,
     Poll, DeadlinePasses, ObserveReplaced, ObserveTarget, QueryFailed,
     QuerySucceeded, QueryAgain, AuditVerification, TaskAborts

\* Crash, restart and recovery cross no barrier and send nothing.
LEMMA ProcessQuiet ==
    ASSUME TypeInv, Crash \/ ReconcileStartup \/ ScheduleStartupRecovery
    PROVE  Quiet
<1> USE DEF TypeInv, Quiet, durable
<1>1. UNCHANGED callers => QuietCallers
  BY DEF QuietCallers
<1>2. CASE Crash
  BY <1>2, KeepQuiet DEF Crash, QuietCallers, IdleCaller, Holding
<1>3. CASE ReconcileStartup
  <2>1. ASSUME NEW r \in Requests
        PROVE  Still(r) \/ Advance(r)
    <3>1. CASE ledger[r].state = "dispatching"
      <4>1. ledger'[r].state = "outcome_unknown"
        <5>1. ledger[r] \in RowType
          BY DEF LedgerGood, GoodRow
        <5> QED
          BY <1>3, <3>1, <5>1 DEF ReconcileStartup, UnknownAfterRestart, RowType
      <4>2. log'[r] = Append(log[r], <<"dispatching", "outcome_unknown">>)
        BY <1>3, <3>1 DEF ReconcileStartup
      <4>3. <<"dispatching", "outcome_unknown">> \in ALLOWED_LEDGER_TRANSITIONS
        BY DEF ALLOWED_LEDGER_TRANSITIONS
      <4> QED
        BY <3>1, <4>1, <4>2, <4>3 DEF Advance
    <3>2. CASE ledger[r].state # "dispatching"
      BY <1>3, <3>2 DEF ReconcileStartup, Still
    <3> QED
      BY <3>1, <3>2
  <2> QED
    BY <1>1, <1>3, <2>1 DEF ReconcileStartup
<1>4. CASE ScheduleStartupRecovery
  BY <1>1, <1>4, KeepQuiet DEF ScheduleStartupRecovery
<1> QED
  BY <1>2, <1>3, <1>4

\* Every step keeps the barrier invariant.
LEMMA NextBarrier == ASSUME TypeInv, BarrierInv, [Next]_vars PROVE BarrierInv'
<1> USE DEF durable
<1>1. CASE UNCHANGED vars
  <2>1. Quiet
    BY <1>1, KeepQuiet DEF vars, Quiet, QuietCallers
  <2> QED
    BY <2>1, QuietBarrier
<1>2. ASSUME NEW c \in Callers, Dispatch(c)
      PROVE  BarrierInv'
  <2>1. ASSUME NEW r \in Requests, NEW d \in Digests, Deliver(c, r, d)
        PROVE  Quiet
    BY <2>1, KeepQuiet DEF Deliver, Quiet, QuietCallers, IdleCaller, Holding,
       TypeInv, CallersGood
  <2>2. CASE Proceed(c)
    BY <2>2, ProceedQuiet, QuietBarrier, CrossBarrier, SendBarrier
  <2>3. CASE DispatchAborts(c)
    <3>1. Quiet
      BY <2>3, CallerQuiet, KeepQuiet DEF DispatchAborts, Quiet, TypeInv
    <3> QED
      BY <3>1, QuietBarrier
  <2> QED
    BY <1>2, <2>1, <2>2, <2>3, QuietBarrier DEF Dispatch
<1>3. ASSUME NEW t \in Tasks, Verify(t)
      PROVE  BarrierInv'
  BY <1>3, VerifyQuiet, QuietBarrier
<1>4. CASE Crash \/ ReconcileStartup \/ ScheduleStartupRecovery
  BY <1>4, ProcessQuiet, QuietBarrier
<1>5. ASSUME NEW r \in Requests, Environment(r)
      PROVE  BarrierInv'
  <2>1. UNCHANGED <<ledger, log, callers, posts>>
    BY <1>5 DEF Environment, ProviderReboots, PostLost, GuestStops, GuestReturns,
       TaskEnds, TargetReplaced, Expire
  <2>2. Quiet
    BY <2>1, KeepQuiet DEF Quiet, QuietCallers
  <2> QED
    BY <2>2, QuietBarrier
<1> QED
  BY <1>1, <1>2, <1>3, <1>4, <1>5 DEF Next, Quiescent

\* Dispatch is safe: for any number of requests, duplicates, crashes, restarts
\* and database errors, at most one reboot POST is sent for a request, only after
\* its barrier was durably crossed exactly once, and the stored transitions are
\* one allowed chain.
THEOREM DispatchSafe ==
    Spec => [](AtMostOneReboot /\ BarrierPrecedesReboot /\ TransitionsValid)
<1>1. Spec => [](TypeInv /\ BarrierInv)
  BY InitType, NextType, InitBarrier, NextBarrier, PTL DEF Spec
<1> QED
  BY <1>1, BarrierInvStrong, PTL

----------------------------------------------------------------------------
(* Terminal requests are never reopened.                                   *)

\* The step leaves the row of every terminal request as it is.
Respects ==
    \A r \in Requests : Terminal(r) => ledger'[r] = ledger[r]

\* Only a row of an unterminated request is ever written.
LEMMA WriteReopensNothing ==
    ASSUME LedgerGood, NEW r \in Requests, NEW row, Write(r, row), ~Terminal(r)
    PROVE  Respects
  BY DEF LedgerGood, Write, Respects

\* The states that a terminal row can be in.
LEMMA TerminalStates ==
    ASSUME LedgerGood, NEW r \in Requests, Terminal(r)
    PROVE  ledger[r].state \in FINAL_STATES \cup {"failed", "outcome_unknown"}
  BY DEF LedgerGood, GoodRow, Terminal

\* Every step leaves the rows of terminal requests alone.
LEMMA NextReopensNothing ==
    ASSUME TypeInv, [Next]_vars
    PROVE  Respects
<1> USE DEF TypeInv, durable
<1>k. UNCHANGED ledger => Respects
  BY DEF Respects
<1>w. \A r \in Requests : \A row : Write(r, row) /\ ~Terminal(r) => Respects
  BY WriteReopensNothing
<1>t. \A r \in Requests : ledger[r].state \notin
          FINAL_STATES \cup {"failed", "outcome_unknown"} => ~Terminal(r)
  BY TerminalStates
<1>1. CASE UNCHANGED vars
  BY <1>1, <1>k DEF vars
<1>2. ASSUME NEW c \in Callers, Dispatch(c)
      PROVE  Respects
  <2>0. callers[c].pc # "idle" => callers[c].req \in Requests
    BY BusyCaller
  <2>1. CASE ClaimNew(c)
    BY <2>0, <2>1, <1>w, <1>t DEF ClaimNew, Running, At, FINAL_STATES
  <2>2. CASE MarkRevalidated(c)
    BY <2>0, <2>2, <1>k, <1>w, <1>t DEF MarkRevalidated, Move, Running, At,
       FINAL_STATES
  <2>3. CASE MarkDispatching(c)
    BY <2>0, <2>3, <1>w, <1>t DEF MarkDispatching, Move, Running, At, FINAL_STATES
  <2>4. CASE PersistDispatchResult(c)
    BY <2>0, <2>4, <1>w, <1>t DEF PersistDispatchResult, MayPersistResult,
       PreDispatch, Running, At, FINAL_STATES
  <2>5. CASE UNCHANGED ledger
    BY <2>5, <1>k
  <2> QED
    BY <1>2, <2>1, <2>2, <2>3, <2>4, <2>5 DEF Dispatch, Deliver, Proceed,
       DispatchAborts, ClaimAgain, ClaimConflict, Refuse, AwaitResolver,
       ResolvedReplaced, ResolvedUnavailable, ResolvedMatch, LoseBarrier,
       AwaitHandler, HandlerRefuses, SendReboot, RebootAccepted, RebootUnknown,
       AuditResult, ResultImmutable, Answer
<1>3. ASSUME NEW t \in Tasks, Verify(t)
      PROVE  Respects
  <2>0. tasks[t].pc # "idle" => tasks[t].req \in Requests
    BY BusyTask
  <2>1. CASE BeginVerification(t)
    <3>1. tasks[t].req \in Requests
      BY <2>0, <2>1 DEF BeginVerification, TaskResumed
    <3>2. ~Terminal(tasks[t].req)
      BY <2>1 DEF BeginVerification, OwnsVerification, Terminal, FINAL_STATES
    <3> QED
      BY <2>1, <3>1, <3>2, <1>k, <1>w DEF BeginVerification, Move
  <2>2. CASE PersistVerificationResult(t)
    BY <2>0, <2>2, <1>w, <1>t DEF PersistVerificationResult, TaskRunning,
       FINAL_STATES
  <2>3. CASE UNCHANGED ledger
    BY <2>3, <1>k
  <2> QED
    BY <1>3, <2>1, <2>2, <2>3 DEF Verify, SkipVerification, AuditBegin,
       VerifierRaises, Poll, DeadlinePasses, ObserveReplaced, ObserveTarget,
       QueryFailed, QuerySucceeded, QueryAgain, AuditVerification, TaskAborts
<1>4. CASE ReconcileStartup
  <2>1. ASSUME NEW r \in Requests, Terminal(r)
        PROVE  ledger'[r] = ledger[r]
    <3>1. ledger[r].state # "dispatching"
      BY <2>1, TerminalStates DEF FINAL_STATES
    <3> QED
      BY <1>4, <3>1 DEF ReconcileStartup
  <2> QED
    BY <2>1 DEF Respects
<1>5. CASE Crash \/ ScheduleStartupRecovery
  <2>1. UNCHANGED ledger
    BY <1>5 DEF Crash, ScheduleStartupRecovery
  <2> QED
    BY <2>1, <1>k
<1>6. ASSUME NEW r \in Requests, Environment(r)
      PROVE  Respects
  <2>1. UNCHANGED ledger
    BY <1>6 DEF Environment, ProviderReboots, PostLost, GuestStops,
       GuestReturns, TaskEnds, TargetReplaced, Expire
  <2> QED
    BY <2>1, <1>k
<1> QED
  BY <1>1, <1>2, <1>3, <1>4, <1>5, <1>6 DEF Next, Quiescent

\* Terminal results are never reopened, also not by a later duplicate, a late
\* verification task or a restart.
THEOREM TerminalIsFinal == Spec => NeverReopened
<1>1. Spec => []TypeInv
  BY InitType, NextType, PTL DEF Spec
<1>2. TypeInv /\ [Next]_vars
        => [\A r \in Requests : Terminal(r) => ledger'[r] = ledger[r]]_vars
  BY NextReopensNothing DEF Respects
<1> QED
  BY <1>1, <1>2, PTL DEF Spec, NeverReopened

----------------------------------------------------------------------------
(* What a step may do to a row and to its transitions.                     *)

\* A row in one of these states has no dispatch result yet.
Open == {"absent"} \cup PreDispatch \cup {"dispatching"}

\* The barrier of the request was crossed.
Crossed(r) == BarrierCrossings(r) # {}

\* The row is being verified and has no verdict.
Verifying(r) == ledger[r].state = "verifying" /\ ledger[r].verification = "none"

\* A row has its dispatch result as soon as it is decided, and a result that is
\* not a failure crossed the barrier; a provider operation is one that the
\* provider accepted.
DecidedRows ==
    \A r \in Requests :
        /\ ledger[r].state \notin Open <=> HasResult(r)
        /\ ledger[r].dispatch.status \in {"succeeded", "outcome_unknown"} => Crossed(r)
        /\ ledger[r].dispatch.upid => reboots[r] > 0

SameResult(r) == ledger'[r].dispatch = ledger[r].dispatch
SameVerdict(r) == ledger'[r].verification = ledger[r].verification

\* The ways in which a row may change: it nears the barrier, it is decided, its
\* verification begins, it gets its verdict.
Nears(r) ==
    /\ <<ledger[r].state, ledger'[r].state>> \in
          {<<"absent", "claimed">>, <<"claimed", "revalidated">>,
           <<"revalidated", "dispatching">>}
    /\ SameResult(r) /\ SameVerdict(r)
Decides(r) ==
    /\ ledger[r].state \in PreDispatch \cup {"dispatching"}
    /\ ~HasResult(r)
    /\ ledger'[r].dispatch.status \in DispatchStatus
    /\ \/ ledger'[r].state = ledger'[r].dispatch.status
       \/ ledger'[r].state = "target_replaced" /\ ledger'[r].dispatch.status = "failed"
    /\ ledger'[r].dispatch.status # "failed" => Crossed(r)
    /\ ledger'[r].dispatch.upid => reboots[r] > 0
    /\ SameVerdict(r)
Begins(r) ==
    /\ ledger[r].state \in {"succeeded", "outcome_unknown"}
    /\ ledger[r].verification = "none"
    /\ ledger'[r].state = "verifying"
    /\ SameResult(r) /\ SameVerdict(r)
Concludes(r) ==
    /\ Verifying(r)
    /\ ledger'[r].verification \in VerificationStatus
    /\ ledger'[r].state = VerificationState(ledger'[r].verification)
    /\ SameResult(r)
RowStep(r) ==
    ledger'[r] = ledger[r] \/ Nears(r) \/ Decides(r) \/ Begins(r) \/ Concludes(r)

\* What a connection carries: it has claimed its request, a result that is not a
\* failure crossed the barrier, what it is going to answer is in the ledger, and
\* a provider operation is one that the provider accepted.
Carried(c) ==
    LET k == callers[c] IN
    /\ k.pc \in {"claimed", "resolving", "matched"} => ledger[k.req].state # "absent"
    /\ k.pc = "revalidated" => ledger[k.req].state \notin {"absent", "claimed"}
    /\ k.pc = "posting" => Crossed(k.req)
    /\ k.pc \in {"returned", "persisting"} /\ k.res.status # "failed" => Crossed(k.req)
    /\ k.pc = "persisting" => \/ k.to = k.res.status
                              \/ k.to = "target_replaced" /\ k.res.status = "failed"
    /\ k.pc = "answering" /\ k.to # "unavailable" =>
          /\ k.res.status = "succeeded" => ledger[k.req].dispatch.status = "succeeded"
          /\ k.res.status = "outcome_unknown" => Crossed(k.req)
    /\ k.pc \in {"returned", "persisting", "answering"} /\ k.res.upid => reboots[k.req] > 0

CarriedResults == \A c \in Callers : Carried(c)

\* The transactions that write the ledger.
CallerWrites(c) ==
    ClaimNew(c) \/ MarkRevalidated(c) \/ MarkDispatching(c) \/ PersistDispatchResult(c)
TaskWrites(t) == BeginVerification(t) \/ PersistVerificationResult(t)

\* Nothing else touches the ledger or its transitions.
LEMMA WhoWrites ==
    ASSUME [Next]_vars
    PROVE  \/ UNCHANGED <<ledger, log>>
           \/ \E c \in Callers : CallerWrites(c)
           \/ \E t \in Tasks : TaskWrites(t)
           \/ ReconcileStartup
<1> USE DEF durable
<1>1. CASE UNCHANGED vars
  BY <1>1 DEF vars
<1>2. ASSUME NEW c \in Callers, Dispatch(c)
      PROVE  UNCHANGED <<ledger, log>> \/ CallerWrites(c)
  <2>1. ASSUME NEW r \in Requests, NEW d \in Digests, Deliver(c, r, d)
        PROVE  UNCHANGED <<ledger, log>>
    BY <2>1 DEF Deliver
  <2>2. CASE Proceed(c) /\ ~CallerWrites(c)
    <3>1. UNCHANGED <<ledger, log>>
      BY <2>2 DEF Proceed, CallerWrites, ClaimAgain, ClaimConflict,
         Refuse, AwaitResolver, ResolvedReplaced, ResolvedUnavailable, ResolvedMatch,
         LoseBarrier, AwaitHandler, HandlerRefuses, SendReboot, RebootAccepted,
         RebootUnknown, AuditResult, ResultImmutable, Answer
    <3> QED
      BY <3>1
  <2>3. CASE DispatchAborts(c)
    BY <2>3 DEF DispatchAborts
  <2> QED
    BY <1>2, <2>1, <2>2, <2>3 DEF Dispatch
<1>3. ASSUME NEW t \in Tasks, Verify(t)
      PROVE  UNCHANGED <<ledger, log>> \/ TaskWrites(t)
  BY <1>3 DEF Verify, SkipVerification, AuditBegin, VerifierRaises, Poll,
     DeadlinePasses, ObserveReplaced, ObserveTarget, QueryFailed, QuerySucceeded,
     QueryAgain, AuditVerification, TaskAborts, TaskWrites
<1>4. ASSUME NEW r \in Requests, Environment(r)
      PROVE  UNCHANGED <<ledger, log>>
  BY <1>4 DEF Environment, ProviderReboots, PostLost, GuestStops, GuestReturns,
     TaskEnds, TargetReplaced, Expire
<1>5. ASSUME Crash \/ ScheduleStartupRecovery PROVE UNCHANGED <<ledger, log>>
  BY <1>5 DEF Crash, ScheduleStartupRecovery
<1> QED
  BY <1>1, <1>2, <1>3, <1>4, <1>5 DEF Next, Quiescent

\* A write replaces its row and leaves the others alone.
LEMMA WriteRow ==
    ASSUME LedgerGood, NEW r \in Requests, NEW row, Write(r, row)
    PROVE  ledger'[r] = row /\ \A q \in Requests \ {r} : ledger'[q] = ledger[q]
  BY DEF LedgerGood, Write

\* A row that changes its state only.
LEMMA MoveRow ==
    ASSUME LedgerGood, NEW r \in Requests, NEW state, Move(r, state)
    PROVE  /\ ledger'[r].state = state /\ SameResult(r) /\ SameVerdict(r)
           /\ \A q \in Requests \ {r} : ledger'[q] = ledger[q]
<1>1. ledger[r] \in RowType
  BY DEF LedgerGood, GoodRow
<1>2. ledger'[r] = [ledger[r] EXCEPT !.state = state]
  BY WriteRow DEF Move
<1> QED
  BY <1>1, <1>2, WriteRow DEF Move, RowType, SameResult, SameVerdict

\* A row in dispatching has crossed: its last transition says so.
LEMMA DispatchingCrossed ==
    ASSUME TypeInv, TransitionsValid, NEW r \in Requests, ledger[r].state = "dispatching"
    PROVE  Crossed(r)
<1>1. log[r] # << >> /\ log[r][Len(log[r])][2] = "dispatching"
  BY DEF TransitionsValid, TransitionSequenceValid
<1>2. Len(log[r]) \in 1..Len(log[r])
  BY <1>1 DEF TypeInv, LogType
<1> QED
  BY <1>1, <1>2 DEF Crossed, BarrierCrossings

\* Every step changes a row in one of these ways only.
LEMMA RowSteps ==
    ASSUME TypeInv, TransitionsValid, DecidedRows, CarriedResults, [Next]_vars
    PROVE  \A r \in Requests : RowStep(r)
<1> USE DEF TypeInv, durable
<1>k. UNCHANGED ledger => \A r \in Requests : RowStep(r)
  BY DEF RowStep
<1>1. ASSUME NEW c \in Callers, CallerWrites(c)
      PROVE  \A r \in Requests : RowStep(r)
  <2>0. PICK q \in Requests : q = callers[c].req
    BY <1>1, BusyCaller DEF CallerWrites, ClaimNew, MarkRevalidated, MarkDispatching,
       PersistDispatchResult, Running, At
  <2>1. CASE ClaimNew(c)
    <3>1. ledger'[q] = [AbsentRow EXCEPT !.state = "claimed", !.digest = callers[c].digest]
          /\ \A r \in Requests \ {q} : ledger'[r] = ledger[r]
      BY <2>0, <2>1, WriteRow DEF ClaimNew
    <3>2. ledger'[q].state = "claimed" /\ ledger'[q].dispatch = NoResult
          /\ ledger'[q].verification = "none"
      BY <3>1 DEF AbsentRow
    <3>3. ledger[q].state = "absent" /\ ledger[q].dispatch = NoResult
          /\ ledger[q].verification = "none"
      BY <2>0, <2>1 DEF ClaimNew, DecidedRows, Open, HasResult, LedgerGood, GoodRow,
         FINAL_STATES, RowType
    <3>4. RowStep(q)
      BY <3>2, <3>3 DEF RowStep, Nears, SameResult, SameVerdict
    <3> QED
      BY <3>1, <3>4 DEF RowStep
  <2>2. CASE MarkRevalidated(c)
    <3>1. CASE ledger[q].state = "claimed"
      <4>1. Move(q, "revalidated")
        BY <2>0, <2>2, <3>1 DEF MarkRevalidated
      <4> QED
        BY <3>1, <4>1, MoveRow DEF RowStep, Nears
    <3>2. CASE ledger[q].state # "claimed"
      BY <1>k, <2>0, <2>2, <3>2 DEF MarkRevalidated
    <3> QED
      BY <3>1, <3>2
  <2>3. CASE MarkDispatching(c)
    <3>1. Move(q, "dispatching") /\ ledger[q].state = "revalidated"
      BY <2>0, <2>3 DEF MarkDispatching
    <3> QED
      BY <3>1, MoveRow DEF RowStep, Nears
  <2>4. CASE PersistDispatchResult(c)
    <3>1. ledger'[q] = [ledger[q] EXCEPT !.state = callers[c].to,
                                         !.dispatch = callers[c].res]
          /\ \A r \in Requests \ {q} : ledger'[r] = ledger[r]
      BY <2>0, <2>4, WriteRow DEF PersistDispatchResult
    <3>2. ledger[q] \in RowType
      BY DEF LedgerGood, GoodRow
    <3>3. ledger'[q].state = callers[c].to /\ ledger'[q].dispatch = callers[c].res
          /\ SameVerdict(q)
      BY <3>1, <3>2 DEF RowType, SameVerdict
    <3>4. callers[c].pc = "persisting" /\ MayPersistResult(q)
      BY <2>0, <2>4 DEF PersistDispatchResult, Running, At
    <3>5. /\ callers[c].res.status \in DispatchStatus
          /\ \/ callers[c].to = callers[c].res.status
             \/ callers[c].to = "target_replaced" /\ callers[c].res.status = "failed"
          /\ callers[c].res.status # "failed" => Crossed(q)
          /\ callers[c].res.upid => reboots[q] > 0
      BY <2>0, <3>4, BusyCaller DEF CarriedResults, Carried
    <3>6. Decides(q)
      BY <3>3, <3>4, <3>5 DEF Decides, MayPersistResult
    <3> QED
      BY <3>1, <3>6 DEF RowStep
  <2> QED
    BY <1>1, <2>1, <2>2, <2>3, <2>4 DEF CallerWrites
<1>2. ASSUME NEW t \in Tasks, TaskWrites(t)
      PROVE  \A r \in Requests : RowStep(r)
  <2>0. PICK q \in Requests : q = tasks[t].req
    BY <1>2, BusyTask DEF TaskWrites, BeginVerification, PersistVerificationResult,
       TaskRunning, TaskResumed
  <2>1. CASE BeginVerification(t)
    <3>1. CASE ledger[q].state = "verifying"
      BY <1>k, <2>0, <2>1, <3>1 DEF BeginVerification
    <3>2. CASE ledger[q].state # "verifying"
      <4>1. Move(q, "verifying") /\ ledger[q].verification = "none"
            /\ ledger[q].state \in {"succeeded", "outcome_unknown"}
        BY <2>0, <2>1, <3>2 DEF BeginVerification, OwnsVerification
      <4> QED
        BY <4>1, MoveRow DEF RowStep, Begins
    <3> QED
      BY <3>1, <3>2
  <2>2. CASE PersistVerificationResult(t)
    <3>1. ledger'[q] = [ledger[q] EXCEPT !.state = VerificationState(tasks[t].verdict),
                                         !.verification = tasks[t].verdict]
          /\ \A r \in Requests \ {q} : ledger'[r] = ledger[r]
      BY <2>0, <2>2, WriteRow DEF PersistVerificationResult
    <3>2. ledger[q] \in RowType
      BY DEF LedgerGood, GoodRow
    <3>3. /\ ledger'[q].state = VerificationState(tasks[t].verdict)
          /\ ledger'[q].verification = tasks[t].verdict
          /\ SameResult(q)
      BY <3>1, <3>2 DEF RowType, SameResult
    <3>4. Verifying(q) /\ tasks[t].verdict \in VerificationStatus
      BY <2>0, <2>2, BusyTask DEF PersistVerificationResult, TaskRunning, Verifying
    <3>5. Concludes(q)
      BY <3>3, <3>4 DEF Concludes
    <3> QED
      BY <3>1, <3>5 DEF RowStep
  <2> QED
    BY <1>2, <2>1, <2>2 DEF TaskWrites
<1>3. CASE ReconcileStartup
  <2>1. ASSUME NEW r \in Requests, ledger[r].state = "dispatching" PROVE Decides(r)
    <3>1. ledger'[r] = UnknownAfterRestart(ledger[r]) /\ ledger[r] \in RowType
      BY <1>3, <2>1 DEF ReconcileStartup, LedgerGood, GoodRow
    <3>2. /\ ledger'[r].state = "outcome_unknown"
          /\ ledger'[r].dispatch = Result("outcome_unknown", FALSE)
          /\ SameVerdict(r)
      BY <3>1 DEF UnknownAfterRestart, RowType, SameVerdict
    <3>3. ~HasResult(r) /\ Crossed(r)
      BY <2>1, DispatchingCrossed DEF DecidedRows, Open
    <3>4. Result("outcome_unknown", FALSE).status = "outcome_unknown"
          /\ ~Result("outcome_unknown", FALSE).upid
      BY DEF Result
    <3> QED
      BY <2>1, <3>2, <3>3, <3>4, Places DEF Decides
  <2>2. ASSUME NEW r \in Requests, ledger[r].state # "dispatching"
        PROVE  ledger'[r] = ledger[r]
    BY <1>3, <2>2 DEF ReconcileStartup
  <2> QED
    BY <2>1, <2>2 DEF RowStep
<1> QED
  BY <1>k, <1>1, <1>2, <1>3, WhoWrites

----------------------------------------------------------------------------
(* What a step never takes back.                                           *)

\* A write never takes a crossing back.
LEMMA WriteCrossed ==
    ASSUME LedgerGood, LogType, NEW r \in Requests, NEW row, Write(r, row),
           row.state \in LedgerState
    PROVE  \A q \in Requests : Crossed(q) => Crossed(q)'
<1>1. log'[r] = Append(log[r], <<ledger[r].state, row.state>>)
      /\ \A q \in Requests \ {r} : log'[q] = log[q]
  BY DEF Write, LogType
<1>2. <<ledger[r].state, row.state>> \in LedgerState \X LedgerState
  BY DEF LedgerGood, GoodRow, RowType
<1>3. PICK e \in LedgerState \X LedgerState : log'[r] = Append(log[r], e)
  BY <1>1, <1>2
<1>4. BarrierCrossings(r) \subseteq BarrierCrossings(r)'
  BY <1>3, AppendCrossings
<1>5. \A q \in Requests \ {r} : BarrierCrossings(q)' = BarrierCrossings(q)
  BY <1>1 DEF BarrierCrossings
<1> QED
  BY <1>4, <1>5 DEF Crossed

\* Once crossed, always crossed.
LEMMA CrossedStays ==
    ASSUME TypeInv, DecidedRows, CarriedResults, [Next]_vars
    PROVE  \A q \in Requests : Crossed(q) => Crossed(q)'
<1> USE DEF TypeInv
<1>k. UNCHANGED log => \A q \in Requests : Crossed(q) => Crossed(q)'
  BY DEF Crossed, BarrierCrossings
<1>1. ASSUME NEW c \in Callers, CallerWrites(c)
      PROVE  \A q \in Requests : Crossed(q) => Crossed(q)'
  <2>0. PICK r \in Requests : r = callers[c].req
    BY <1>1, BusyCaller DEF CallerWrites, ClaimNew, MarkRevalidated, MarkDispatching,
       PersistDispatchResult, Running, At
  <2>1. ledger[r] \in RowType
    BY DEF LedgerGood, GoodRow
  <2>2. CASE ClaimNew(c)
    <3>1. [AbsentRow EXCEPT !.state = "claimed", !.digest = callers[c].digest].state
            \in LedgerState
      BY DEF AbsentRow, LedgerState
    <3> QED
      BY <2>0, <2>2, <3>1, WriteCrossed DEF ClaimNew
  <2>3. ASSUME NEW s \in LedgerState, Move(r, s)
        PROVE  \A q \in Requests : Crossed(q) => Crossed(q)'
    <3>1. [ledger[r] EXCEPT !.state = s].state \in LedgerState
      BY <2>1 DEF RowType
    <3> QED
      BY <2>3, <3>1, WriteCrossed DEF Move
  <2>4. CASE MarkRevalidated(c)
    BY <1>k, <2>0, <2>3, <2>4 DEF MarkRevalidated, LedgerState
  <2>5. CASE MarkDispatching(c)
    BY <2>0, <2>3, <2>5 DEF MarkDispatching, LedgerState
  <2>6. CASE PersistDispatchResult(c)
    <3>1. callers[c].to \in LedgerState
      BY <2>6, BusyCaller, Places DEF PersistDispatchResult, Running, At
    <3>2. [ledger[r] EXCEPT !.state = callers[c].to, !.dispatch = callers[c].res].state
            \in LedgerState
      BY <2>1, <3>1 DEF RowType
    <3> QED
      BY <2>0, <2>6, <3>2, WriteCrossed DEF PersistDispatchResult
  <2> QED
    BY <1>1, <2>2, <2>4, <2>5, <2>6 DEF CallerWrites
<1>2. ASSUME NEW t \in Tasks, TaskWrites(t)
      PROVE  \A q \in Requests : Crossed(q) => Crossed(q)'
  <2>0. PICK r \in Requests : r = tasks[t].req
    BY <1>2, BusyTask DEF TaskWrites, BeginVerification, PersistVerificationResult,
       TaskRunning, TaskResumed
  <2>1. ledger[r] \in RowType
    BY DEF LedgerGood, GoodRow
  <2>2. CASE BeginVerification(t)
    <3>1. [ledger[r] EXCEPT !.state = "verifying"].state \in LedgerState
      BY <2>1 DEF RowType, LedgerState
    <3>2. UNCHANGED log \/ Move(r, "verifying")
      BY <2>0, <2>2 DEF BeginVerification
    <3> QED
      BY <1>k, <3>1, <3>2, WriteCrossed DEF Move
  <2>3. CASE PersistVerificationResult(t)
    <3>1. VerificationState(tasks[t].verdict) \in LedgerState
      BY <2>3, BusyTask DEF PersistVerificationResult, TaskRunning, VerificationState,
         VerificationStatus, LedgerState
    <3>2. [ledger[r] EXCEPT !.state = VerificationState(tasks[t].verdict),
                            !.verification = tasks[t].verdict].state \in LedgerState
      BY <2>1, <3>1 DEF RowType
    <3> QED
      BY <2>0, <2>3, <3>2, WriteCrossed DEF PersistVerificationResult
  <2> QED
    BY <1>2, <2>2, <2>3 DEF TaskWrites
<1>3. CASE ReconcileStartup
  <2>1. ASSUME NEW q \in Requests PROVE Crossed(q) => Crossed(q)'
    <3>1. CASE ledger[q].state = "dispatching"
      <4>1. log'[q] = Append(log[q], <<"dispatching", "outcome_unknown">>)
        BY <1>3, <3>1 DEF ReconcileStartup
      <4>2. <<"dispatching", "outcome_unknown">> \in LedgerState \X LedgerState
        BY DEF LedgerState
      <4>3. BarrierCrossings(q) \subseteq BarrierCrossings(q)'
        BY <4>1, <4>2, AppendCrossings
      <4> QED
        BY <4>3 DEF Crossed
    <3>2. CASE ledger[q].state # "dispatching"
      BY <1>3, <3>2 DEF ReconcileStartup, Crossed, BarrierCrossings
    <3> QED
      BY <3>1, <3>2
  <2> QED
    BY <2>1
<1> QED
  BY <1>k, <1>1, <1>2, <1>3, WhoWrites

\* The provider accepts at most what was sent, and its task follows a reboot.
ProviderCounts ==
    \A r \in Requests :
        /\ inflight[r] + reboots[r] <= posts[r]
        /\ ptask[r] # "none" => reboots[r] > 0

\* Only a POST, its arrival or loss and the end of its task touch the counts.
LEMMA WhoCounts ==
    ASSUME [Next]_vars
    PROVE  \/ UNCHANGED <<posts, inflight, reboots, ptask>>
           \/ \E c \in Callers : SendReboot(c)
           \/ \E r \in Requests : ProviderReboots(r) \/ PostLost(r) \/ TaskEnds(r)
<1> USE DEF durable, provider
<1>1. CASE UNCHANGED vars
  BY <1>1 DEF vars
<1>2. ASSUME NEW c \in Callers, Dispatch(c)
      PROVE  UNCHANGED <<posts, inflight, reboots, ptask>> \/ SendReboot(c)
  <2>1. ASSUME NEW r \in Requests, NEW d \in Digests, Deliver(c, r, d)
        PROVE  UNCHANGED <<posts, inflight, reboots, ptask>>
    BY <2>1 DEF Deliver
  <2>2. CASE Proceed(c) /\ ~SendReboot(c)
    <3>1. UNCHANGED <<posts, inflight, reboots, ptask>>
      BY <2>2 DEF Proceed, ClaimNew, MarkRevalidated, MarkDispatching,
         PersistDispatchResult, ClaimAgain, ClaimConflict,
         Refuse, AwaitResolver, ResolvedReplaced, ResolvedUnavailable, ResolvedMatch,
         LoseBarrier, AwaitHandler, HandlerRefuses, RebootAccepted,
         RebootUnknown, AuditResult, ResultImmutable, Answer
    <3> QED
      BY <3>1
  <2>3. CASE DispatchAborts(c)
    BY <2>3 DEF DispatchAborts
  <2> QED
    BY <1>2, <2>1, <2>2, <2>3 DEF Dispatch
<1>3. ASSUME NEW t \in Tasks, Verify(t)
      PROVE  UNCHANGED <<posts, inflight, reboots, ptask>>
  BY <1>3 DEF Verify, BeginVerification, PersistVerificationResult,
     SkipVerification, AuditBegin, VerifierRaises, Poll,
     DeadlinePasses, ObserveReplaced, ObserveTarget, QueryFailed, QuerySucceeded,
     QueryAgain, AuditVerification, TaskAborts
<1>4. ASSUME NEW r \in Requests, Environment(r)
      PROVE  UNCHANGED <<posts, inflight, reboots, ptask>>
             \/ ProviderReboots(r) \/ PostLost(r) \/ TaskEnds(r)
  BY <1>4 DEF Environment, GuestStops, GuestReturns, TargetReplaced, Expire
<1>5. CASE Crash
  BY <1>5 DEF Crash
<1>6. CASE ReconcileStartup
  BY <1>6 DEF ReconcileStartup
<1>7. CASE ScheduleStartupRecovery
  BY <1>7 DEF ScheduleStartupRecovery
<1> QED
  BY <1>1, <1>2, <1>3, <1>4, <1>5, <1>6, <1>7 DEF Next, Quiescent

\* The counts stay in order.
LEMMA NextCounts ==
    ASSUME TypeInv, ProviderCounts, [Next]_vars
    PROVE  ProviderCounts'
<1> USE DEF TypeInv, PostsType, ProviderType
<1>1. CASE UNCHANGED <<posts, inflight, reboots, ptask>>
  BY <1>1 DEF ProviderCounts
<1>2. ASSUME NEW c \in Callers, SendReboot(c) PROVE ProviderCounts'
  <2>1. PICK r \in Requests : r = callers[c].req
    BY <1>2, BusyCaller DEF SendReboot, Resumed, At
  <2>2. /\ posts' = [posts EXCEPT ![r] = @ + 1] /\ inflight' = [inflight EXCEPT ![r] = @ + 1]
        /\ UNCHANGED <<reboots, ptask>>
    BY <1>2, <2>1 DEF SendReboot
  <2>3. ASSUME NEW q \in Requests
        PROVE  (inflight'[q] + reboots'[q] <= posts'[q])
               /\ (ptask'[q] # "none" => reboots'[q] > 0)
    BY <2>2, <2>3 DEF ProviderCounts
  <2> QED
    BY <2>3 DEF ProviderCounts
<1>3. ASSUME NEW r \in Requests, ProviderReboots(r) PROVE ProviderCounts'
  <2>1. ASSUME NEW q \in Requests
        PROVE  (inflight'[q] + reboots'[q] <= posts'[q])
               /\ (ptask'[q] # "none" => reboots'[q] > 0)
    BY <1>3, <2>1 DEF ProviderCounts, ProviderReboots
  <2> QED
    BY <2>1 DEF ProviderCounts
<1>4. ASSUME NEW r \in Requests, PostLost(r) PROVE ProviderCounts'
  <2>1. ASSUME NEW q \in Requests
        PROVE  (inflight'[q] + reboots'[q] <= posts'[q])
               /\ (ptask'[q] # "none" => reboots'[q] > 0)
    BY <1>4, <2>1 DEF ProviderCounts, PostLost
  <2> QED
    BY <2>1 DEF ProviderCounts
<1>5. ASSUME NEW r \in Requests, TaskEnds(r) PROVE ProviderCounts'
  BY <1>5 DEF ProviderCounts, TaskEnds
<1> QED
  BY <1>1, <1>2, <1>3, <1>4, <1>5, WhoCounts

\* A reboot that happened has happened, and a task that ended well is the last
\* word on the one reboot there is.
LEMMA ProviderStays ==
    ASSUME TypeInv, SentOnce, ProviderCounts, [Next]_vars, NEW q \in Requests
    PROVE  /\ reboots[q] > 0 => reboots'[q] > 0
           /\ ptask[q] = "ok" => ptask'[q] = "ok"
<1> USE DEF TypeInv, PostsType, ProviderType
<1>1. CASE UNCHANGED <<posts, inflight, reboots, ptask>>
  BY <1>1
<1>2. ASSUME NEW c \in Callers, SendReboot(c) PROVE UNCHANGED <<reboots, ptask>>
  BY <1>2 DEF SendReboot
<1>3. ASSUME NEW r \in Requests, ProviderReboots(r)
      PROVE  (reboots[q] > 0 => reboots'[q] > 0) /\ (ptask[q] = "ok" => ptask'[q] = "ok")
  <2>1. CASE q = r
    <3>1. /\ inflight[r] > 0 /\ reboots'[r] = reboots[r] + 1
          /\ inflight[r] + reboots[r] <= posts[r] /\ posts[r] <= 1
          /\ (ptask[r] # "none" => reboots[r] > 0)
      BY <1>3 DEF ProviderReboots, ProviderCounts, SentOnce
    <3>2. inflight[r] \in Nat /\ reboots[r] \in Nat /\ posts[r] \in Nat
      OBVIOUS
    <3>3. ~(reboots[r] > 0) /\ reboots'[r] > 0
      BY <3>1, <3>2
    <3> QED
      BY <2>1, <3>1, <3>3
  <2>2. CASE q # r
    BY <1>3, <2>2 DEF ProviderReboots
  <2> QED
    BY <2>1, <2>2
<1>4. ASSUME NEW r \in Requests, PostLost(r) PROVE UNCHANGED <<reboots, ptask>>
  BY <1>4 DEF PostLost
<1>5. ASSUME NEW r \in Requests, TaskEnds(r)
      PROVE  (reboots[q] > 0 => reboots'[q] > 0) /\ (ptask[q] = "ok" => ptask'[q] = "ok")
  BY <1>5 DEF TaskEnds
<1> QED
  BY <1>1, <1>2, <1>3, <1>4, <1>5, WhoCounts

\* What the rows say of themselves stays so.
LEMMA NextDecided ==
    ASSUME TypeInv, BarrierInv, DecidedRows, CarriedResults, ProviderCounts, [Next]_vars
    PROVE  DecidedRows'
<1> SUFFICES ASSUME NEW r \in Requests
             PROVE  /\ ledger'[r].state \notin Open <=> HasResult(r)'
                    /\ ledger'[r].dispatch.status \in {"succeeded", "outcome_unknown"}
                          => Crossed(r)'
                    /\ ledger'[r].dispatch.upid => reboots'[r] > 0
  BY DEF DecidedRows
<1>1. RowStep(r)
  BY RowSteps DEF BarrierInv
<1>2. Crossed(r) => Crossed(r)'
  BY CrossedStays
<1>3. reboots[r] > 0 => reboots'[r] > 0
  BY ProviderStays DEF BarrierInv
<1>4. /\ ledger[r].state \notin Open <=> HasResult(r)
      /\ ledger[r].dispatch.status \in {"succeeded", "outcome_unknown"} => Crossed(r)
      /\ ledger[r].dispatch.upid => reboots[r] > 0
  BY DEF DecidedRows
<1>5. CASE SameResult(r) /\ (ledger'[r].state \in Open <=> ledger[r].state \in Open)
  BY <1>2, <1>3, <1>4, <1>5 DEF SameResult, HasResult
<1>6. CASE ledger'[r] = ledger[r]
  BY <1>5, <1>6 DEF SameResult
<1>7. CASE Nears(r)
  BY <1>5, <1>7 DEF Nears, Open, PreDispatch
<1>8. CASE Begins(r)
  BY <1>5, <1>8 DEF Begins, Open, PreDispatch
<1>9. CASE Concludes(r)
  <2>1. VerificationState(ledger'[r].verification) \notin Open
    BY <1>9 DEF Concludes, VerificationState, VerificationStatus, Open, PreDispatch
  <2> QED
    BY <1>5, <1>9, <2>1 DEF Concludes, Verifying, Open, PreDispatch
<1>10. CASE Decides(r)
  <2>1. ledger'[r].state \notin Open
    BY <1>10 DEF Decides, DispatchStatus, Open, PreDispatch
  <2>2. HasResult(r)'
    BY <1>10 DEF Decides, DispatchStatus, HasResult, NoResult, Result
  <2> QED
    BY <1>2, <1>3, <1>10, <2>1, <2>2 DEF Decides
<1> QED
  BY <1>1, <1>6, <1>7, <1>8, <1>9, <1>10 DEF RowStep

\* A connection that a step leaves alone carries what it carried.
LEMMA CarriedStays ==
    ASSUME TypeInv, BarrierInv, DecidedRows, CarriedResults, ProviderCounts, [Next]_vars,
           NEW c \in Callers, callers'[c] = callers[c]
    PROVE  Carried(c)'
<1>1. CASE callers[c].pc = "idle"
  BY <1>1 DEF Carried
<1>2. CASE callers[c].pc # "idle"
  <2>1. PICK r \in Requests : r = callers[c].req
    BY <1>2, BusyCaller DEF TypeInv
  <2>2. RowStep(r)
    BY RowSteps DEF BarrierInv
  <2>3. Crossed(r) => Crossed(r)'
    BY CrossedStays
  <2>4. reboots[r] > 0 => reboots'[r] > 0
    BY ProviderStays DEF BarrierInv
  <2>5. ledger[r].dispatch.status = "succeeded" => ledger'[r].dispatch.status = "succeeded"
    BY <2>2 DEF RowStep, Nears, Begins, Concludes, Decides, SameResult, HasResult,
       NoResult, Result
  <2>6. /\ ledger[r].state # "absent" => ledger'[r].state # "absent"
        /\ ledger[r].state \notin {"absent", "claimed"}
              => ledger'[r].state \notin {"absent", "claimed"}
    <3>1. Concludes(r) => ledger'[r].state \notin {"absent", "claimed"}
      BY DEF Concludes, VerificationState, VerificationStatus
    <3> QED
      BY <2>2, <3>1 DEF RowStep, Nears, Begins, Decides, DispatchStatus
  <2> QED
    BY <2>1, <2>3, <2>4, <2>5, <2>6 DEF CarriedResults, Carried
<1> QED
  BY <1>1, <1>2

\* A connection moves by its own steps or ends.
LEMMA WhoRuns ==
    ASSUME TypeInv, [Next]_vars, NEW c \in Callers
    PROVE  callers'[c] = callers[c] \/ callers'[c] = IdleCaller \/ Dispatch(c)
<1> USE DEF TypeInv, CallersGood
<1>1. CASE UNCHANGED vars
  BY <1>1 DEF vars
<1>2. ASSUME NEW d \in Callers, Dispatch(d), d # c
      PROVE  callers'[c] = callers[c]
  <2>1. ASSUME NEW r \in Requests, NEW e \in Digests, Deliver(d, r, e)
        PROVE  callers'[c] = callers[c]
    BY <1>2, <2>1 DEF Deliver
  <2>2. /\ \A pc : Goto(d, pc) => callers'[c] = callers[c]
        /\ \A pc, res, to : GotoWith(d, pc, res, to) => callers'[c] = callers[c]
        /\ callers' = [callers EXCEPT ![d] = IdleCaller] => callers'[c] = callers[c]
    BY <1>2 DEF Goto, GotoWith
  <2>3. CASE Proceed(d)
    BY <2>2, <2>3 DEF Proceed, ClaimNew, MarkRevalidated, MarkDispatching,
       PersistDispatchResult, ClaimAgain, ClaimConflict, Refuse, AwaitResolver,
       ResolvedReplaced, ResolvedUnavailable, ResolvedMatch, LoseBarrier, AwaitHandler,
       HandlerRefuses, SendReboot, RebootAccepted, RebootUnknown, AuditResult,
       ResultImmutable, Answer
  <2>4. CASE DispatchAborts(d)
    BY <2>2, <2>4 DEF DispatchAborts
  <2> QED
    BY <1>2, <2>1, <2>3, <2>4 DEF Dispatch
<1>3. ASSUME NEW t \in Tasks, Verify(t)
      PROVE  callers' = callers
  BY <1>3 DEF Verify, BeginVerification, PersistVerificationResult,
     SkipVerification, AuditBegin, VerifierRaises, Poll,
     DeadlinePasses, ObserveReplaced, ObserveTarget, QueryFailed, QuerySucceeded,
     QueryAgain, AuditVerification, TaskAborts
<1>4. ASSUME NEW r \in Requests, Environment(r)
      PROVE  callers' = callers
  BY <1>4 DEF Environment, ProviderReboots, PostLost, GuestStops, GuestReturns,
     TaskEnds, TargetReplaced, Expire
<1>5. CASE Crash
  BY <1>5 DEF Crash
<1>6. CASE ReconcileStartup
  BY <1>6 DEF ReconcileStartup
<1>7. CASE ScheduleStartupRecovery
  BY <1>7 DEF ScheduleStartupRecovery
<1> QED
  BY <1>1, <1>2, <1>3, <1>4, <1>5, <1>6, <1>7 DEF Next, Quiescent

\* Where a step of a connection takes it.
LEMMA Goes ==
    ASSUME CallersGood, NEW c \in Callers
    PROVE  /\ \A pc : Goto(c, pc) => /\ callers'[c].pc = pc
                                     /\ callers'[c].req = callers[c].req
                                     /\ callers'[c].res = callers[c].res
                                     /\ callers'[c].to = callers[c].to
           /\ \A pc, res, to : GotoWith(c, pc, res, to) =>
                 /\ callers'[c].pc = pc /\ callers'[c].req = callers[c].req
                 /\ callers'[c].res = res /\ callers'[c].to = to
<1>1. callers[c] \in CallerType /\ callers \in [Callers -> GoodCaller]
  BY DEF CallersGood, GoodCaller
<1>2. ASSUME NEW pc, Goto(c, pc)
      PROVE  /\ callers'[c].pc = pc /\ callers'[c].req = callers[c].req
             /\ callers'[c].res = callers[c].res /\ callers'[c].to = callers[c].to
  BY <1>1, <1>2 DEF Goto, CallerType
<1>3. ASSUME NEW pc, NEW res, NEW to, GotoWith(c, pc, res, to)
      PROVE  /\ callers'[c].pc = pc /\ callers'[c].req = callers[c].req
             /\ callers'[c].res = res /\ callers'[c].to = to
  <2>1. callers'[c] = [callers[c] EXCEPT !.pc = pc, !.res = res, !.to = to]
    BY <1>1, <1>3 DEF GotoWith
  <2> QED
    BY <1>1, <2>1 DEF CallerType
<1> QED
  BY <1>2, <1>3

\* What a connection carries after its own step.
LEMMA StepCarries ==
    ASSUME TypeInv, BarrierInv, DecidedRows, CarriedResults, ProviderCounts, [Next]_vars,
           NEW c \in Callers, Proceed(c)
    PROVE  Carried(c)'
<1> USE DEF TypeInv, Running, Resumed, At
<1>0. callers[c].pc # "idle" /\ callers[c].req \in Requests
  <2>1. callers[c].pc # "idle"
    BY DEF Proceed, ClaimNew, MarkRevalidated, MarkDispatching,
       PersistDispatchResult, ClaimAgain, ClaimConflict, Refuse, AwaitResolver,
       ResolvedReplaced, ResolvedUnavailable, ResolvedMatch, LoseBarrier, AwaitHandler,
       HandlerRefuses, SendReboot, RebootAccepted, RebootUnknown, AuditResult,
       ResultImmutable, Answer
  <2> QED
    BY <2>1, BusyCaller
<1>q. PICK r \in Requests : r = callers[c].req
  BY <1>0
<1>g. /\ \A pc : Goto(c, pc) =>
            /\ callers'[c].pc = pc /\ callers'[c].req = r
            /\ callers'[c].res = callers[c].res /\ callers'[c].to = callers[c].to
      /\ \A pc, res, to : GotoWith(c, pc, res, to) =>
            /\ callers'[c].pc = pc /\ callers'[c].req = r
            /\ callers'[c].res = res /\ callers'[c].to = to
  BY <1>q, Goes
<1>c. Carried(c)
  BY DEF CarriedResults
<1>s. /\ Crossed(r) => Crossed(r)'
      /\ reboots[r] > 0 => reboots'[r] > 0
  BY CrossedStays, ProviderStays DEF BarrierInv
<1>f. /\ Result("failed", FALSE).status = "failed" /\ ~Result("failed", FALSE).upid
      /\ Result("outcome_unknown", FALSE).status = "outcome_unknown"
      /\ ~Result("outcome_unknown", FALSE).upid
      /\ Result("succeeded", TRUE).status = "succeeded"
  BY DEF Result
<1>i. callers'[c].pc \in {"idle", "accepted", "crossed", "checking"} => Carried(c)'
  BY DEF Carried
<1>n. ASSUME UNCHANGED ledger, callers'[c].pc \in {"claimed", "resolving", "matched"},
             callers'[c].req = r, ledger[r].state # "absent"
      PROVE  Carried(c)'
  BY <1>n DEF Carried
<1>e. callers' = [callers EXCEPT ![c] = IdleCaller] => Carried(c)'
  BY <1>i DEF CallersGood, IdleCaller
<1>1. CASE ClaimNew(c)
  <2>1. callers'[c].pc = "claimed" /\ callers'[c].req = r
    BY <1>1, <1>g DEF ClaimNew
  <2>2. ledger'[r] = [AbsentRow EXCEPT !.state = "claimed", !.digest = callers[c].digest]
    BY <1>1, <1>q, WriteRow DEF ClaimNew
  <2>3. ledger'[r].state = "claimed"
    BY <2>2 DEF AbsentRow
  <2> QED
    BY <2>1, <2>3 DEF Carried
<1>2. CASE ClaimAgain(c)
  <2>1. CASE HasResult(r)
    <3>1. GotoWith(c, "answering", ledger[r].dispatch, "none") /\ UNCHANGED <<ledger, log, reboots>>
      BY <1>2, <1>q, <2>1 DEF ClaimAgain, durable, provider
    <3>2. /\ callers'[c].pc = "answering" /\ callers'[c].req = r
          /\ callers'[c].res = ledger[r].dispatch
      BY <1>g, <3>1
    <3> QED
      BY <1>s, <3>1, <3>2 DEF Carried, DecidedRows
  <2>2. CASE ~HasResult(r)
    BY <1>2, <1>q, <1>g, <1>n, <2>2 DEF ClaimAgain, durable
  <2> QED
    BY <2>1, <2>2
<1>3. CASE ClaimConflict(c)
  BY <1>3, <1>e DEF ClaimConflict
<1>4. CASE Refuse(c)
  <2>1. GotoWith(c, "persisting", Result("failed", FALSE), "failed")
    BY <1>4 DEF Refuse
  <2>2. /\ callers'[c].pc = "persisting" /\ callers'[c].to = "failed"
        /\ callers'[c].res.status = "failed" /\ ~callers'[c].res.upid
    BY <1>g, <1>f, <2>1
  <2> QED
    BY <2>2 DEF Carried
<1>5. CASE AwaitResolver(c)
  BY <1>5, <1>c, <1>g, <1>q, <1>n DEF AwaitResolver, Carried, durable
<1>6. CASE ResolvedReplaced(c)
  <2>1. GotoWith(c, "persisting", Result("failed", FALSE), "target_replaced")
    BY <1>6 DEF ResolvedReplaced
  <2>2. /\ callers'[c].pc = "persisting" /\ callers'[c].to = "target_replaced"
        /\ callers'[c].res.status = "failed" /\ ~callers'[c].res.upid
    BY <1>g, <1>f, <2>1
  <2> QED
    BY <2>2 DEF Carried
<1>7. CASE ResolvedUnavailable(c)
  <2>1. GotoWith(c, "answering", Result("failed", FALSE), "unavailable")
    BY <1>7 DEF ResolvedUnavailable
  <2>2. /\ callers'[c].pc = "answering" /\ callers'[c].to = "unavailable"
        /\ callers'[c].res.status = "failed" /\ ~callers'[c].res.upid
    BY <1>g, <1>f, <2>1
  <2> QED
    BY <2>2 DEF Carried
<1>8. CASE ResolvedMatch(c)
  BY <1>8, <1>c, <1>g, <1>q, <1>n DEF ResolvedMatch, Carried, durable
<1>9. CASE MarkRevalidated(c)
  <2>1. callers'[c].pc = "revalidated" /\ callers'[c].req = r
    BY <1>9, <1>g DEF MarkRevalidated
  <2>2. ledger'[r].state \notin {"absent", "claimed"}
    <3>1. ledger[r].state # "absent"
      BY <1>9, <1>c, <1>q DEF MarkRevalidated, Carried
    <3>2. CASE ledger[r].state = "claimed"
      BY <1>9, <1>q, <3>2, MoveRow DEF MarkRevalidated
    <3>3. CASE ledger[r].state # "claimed"
      BY <1>9, <1>q, <3>1, <3>3 DEF MarkRevalidated
    <3> QED
      BY <3>2, <3>3
  <2> QED
    BY <2>1, <2>2 DEF Carried
<1>10. CASE MarkDispatching(c)
  BY <1>10, <1>g, <1>i DEF MarkDispatching
<1>11. CASE LoseBarrier(c)
  <2>0. UNCHANGED <<ledger, log, reboots>>
    BY <1>11 DEF LoseBarrier, durable, provider
  <2>1. CASE HasResult(r)
    <3>1. GotoWith(c, "answering", ledger[r].dispatch, "none")
      BY <1>11, <1>q, <2>1 DEF LoseBarrier
    <3>2. /\ callers'[c].pc = "answering" /\ callers'[c].req = r
          /\ callers'[c].res = ledger[r].dispatch
      BY <1>g, <3>1
    <3> QED
      BY <1>s, <2>0, <3>2 DEF Carried, DecidedRows
  <2>2. CASE ~HasResult(r)
    <3>1. GotoWith(c, "answering", Result("outcome_unknown", FALSE), "none")
      BY <1>11, <1>q, <2>2 DEF LoseBarrier
    <3>2. /\ callers'[c].pc = "answering" /\ callers'[c].req = r
          /\ callers'[c].res = Result("outcome_unknown", FALSE)
      BY <1>g, <3>1
    <3>3. ledger[r].state = "dispatching"
      BY <1>11, <1>c, <1>q, <2>2 DEF LoseBarrier, Carried, DecidedRows, Open, PreDispatch
    <3>4. Crossed(r)
      BY <3>3, DispatchingCrossed DEF BarrierInv
    <3> QED
      BY <1>f, <1>s, <3>2, <3>4 DEF Carried
  <2> QED
    BY <2>1, <2>2
<1>12. CASE AwaitHandler(c)
  BY <1>12, <1>g, <1>i DEF AwaitHandler
<1>13. CASE HandlerRefuses(c)
  <2>1. GotoWith(c, "returned", Result("failed", FALSE), "none")
    BY <1>13 DEF HandlerRefuses
  <2>2. /\ callers'[c].pc = "returned" /\ callers'[c].to = "none"
        /\ callers'[c].res.status = "failed" /\ ~callers'[c].res.upid
    BY <1>g, <1>f, <2>1
  <2> QED
    BY <2>2 DEF Carried
<1>14. CASE SendReboot(c)
  <2>1. callers'[c].pc = "posting" /\ callers'[c].req = r
    BY <1>14, <1>g DEF SendReboot
  <2>2. Crossed(r)
    BY <1>14, <1>q DEF SendReboot, BarrierInv, HoldersUnsent, Holding, Crossed
  <2> QED
    BY <1>s, <2>1, <2>2 DEF Carried
<1>15. CASE RebootAccepted(c)
  <2>1. GotoWith(c, "returned", Result("succeeded", TRUE), "none")
        /\ callers[c].pc = "posting" /\ reboots[r] > 0
    BY <1>15, <1>q DEF RebootAccepted
  <2>2. callers'[c].pc = "returned" /\ callers'[c].req = r
    BY <1>g, <2>1
  <2>3. Crossed(r)' /\ reboots'[r] > 0
    BY <1>c, <1>q, <1>s, <2>1 DEF Carried
  <2> QED
    BY <2>2, <2>3 DEF Carried
<1>16. CASE RebootUnknown(c)
  <2>1. GotoWith(c, "returned", Result("outcome_unknown", FALSE), "none")
        /\ callers[c].pc = "posting"
    BY <1>16 DEF RebootUnknown
  <2>2. callers'[c].pc = "returned" /\ callers'[c].req = r
        /\ callers'[c].res = Result("outcome_unknown", FALSE)
    BY <1>g, <2>1
  <2>3. Crossed(r)'
    BY <1>c, <1>q, <1>s, <2>1 DEF Carried
  <2> QED
    BY <1>f, <2>2, <2>3 DEF Carried
<1>17. CASE AuditResult(c)
  <2>1. GotoWith(c, "persisting", callers[c].res, callers[c].res.status)
        /\ callers[c].pc = "returned"
    BY <1>17 DEF AuditResult
  <2>2. /\ callers'[c].pc = "persisting" /\ callers'[c].req = r
        /\ callers'[c].res = callers[c].res /\ callers'[c].to = callers[c].res.status
    BY <1>g, <2>1
  <2>3. /\ callers[c].res.status # "failed" => Crossed(r)
        /\ callers[c].res.upid => reboots[r] > 0
    BY <1>c, <1>q, <2>1 DEF Carried
  <2>4. /\ callers'[c].res.status # "failed" => Crossed(r)'
        /\ callers'[c].res.upid => reboots'[r] > 0
    BY <1>s, <2>2, <2>3
  <2>5. callers'[c].to = callers'[c].res.status
    BY <2>2
  <2> QED
    BY <2>2, <2>4, <2>5 DEF Carried
<1>18. CASE PersistDispatchResult(c)
  <2>1. GotoWith(c, "answering", callers[c].res, "none") /\ callers[c].pc = "persisting"
    BY <1>18 DEF PersistDispatchResult
  <2>2. /\ callers'[c].pc = "answering" /\ callers'[c].req = r
        /\ callers'[c].res = callers[c].res
    BY <1>g, <2>1
  <2>3. ledger'[r].dispatch = callers[c].res
    <3>1. ledger'[r] = [ledger[r] EXCEPT !.state = callers[c].to,
                                         !.dispatch = callers[c].res]
      BY <1>18, <1>q, WriteRow DEF PersistDispatchResult
    <3>2. ledger[r] \in RowType
      BY DEF LedgerGood, GoodRow
    <3> QED
      BY <3>1, <3>2 DEF RowType
  <2> QED
    BY <1>c, <1>q, <1>s, <2>1, <2>2, <2>3 DEF Carried
<1>19. CASE ResultImmutable(c)
  BY <1>19, <1>e DEF ResultImmutable
<1>20. CASE Answer(c)
  BY <1>20, <1>e DEF Answer
<1> QED
  BY <1>1, <1>2, <1>3, <1>4, <1>5, <1>6, <1>7, <1>8, <1>9, <1>10, <1>11, <1>12,
     <1>13, <1>14, <1>15, <1>16, <1>17, <1>18, <1>19, <1>20 DEF Proceed

\* What the connections carry stays true.
LEMMA NextCarried ==
    ASSUME TypeInv, BarrierInv, DecidedRows, CarriedResults, ProviderCounts, [Next]_vars
    PROVE  CarriedResults'
<1> SUFFICES ASSUME NEW c \in Callers PROVE Carried(c)'
  BY DEF CarriedResults
<1>1. callers'[c].pc \in {"idle", "accepted"} => Carried(c)'
  BY DEF Carried
<1>2. ASSUME NEW r \in Requests, NEW d \in Digests, Deliver(c, r, d)
      PROVE  callers'[c].pc = "accepted"
  BY <1>2 DEF Deliver, TypeInv, CallersGood, IdleCaller
<1>3. callers'[c] = IdleCaller => callers'[c].pc = "idle"
  BY DEF IdleCaller
<1>4. DispatchAborts(c) => callers'[c] = IdleCaller
  BY DEF DispatchAborts, TypeInv, CallersGood
<1> QED
  BY <1>1, <1>2, <1>3, <1>4, WhoRuns, CarriedStays, StepCarries DEF Dispatch

\* Nothing was decided, carried or sent at first.
LEMMA InitFacts == Init => DecidedRows /\ CarriedResults /\ ProviderCounts
<1> SUFFICES ASSUME Init PROVE DecidedRows /\ CarriedResults /\ ProviderCounts
  OBVIOUS
<1>1. DecidedRows
  BY DEF Init, DecidedRows, AbsentRow, NoResult, Result, Open, HasResult
<1>2. CarriedResults
  BY DEF Init, CarriedResults, Carried, IdleCaller
<1>3. ProviderCounts
  <2>1. \A r \in Requests : inflight[r] = 0 /\ reboots[r] = 0 /\ posts[r] = 0
                             /\ ptask[r] = "none"
    BY DEF Init
  <2>2. ASSUME NEW r \in Requests
        PROVE  (inflight[r] + reboots[r] <= posts[r]) /\ ptask[r] = "none"
    BY <2>1
  <2> QED
    BY <2>2 DEF ProviderCounts
<1> QED
  BY <1>1, <1>2, <1>3

\* What a step relies on: types, the barrier, and what rows, connections and
\* the provider say of each other.
FactsInv == TypeInv /\ BarrierInv /\ DecidedRows /\ CarriedResults /\ ProviderCounts

\* Every reachable state satisfies it.
LEMMA SpecFacts == Spec => []FactsInv
<1>1. Init => FactsInv
  BY InitType, InitBarrier, InitFacts DEF FactsInv
<1>2. FactsInv /\ [Next]_vars => FactsInv'
  BY NextType, NextBarrier, NextDecided, NextCarried, NextCounts DEF FactsInv
<1> QED
  BY <1>1, <1>2, PTL DEF Spec

----------------------------------------------------------------------------
(* One verification task at a time.                                        *)

\* The task is past its begin.
Active(t) == tasks[t].pc \notin {"idle", "scheduled"}

\* An active task works on a row that is being verified, or has just written the
\* verdict that it is about to audit.
Owns(t) ==
    LET r == tasks[t].req IN
    \/ tasks[t].pc # "concluded" /\ Verifying(r)
    \/ /\ tasks[t].pc = "concluded"
       /\ ledger[r].verification = tasks[t].verdict
       /\ ledger[r].state = VerificationState(tasks[t].verdict)

TasksOwn == \A t \in Tasks : Active(t) => Owns(t)

\* A recovery task is named by its request, ...
TaskNames ==
    \A t \in Tasks : tasks[t].pc # "idle" =>
        /\ tasks[t].recovery <=> t \in Requests
        /\ t \in Requests => tasks[t].req = t

\* ... and while one has not begun, no connection is at work.
RecoveryFirst ==
    \A q \in Requests : tasks[q].pc = "scheduled" =>
        \A c \in Callers : callers[c].pc = "idle" /\ tasks[c].pc = "idle"

\* Nothing runs before startup is over.
NothingRuns ==
    core # "up" => /\ \A t \in Tasks : tasks[t].pc = "idle"
                   /\ \A c \in Callers : callers[c].pc = "idle"

VerifierInv == TasksOwn /\ TaskNames /\ RecoveryFirst /\ NothingRuns /\ SingleVerifier

\* A task moves by its own steps, is scheduled, or ends.
LEMMA WhoVerifies ==
    ASSUME TypeInv, [Next]_vars, NEW t \in Tasks
    PROVE  \/ tasks'[t] = tasks[t]
           \/ tasks'[t] = IdleTask
           \/ Verify(t)
           \/ t \in Callers /\ Answer(t)
           \/ ScheduleStartupRecovery
<1> USE DEF TypeInv, TasksGood
<1>1. CASE UNCHANGED vars
  BY <1>1 DEF vars
<1>2. ASSUME NEW c \in Callers, Dispatch(c), ~(c = t /\ Answer(c))
      PROVE  tasks'[t] = tasks[t]
  <2>1. ASSUME NEW r \in Requests, NEW d \in Digests, Deliver(c, r, d)
        PROVE  tasks' = tasks
    BY <2>1 DEF Deliver
  <2>2. CASE Proceed(c) /\ ~Answer(c)
    BY <2>2 DEF Proceed, ClaimNew, MarkRevalidated, MarkDispatching,
       PersistDispatchResult, ClaimAgain, ClaimConflict, Refuse, AwaitResolver,
       ResolvedReplaced, ResolvedUnavailable, ResolvedMatch, LoseBarrier, AwaitHandler,
       HandlerRefuses, SendReboot, RebootAccepted, RebootUnknown, AuditResult,
       ResultImmutable
  <2>3. CASE DispatchAborts(c)
    BY <2>3 DEF DispatchAborts
  <2>4. CASE Answer(c)
    BY <1>2, <2>4 DEF Answer
  <2> QED
    BY <1>2, <2>1, <2>2, <2>3, <2>4 DEF Dispatch
<1>3. ASSUME NEW u \in Tasks, Verify(u), u # t
      PROVE  tasks'[t] = tasks[t]
  <2>1. /\ \A pc : TaskGoto(u, pc) => tasks'[t] = tasks[t]
        /\ \A v : Conclude(u, v) => tasks'[t] = tasks[t]
        /\ tasks' = [tasks EXCEPT ![u] = IdleTask] => tasks'[t] = tasks[t]
    BY <1>3 DEF TaskGoto, Conclude
  <2>2. CASE ObserveTarget(u)
    BY <1>3, <2>2 DEF ObserveTarget
  <2>3. CASE QueryAgain(u)
    BY <1>3, <2>3 DEF QueryAgain
  <2> QED
    BY <1>3, <2>1, <2>2, <2>3 DEF Verify, BeginVerification, PersistVerificationResult,
       SkipVerification, AuditBegin, VerifierRaises, Poll, DeadlinePasses,
       ObserveReplaced, QueryFailed, QuerySucceeded, AuditVerification, TaskAborts
<1>4. ASSUME NEW r \in Requests, Environment(r)
      PROVE  tasks' = tasks
  BY <1>4 DEF Environment, ProviderReboots, PostLost, GuestStops, GuestReturns,
     TaskEnds, TargetReplaced, Expire
<1>5. CASE Crash
  BY <1>5 DEF Crash
<1>6. CASE ReconcileStartup
  BY <1>6 DEF ReconcileStartup
<1> QED
  BY <1>1, <1>2, <1>3, <1>4, <1>5, <1>6 DEF Next, Quiescent

\* Where a step of a task takes it: it keeps its request.
LEMMA TaskGoes ==
    ASSUME TasksGood, NEW t \in Tasks
    PROVE  /\ \A pc : TaskGoto(t, pc) => /\ tasks'[t].pc = pc
                                         /\ tasks'[t].req = tasks[t].req
                                         /\ tasks'[t].recovery = tasks[t].recovery
                                         /\ tasks'[t].verdict = tasks[t].verdict
                                         /\ tasks'[t].ok = tasks[t].ok
           /\ \A v : Conclude(t, v) => /\ tasks'[t].pc = "concluding"
                                       /\ tasks'[t].req = tasks[t].req
                                       /\ tasks'[t].recovery = tasks[t].recovery
                                       /\ tasks'[t].verdict = v
                                       /\ tasks'[t].ok = tasks[t].ok
<1>1. tasks[t] \in TaskType /\ tasks \in [Tasks -> GoodTask]
  BY DEF TasksGood, GoodTask
<1>2. ASSUME NEW pc, TaskGoto(t, pc)
      PROVE  /\ tasks'[t].pc = pc /\ tasks'[t].req = tasks[t].req
             /\ tasks'[t].recovery = tasks[t].recovery
             /\ tasks'[t].verdict = tasks[t].verdict /\ tasks'[t].ok = tasks[t].ok
  BY <1>1, <1>2 DEF TaskGoto, TaskType
<1>3. ASSUME NEW v, Conclude(t, v)
      PROVE  /\ tasks'[t].pc = "concluding" /\ tasks'[t].req = tasks[t].req
             /\ tasks'[t].recovery = tasks[t].recovery
             /\ tasks'[t].verdict = v /\ tasks'[t].ok = tasks[t].ok
  <2>1. tasks'[t] = [tasks[t] EXCEPT !.pc = "concluding", !.verdict = v]
    BY <1>1, <1>3 DEF Conclude
  <2> QED
    BY <1>1, <2>1 DEF TaskType
<1> QED
  BY <1>2, <1>3

\* The poll's own updates.
LEMMA PollGoes ==
    ASSUME TasksGood, NEW t \in Tasks, ObserveTarget(t) \/ QueryAgain(t)
    PROVE  /\ tasks'[t].pc \in {"querying", "polling"}
           /\ tasks'[t].req = tasks[t].req
           /\ tasks'[t].recovery = tasks[t].recovery
           /\ tasks'[t].ok # tasks[t].ok => tasks'[t].ok /\ ptask[tasks[t].req] = "ok"
           /\ tasks[t].pc \in {"observing", "querying"}
<1>1. tasks[t] \in TaskType /\ tasks \in [Tasks -> GoodTask]
  BY DEF TasksGood, GoodTask
<1>2. CASE ObserveTarget(t)
  <2>1. PICK seen : tasks' = [tasks EXCEPT ![t].pc = "querying", ![t].seen = seen]
    BY <1>2 DEF ObserveTarget
  <2>2. tasks'[t] = [tasks[t] EXCEPT !.pc = "querying", !.seen = seen]
    BY <1>1, <2>1
  <2> QED
    BY <1>1, <1>2, <2>2 DEF TaskType, ObserveTarget, TaskResumed
<1>3. CASE QueryAgain(t)
  <2>1. PICK ok \in {tasks[t].ok, tasks[t].ok \/ ptask[tasks[t].req] = "ok"} :
           tasks' = [tasks EXCEPT ![t].pc = "polling", ![t].ok = ok]
    BY <1>3 DEF QueryAgain
  <2>2. tasks'[t] = [tasks[t] EXCEPT !.pc = "polling", !.ok = ok]
    BY <1>1, <2>1
  <2>3. /\ tasks'[t].pc = "polling" /\ tasks'[t].req = tasks[t].req
        /\ tasks'[t].recovery = tasks[t].recovery /\ tasks'[t].ok = ok
    BY <1>1, <2>2 DEF TaskType
  <2>4. tasks[t].ok \in BOOLEAN
    BY <1>1 DEF TaskType
  <2>5. ok # tasks[t].ok => ok /\ ptask[tasks[t].req] = "ok"
    BY <2>1, <2>4
  <2> QED
    BY <1>3, <2>3, <2>5 DEF QueryAgain, TaskResumed
<1> QED
  BY <1>2, <1>3

\* A scheduled task.
LEMMA Scheduling ==
    ASSUME TypeInv, NEW t \in Tasks
    PROVE  /\ Answer(t) /\ t \in Callers =>
                 \/ tasks'[t] = tasks[t]
                 \/ /\ tasks'[t].pc = "scheduled" /\ tasks'[t].req = callers[t].req
                    /\ tasks'[t].recovery = FALSE /\ tasks'[t].ok = FALSE
           /\ ScheduleStartupRecovery =>
                 \/ tasks'[t] = tasks[t]
                 \/ /\ tasks'[t].pc = "scheduled" /\ tasks'[t].req = t
                    /\ tasks'[t].recovery = TRUE /\ tasks'[t].ok = FALSE
                    /\ t \in Requests
<1>1. ASSUME Answer(t), t \in Callers, tasks'[t] # tasks[t]
      PROVE  /\ tasks'[t].pc = "scheduled" /\ tasks'[t].req = callers[t].req
             /\ tasks'[t].recovery = FALSE /\ tasks'[t].ok = FALSE
  <2>1. tasks' = [tasks EXCEPT ![t] = [IdleTask EXCEPT !.pc = "scheduled",
                                                       !.req = callers[t].req]]
    BY <1>1 DEF Answer
  <2>2. tasks'[t] = [IdleTask EXCEPT !.pc = "scheduled", !.req = callers[t].req]
    BY <2>1 DEF TypeInv, TasksGood
  <2> QED
    BY <2>2 DEF IdleTask
<1>2. ASSUME ScheduleStartupRecovery, tasks'[t] # tasks[t]
      PROVE  /\ tasks'[t].pc = "scheduled" /\ tasks'[t].req = t
             /\ tasks'[t].recovery = TRUE /\ tasks'[t].ok = FALSE
             /\ t \in Requests
  <2>1. t \in Requests /\ tasks'[t] = [IdleTask EXCEPT !.pc = "scheduled", !.req = t,
                                                       !.recovery = TRUE]
    BY <1>2 DEF ScheduleStartupRecovery
  <2> QED
    BY <2>1 DEF IdleTask
<1> QED
  BY <1>1, <1>2

\* An active task was active before or has just begun; it keeps its request.
LEMMA ActiveStep ==
    ASSUME TypeInv, [Next]_vars, NEW t \in Tasks, Active(t)'
    PROVE  /\ tasks'[t].req = tasks[t].req
           /\ tasks'[t].recovery = tasks[t].recovery
           /\ Active(t) \/ BeginVerification(t)
<1> USE DEF TypeInv, TaskRunning, TaskResumed
<1>1. tasks'[t].pc \notin {"idle", "scheduled"}
  BY DEF Active
<1>2. CASE tasks'[t] = tasks[t]
  BY <1>1, <1>2 DEF Active
<1>3. CASE tasks'[t] = IdleTask
  BY <1>1, <1>3 DEF IdleTask
<1>4. CASE t \in Callers /\ Answer(t)
  BY <1>1, <1>2, <1>4, Scheduling
<1>5. CASE ScheduleStartupRecovery
  BY <1>1, <1>2, <1>5, Scheduling
<1>6. CASE Verify(t)
  <2>0. tasks' = [tasks EXCEPT ![t] = IdleTask] => tasks'[t] = IdleTask
    BY DEF TasksGood
  <2>1. CASE BeginVerification(t)
    BY <2>1, TaskGoes DEF BeginVerification
  <2>2. CASE SkipVerification(t) \/ AuditVerification(t) \/ TaskAborts(t)
    BY <1>3, <2>0, <2>2 DEF SkipVerification, AuditVerification, TaskAborts
  <2>3. CASE ObserveTarget(t) \/ QueryAgain(t)
    BY <2>3, PollGoes DEF Active
  <2>4. CASE AuditBegin(t) \/ Poll(t) \/ PersistVerificationResult(t)
    BY <2>4, TaskGoes DEF AuditBegin, Poll, LoopHead, PersistVerificationResult, Active
  <2>5. CASE VerifierRaises(t) \/ DeadlinePasses(t) \/ ObserveReplaced(t)
             \/ QueryFailed(t) \/ QuerySucceeded(t)
    BY <2>5, TaskGoes DEF VerifierRaises, DeadlinePasses, LoopHead, ObserveReplaced,
       QueryFailed, QuerySucceeded, Active
  <2> QED
    BY <1>6, <2>1, <2>2, <2>3, <2>4, <2>5 DEF Verify
<1> QED
  BY <1>2, <1>3, <1>4, <1>5, <1>6, WhoVerifies

\* A row under verification is changed only by the task that concludes it.
LEMMA WhoConcludes ==
    ASSUME TypeInv, [Next]_vars, NEW r \in Requests, Verifying(r), ledger'[r] # ledger[r]
    PROVE  \E u \in Tasks : PersistVerificationResult(u) /\ tasks[u].req = r
<1> USE DEF TypeInv
<1>1. ASSUME NEW c \in Callers, CallerWrites(c)
      PROVE  FALSE
  <2>0. PICK q \in Requests : q = callers[c].req
    BY <1>1, BusyCaller DEF CallerWrites, ClaimNew, MarkRevalidated, MarkDispatching,
       PersistDispatchResult, Running, At
  <2>1. q # r
    BY <1>1, <2>0 DEF CallerWrites, ClaimNew, MarkRevalidated, MarkDispatching,
       PersistDispatchResult, MayPersistResult, PreDispatch, Verifying
  <2>2. UNCHANGED ledger \/ \E row : Write(q, row)
    BY <1>1, <2>0 DEF CallerWrites, ClaimNew, MarkRevalidated, MarkDispatching,
       PersistDispatchResult, Move
  <2> QED
    BY <2>0, <2>1, <2>2, WriteRow
<1>2. ASSUME NEW t \in Tasks, BeginVerification(t)
      PROVE  FALSE
  <2>0. PICK q \in Requests : q = tasks[t].req
    BY <1>2, BusyTask DEF BeginVerification, TaskResumed
  <2>1. UNCHANGED ledger \/ (ledger[q].state # "verifying" /\ Move(q, "verifying"))
    BY <1>2, <2>0 DEF BeginVerification
  <2> QED
    BY <2>0, <2>1, MoveRow DEF Verifying
<1>3. ASSUME NEW t \in Tasks, PersistVerificationResult(t)
      PROVE  tasks[t].req = r
  <2>0. PICK q \in Requests : q = tasks[t].req
    BY <1>3, BusyTask DEF PersistVerificationResult, TaskRunning
  <2>1. \E row : Write(q, row)
    BY <1>3, <2>0 DEF PersistVerificationResult
  <2> QED
    BY <2>0, <2>1, WriteRow
<1>4. CASE ReconcileStartup
  BY <1>4 DEF ReconcileStartup, Verifying
<1> QED
  BY <1>1, <1>2, <1>3, <1>4, WhoWrites DEF TaskWrites

\* A task that a step leaves alone still owns its row.
LEMMA OwnsStays ==
    ASSUME FactsInv, VerifierInv, [Next]_vars, NEW t \in Tasks, Active(t),
           tasks'[t] = tasks[t]
    PROVE  Owns(t)'
<1> USE DEF FactsInv
<1>1. PICK r \in Requests : r = tasks[t].req
  BY BusyTask DEF TypeInv, Active
<1>2. Owns(t)
  BY DEF VerifierInv, TasksOwn
<1>3. CASE ledger'[r] = ledger[r]
  BY <1>1, <1>2, <1>3 DEF Owns, Verifying
<1>4. CASE ledger'[r] # ledger[r] /\ tasks[t].pc # "concluded"
  <2>1. Verifying(r)
    BY <1>1, <1>2, <1>4 DEF Owns
  <2>2. PICK u \in Tasks : PersistVerificationResult(u) /\ tasks[u].req = r
    BY <1>4, <2>1, WhoConcludes
  <2>3. tasks[u].pc = "concluding"
    BY <2>2 DEF PersistVerificationResult, TaskRunning
  <2>4. u = t
    BY <1>1, <2>2, <2>3 DEF VerifierInv, SingleVerifier, Active
  <2>5. tasks'[t].pc = "concluded"
    BY <2>2, <2>4, TaskGoes DEF PersistVerificationResult, TypeInv
  <2> QED
    BY <1>4, <2>5
<1>5. CASE ledger'[r] # ledger[r] /\ tasks[t].pc = "concluded"
  <2>1. tasks[t].verdict \in VerificationStatus
    BY <1>5, BusyTask DEF TypeInv
  <2>2. ledger[r].verification # "none"
        /\ ledger[r].state \notin Open
    BY <1>1, <1>2, <1>5, <2>1 DEF Owns, VerificationStatus, VerificationState, Open,
       PreDispatch
  <2>3. RowStep(r)
    BY RowSteps DEF BarrierInv
  <2> QED
    BY <1>5, <2>2, <2>3 DEF RowStep, Nears, Decides, Begins, Concludes, Verifying, Open,
       PreDispatch
<1> QED
  BY <1>3, <1>4, <1>5

\* A task that has taken a step owns its row.
LEMMA OwnsStep ==
    ASSUME FactsInv, VerifierInv, [Next]_vars, NEW t \in Tasks, Verify(t), Active(t)'
    PROVE  Owns(t)'
<1> USE DEF FactsInv, TypeInv, TaskRunning, TaskResumed, durable
<1>1. tasks'[t].pc \notin {"idle", "scheduled"} /\ tasks'[t].req = tasks[t].req
  BY ActiveStep DEF Active
<1>2. PICK r \in Requests : r = tasks[t].req
  <2>1. tasks[t].pc # "idle"
    BY ActiveStep DEF Active, BeginVerification
  <2> QED
    BY <2>1, BusyTask
<1>k. ASSUME UNCHANGED ledger, tasks'[t].pc # "concluded", tasks[t].pc # "concluded",
             Active(t)
      PROVE  Owns(t)'
  BY <1>1, <1>k DEF VerifierInv, TasksOwn, Owns, Verifying
<1>3. CASE BeginVerification(t)
  <2>1. tasks'[t].pc = "begun"
    BY <1>3, TaskGoes DEF BeginVerification
  <2>2. ledger[r].verification = "none"
    BY <1>2, <1>3 DEF BeginVerification, OwnsVerification
  <2>3. Verifying(r)'
    <3>1. CASE ledger[r].state = "verifying"
      BY <1>2, <1>3, <2>2, <3>1 DEF BeginVerification, Verifying
    <3>2. CASE ledger[r].state # "verifying"
      <4>1. Move(r, "verifying")
        BY <1>2, <1>3, <3>2 DEF BeginVerification
      <4> QED
        BY <2>2, <4>1, MoveRow DEF Verifying, SameVerdict
    <3> QED
      BY <3>1, <3>2
  <2> QED
    BY <1>1, <1>2, <2>1, <2>3 DEF Owns, Verifying
<1>4. CASE PersistVerificationResult(t)
  <2>1. tasks'[t].pc = "concluded" /\ tasks'[t].verdict = tasks[t].verdict
    BY <1>4, TaskGoes DEF PersistVerificationResult
  <2>2. ledger'[r] = [ledger[r] EXCEPT !.state = VerificationState(tasks[t].verdict),
                                       !.verification = tasks[t].verdict]
    BY <1>2, <1>4, WriteRow DEF PersistVerificationResult
  <2>3. ledger[r] \in RowType
    BY DEF LedgerGood, GoodRow
  <2>4. /\ ledger'[r].state = VerificationState(tasks[t].verdict)
        /\ ledger'[r].verification = tasks[t].verdict
    BY <2>2, <2>3 DEF RowType
  <2>5. tasks'[t].req = r
    BY <1>1, <1>2
  <2> QED
    BY <2>1, <2>4, <2>5 DEF Owns, VerificationState
<1>5. CASE SkipVerification(t) \/ AuditVerification(t) \/ TaskAborts(t)
  <2>1. tasks' = [tasks EXCEPT ![t] = IdleTask]
    BY <1>5 DEF SkipVerification, AuditVerification, TaskAborts
  <2> QED
    BY <1>1, <2>1 DEF TasksGood, IdleTask
<1>6. CASE ObserveTarget(t) \/ QueryAgain(t)
  <2>1. UNCHANGED ledger
    BY <1>6 DEF ObserveTarget, QueryAgain
  <2> QED
    BY <1>6, <1>k, <2>1, PollGoes DEF Active
<1>7. CASE AuditBegin(t) \/ Poll(t)
  <2>1. UNCHANGED ledger /\ tasks[t].pc \in {"begun", "starting", "polling"}
    BY <1>7 DEF AuditBegin, Poll, LoopHead
  <2>2. tasks'[t].pc \in {"starting", "observing"}
    BY <1>7, TaskGoes DEF AuditBegin, Poll
  <2> QED
    BY <1>k, <2>1, <2>2 DEF Active
<1>8. CASE VerifierRaises(t) \/ DeadlinePasses(t) \/ ObserveReplaced(t)
             \/ QueryFailed(t) \/ QuerySucceeded(t)
  <2>1. UNCHANGED ledger /\ tasks[t].pc \in {"starting", "polling", "observing", "querying"}
    BY <1>8 DEF VerifierRaises, DeadlinePasses, LoopHead, ObserveReplaced, QueryFailed,
       QuerySucceeded
  <2>2. tasks'[t].pc = "concluding"
    BY <1>8, TaskGoes DEF VerifierRaises, DeadlinePasses, ObserveReplaced, QueryFailed,
       QuerySucceeded
  <2> QED
    BY <1>k, <2>1, <2>2 DEF Active
<1> QED
  BY <1>3, <1>4, <1>5, <1>6, <1>7, <1>8 DEF Verify

\* Every active task still owns its row.
LEMMA NextOwns ==
    ASSUME FactsInv, VerifierInv, [Next]_vars
    PROVE  TasksOwn'
<1> SUFFICES ASSUME NEW t \in Tasks, Active(t)' PROVE Owns(t)'
  BY DEF TasksOwn
<1>1. tasks'[t].pc \notin {"idle", "scheduled"}
  BY DEF Active
<1>2. CASE tasks'[t] = tasks[t]
  BY <1>1, <1>2, OwnsStays DEF Active
<1>3. CASE Verify(t)
  BY <1>3, OwnsStep
<1>4. tasks'[t] # IdleTask
  BY <1>1 DEF IdleTask
<1>5. /\ t \in Callers /\ Answer(t) => tasks'[t] = tasks[t]
      /\ ScheduleStartupRecovery => tasks'[t] = tasks[t]
  BY <1>1, Scheduling DEF FactsInv
<1> QED
  BY <1>2, <1>3, <1>4, <1>5, WhoVerifies DEF FactsInv

\* A task that begins is alone: an active task of its request would have the row in
\* verification, which only a recovery takes over, and that before anybody else
\* is at work.
LEMMA BeginsAlone ==
    ASSUME FactsInv, VerifierInv, NEW t \in Tasks, BeginVerification(t),
           NEW u \in Tasks, Active(u), tasks[u].req = tasks[t].req
    PROVE  u = t
<1> USE DEF FactsInv, TypeInv
<1>1. PICK r \in Requests : r = tasks[t].req
  BY BusyTask DEF BeginVerification, TaskResumed
<1>2. ledger[r].verification = "none" /\ OwnsVerification(r, tasks[t].recovery)
  BY <1>1 DEF BeginVerification, OwnsVerification
<1>3. Verifying(r)
  <2>1. Owns(u)
    BY DEF VerifierInv, TasksOwn
  <2>2. tasks[u].pc = "concluded" => tasks[u].verdict # "none"
    BY BusyTask DEF VerificationStatus
  <2> QED
    BY <1>1, <1>2, <2>1, <2>2 DEF Owns
<1>4. tasks[t].recovery /\ tasks[t].pc = "scheduled"
  BY <1>2, <1>3 DEF OwnsVerification, Verifying, BeginVerification, TaskResumed
<1>5. t \in Requests /\ t = r
  BY <1>1, <1>4 DEF VerifierInv, TaskNames
<1>6. u \notin Callers
  BY <1>4, <1>5 DEF VerifierInv, RecoveryFirst, Active
<1>7. u \in Requests
  BY <1>6 DEF Tasks
<1> QED
  BY <1>1, <1>5, <1>7 DEF VerifierInv, TaskNames, Active

\* A second verifier never begins.
LEMMA NextSingle ==
    ASSUME FactsInv, VerifierInv, [Next]_vars
    PROVE  SingleVerifier'
<1> SUFFICES ASSUME NEW t \in Tasks, NEW u \in Tasks, Active(t)', Active(u)',
                    tasks'[t].req = tasks'[u].req
             PROVE  t = u
  BY DEF SingleVerifier, Active
<1>1. /\ tasks'[t].req = tasks[t].req /\ tasks'[u].req = tasks[u].req
      /\ Active(t) \/ BeginVerification(t)
      /\ Active(u) \/ BeginVerification(u)
  BY ActiveStep DEF FactsInv
<1>2. CASE Active(t) /\ Active(u)
  BY <1>1, <1>2 DEF VerifierInv, SingleVerifier, Active
<1>3. CASE BeginVerification(t) /\ Active(u)
  BY <1>1, <1>3, BeginsAlone
<1>4. CASE Active(t) /\ BeginVerification(u)
  BY <1>1, <1>4, BeginsAlone
<1>5. CASE BeginVerification(t) /\ BeginVerification(u)
  <2>1. tasks' = [tasks EXCEPT ![t].pc = "begun"] /\ tasks' = [tasks EXCEPT ![u].pc = "begun"]
    BY <1>5 DEF BeginVerification, TaskGoto
  <2>2. tasks[u].pc = "scheduled"
    BY <1>5 DEF BeginVerification, TaskResumed
  <2>3. t # u => tasks'[u] = tasks[u]
    BY <2>1 DEF FactsInv, TypeInv, TasksGood
  <2> QED
    BY <2>2, <2>3 DEF Active
<1> QED
  BY <1>1, <1>2, <1>3, <1>4, <1>5

\* A step of a task ends it or leaves it active.
LEMMA VerifyGoes ==
    ASSUME TypeInv, NEW t \in Tasks, Verify(t)
    PROVE  tasks'[t] = IdleTask \/ tasks'[t].pc \notin {"idle", "scheduled"}
<1> USE DEF TypeInv
<1>1. CASE SkipVerification(t) \/ AuditVerification(t) \/ TaskAborts(t)
  <2>1. tasks' = [tasks EXCEPT ![t] = IdleTask]
    BY <1>1 DEF SkipVerification, AuditVerification, TaskAborts
  <2> QED
    BY <2>1 DEF TasksGood
<1>2. CASE ObserveTarget(t) \/ QueryAgain(t)
  BY <1>2, PollGoes
<1>3. CASE BeginVerification(t) \/ AuditBegin(t) \/ Poll(t) \/ PersistVerificationResult(t)
  <2>1. \E pc \in {"begun", "starting", "observing", "concluded"} : TaskGoto(t, pc)
    BY <1>3 DEF BeginVerification, AuditBegin, Poll, PersistVerificationResult
  <2> QED
    BY <2>1, TaskGoes
<1>4. CASE VerifierRaises(t) \/ DeadlinePasses(t) \/ ObserveReplaced(t)
             \/ QueryFailed(t) \/ QuerySucceeded(t)
  <2>1. \E v : Conclude(t, v)
    BY <1>4 DEF VerifierRaises, DeadlinePasses, ObserveReplaced, QueryFailed, QuerySucceeded
  <2> QED
    BY <2>1, TaskGoes
<1> QED
  BY <1>1, <1>2, <1>3, <1>4, Zenon DEF Verify

\* Tasks keep their names.
LEMMA NextNames ==
    ASSUME TypeInv, TaskNames, [Next]_vars
    PROVE  TaskNames'
<1> SUFFICES ASSUME NEW t \in Tasks, tasks'[t].pc # "idle"
             PROVE  /\ tasks'[t].recovery <=> t \in Requests
                    /\ t \in Requests => tasks'[t].req = t
  BY DEF TaskNames
<1>1. CASE tasks'[t] = tasks[t]
  BY <1>1 DEF TaskNames
<1>2. tasks'[t] # IdleTask
  BY DEF IdleTask
<1>3. CASE Verify(t)
  <2>1. Active(t)'
    BY <1>2, <1>3, VerifyGoes DEF Active
  <2>2. /\ tasks'[t].req = tasks[t].req /\ tasks'[t].recovery = tasks[t].recovery
        /\ tasks[t].pc # "idle"
    BY <2>1, ActiveStep DEF Active, BeginVerification, TaskResumed
  <2> QED
    BY <2>2 DEF TaskNames
<1>4. CASE t \in Callers /\ Answer(t)
  <2>1. t \notin Requests
    BY <1>4, ActorsAssumption
  <2> QED
    BY <1>1, <1>4, <2>1, Scheduling
<1>5. CASE ScheduleStartupRecovery
  BY <1>1, <1>5, Scheduling
<1> QED
  BY <1>1, <1>2, <1>3, <1>4, <1>5, WhoVerifies

\* Core goes down by a crash only, and stays quiet until it is up again.
LEMMA DownSteps ==
    ASSUME [Next]_vars, core' # "up"
    PROVE  Crash \/ (core # "up" /\ UNCHANGED <<callers, tasks>>)
<1> USE DEF process
<1>1. CASE UNCHANGED vars
  BY <1>1 DEF vars
<1>2. ASSUME NEW c \in Callers, Dispatch(c)
      PROVE  core' = "up"
  <2>1. ASSUME NEW r \in Requests, NEW d \in Digests, Deliver(c, r, d)
        PROVE  core' = "up"
    BY <2>1 DEF Deliver, Resumed, At
  <2>2. CASE Proceed(c)
    BY <2>2 DEF Proceed, ClaimNew, MarkRevalidated, MarkDispatching,
       PersistDispatchResult, ClaimAgain, ClaimConflict, Refuse, AwaitResolver,
       ResolvedReplaced, ResolvedUnavailable, ResolvedMatch, LoseBarrier, AwaitHandler,
       HandlerRefuses, SendReboot, RebootAccepted, RebootUnknown, AuditResult,
       ResultImmutable, Answer, Running, Resumed, At
  <2>3. CASE DispatchAborts(c)
    BY <2>3 DEF DispatchAborts
  <2> QED
    BY <1>2, <2>1, <2>2, <2>3 DEF Dispatch
<1>3. ASSUME NEW t \in Tasks, Verify(t)
      PROVE  core' = "up"
  BY <1>3 DEF Verify, BeginVerification, PersistVerificationResult,
     SkipVerification, AuditBegin, VerifierRaises, Poll, LoopHead,
     DeadlinePasses, ObserveReplaced, ObserveTarget, QueryFailed, QuerySucceeded,
     QueryAgain, AuditVerification, TaskAborts, TaskRunning, TaskResumed
<1>4. ASSUME NEW r \in Requests, Environment(r)
      PROVE  core' = core /\ UNCHANGED <<callers, tasks>>
  BY <1>4 DEF Environment, ProviderReboots, PostLost, GuestStops, GuestReturns,
     TaskEnds, TargetReplaced, Expire
<1>5. CASE ReconcileStartup
  BY <1>5 DEF ReconcileStartup
<1>6. CASE ScheduleStartupRecovery
  BY <1>6 DEF ScheduleStartupRecovery
<1> QED
  BY <1>1, <1>2, <1>3, <1>4, <1>5, <1>6 DEF Next, Quiescent

\* Nothing runs before startup is over.
LEMMA NextNothingRuns ==
    ASSUME NothingRuns, [Next]_vars
    PROVE  NothingRuns'
<1> SUFFICES ASSUME core' # "up"
             PROVE  /\ \A t \in Tasks : tasks'[t].pc = "idle"
                    /\ \A c \in Callers : callers'[c].pc = "idle"
  BY DEF NothingRuns
<1>1. CASE Crash
  BY <1>1 DEF Crash, IdleTask, IdleCaller
<1>2. CASE core # "up" /\ UNCHANGED <<callers, tasks>>
  BY <1>2 DEF NothingRuns
<1> QED
  BY <1>1, <1>2, DownSteps

\* Recoveries begin before connections are at work.
LEMMA NextRecovery ==
    ASSUME TypeInv, VerifierInv, [Next]_vars
    PROVE  RecoveryFirst'
<1> SUFFICES ASSUME NEW q \in Requests, tasks'[q].pc = "scheduled", NEW c \in Callers
             PROVE  callers'[c].pc = "idle" /\ tasks'[c].pc = "idle"
  BY DEF RecoveryFirst
<1>0. q \in Tasks /\ c \in Tasks /\ q \notin Callers
  BY ActorsAssumption DEF Tasks
<1>1. CASE ScheduleStartupRecovery
  <2>1. core # "up" /\ callers' = callers /\ c \notin Requests
    BY <1>1, ActorsAssumption DEF ScheduleStartupRecovery
  <2>2. tasks'[c] = tasks[c]
    BY <1>0, <1>1, <2>1 DEF ScheduleStartupRecovery
  <2> QED
    BY <1>0, <2>1, <2>2 DEF VerifierInv, NothingRuns
<1>2. CASE ~ScheduleStartupRecovery
  <2>1. tasks'[q] # IdleTask
    BY DEF IdleTask
  <2>2. ~Verify(q)
    BY <1>0, <2>1, VerifyGoes
  <2>3. tasks[q].pc = "scheduled"
    BY <1>0, <1>2, <2>1, <2>2, WhoVerifies
  <2>4. callers[c].pc = "idle" /\ tasks[c].pc = "idle"
    BY <2>3 DEF VerifierInv, RecoveryFirst
  <2>5. ~Proceed(c)
    BY <2>4 DEF Proceed, ClaimNew, MarkRevalidated, MarkDispatching,
       PersistDispatchResult, ClaimAgain, ClaimConflict, Refuse, AwaitResolver,
       ResolvedReplaced, ResolvedUnavailable, ResolvedMatch, LoseBarrier, AwaitHandler,
       HandlerRefuses, SendReboot, RebootAccepted, RebootUnknown, AuditResult,
       ResultImmutable, Answer, Running, Resumed, At
  <2>6. ~Dispatch(c)
    BY <2>3, <2>4, <2>5 DEF Dispatch, Deliver, DispatchAborts
  <2>7. callers'[c].pc = "idle"
    BY <2>4, <2>6, WhoRuns DEF IdleCaller
  <2>8. ~Verify(c)
    BY <2>4 DEF Verify, BeginVerification, PersistVerificationResult,
       SkipVerification, AuditBegin, VerifierRaises, Poll, LoopHead,
       DeadlinePasses, ObserveReplaced, ObserveTarget, QueryFailed, QuerySucceeded,
       QueryAgain, AuditVerification, TaskAborts, TaskRunning, TaskResumed
  <2>9. ~Answer(c)
    BY <2>4 DEF Answer, Running, At
  <2>10. tasks'[c].pc = "idle"
    BY <1>0, <1>2, <2>4, <2>8, <2>9, WhoVerifies DEF IdleTask
  <2> QED
    BY <2>7, <2>10
<1> QED
  BY <1>1, <1>2

\* No task at first.
LEMMA InitVerifier == Init => VerifierInv
<1> SUFFICES ASSUME Init PROVE VerifierInv
  OBVIOUS
<1>1. \A t \in Tasks : tasks[t].pc = "idle"
  BY DEF Init, IdleTask
<1>2. \A c \in Callers : callers[c].pc = "idle"
  BY DEF Init, IdleCaller
<1> QED
  BY <1>1, <1>2 DEF VerifierInv, TasksOwn, Active, TaskNames, RecoveryFirst,
     NothingRuns, SingleVerifier, Tasks

\* Every step keeps the verifiers apart.
LEMMA NextVerifier ==
    ASSUME FactsInv, VerifierInv, [Next]_vars
    PROVE  VerifierInv'
  BY NextOwns, NextNames, NextRecovery, NextNothingRuns, NextSingle DEF FactsInv, VerifierInv

----------------------------------------------------------------------------
(* The audit trail and the answers are behind the ledger.                  *)

\* The statuses that report a fact of the ledger or of the provider.
Reports == {"barrier_crossed", "provider_operation_captured",
            "verification_succeeded", "verification_failed"}

\* What recording adds to a request's trail.
LEMMA RecordAdds ==
    ASSUME AuditType, NEW q \in Requests, NEW S, Record(q, S), NEW r \in Requests,
           NEW e \in audit'[r] \ audit[r]
    PROVE  q = r /\ e \in S
  BY DEF AuditType, Record

\* The steps that report.
LEMMA WhoReports ==
    ASSUME TypeInv, [Next]_vars, NEW r \in Requests,
           NEW e \in (audit'[r] \ audit[r]) \cap Reports
    PROVE  \/ \E c \in Callers : /\ AwaitHandler(c) /\ callers[c].req = r
                                 /\ e = "barrier_crossed"
           \/ \E c \in Callers : /\ AuditResult(c) /\ callers[c].req = r
                                 /\ e = "provider_operation_captured" /\ callers[c].res.upid
           \/ \E t \in Tasks : /\ AuditVerification(t) /\ tasks[t].req = r
                               /\ e = VerificationAudit(tasks[t].verdict)
<1> USE DEF TypeInv, durable, Running, Resumed, At, TaskRunning, TaskResumed
<1>e. e \in audit'[r] \ audit[r] /\ e \in Reports
  OBVIOUS
<1>k. audit' # audit
  BY <1>e
<1>1. CASE UNCHANGED vars
  BY <1>1, <1>k DEF vars
<1>2. ASSUME NEW c \in Callers, Dispatch(c)
      PROVE  \/ AwaitHandler(c) /\ callers[c].req = r /\ e = "barrier_crossed"
             \/ /\ AuditResult(c) /\ callers[c].req = r
                /\ e = "provider_operation_captured" /\ callers[c].res.upid
  <2>0. callers[c].pc # "idle" => callers[c].req \in Requests
    BY BusyCaller
  <2>1. ASSUME NEW q \in Requests, NEW d \in Digests, Deliver(c, q, d)
        PROVE  FALSE
    BY <1>e, <2>1, RecordAdds DEF Deliver, Reports
  <2>2. CASE ClaimConflict(c)
    BY <1>e, <2>0, <2>2, RecordAdds DEF ClaimConflict, Reports
  <2>3. CASE Refuse(c)
    <3>1. \E S \in {{}, {"execution_disabled"}, {"no_handler"}} : Record(callers[c].req, S)
      BY <2>3 DEF Refuse
    <3>2. callers[c].req \in Requests
      BY <2>0, <2>3 DEF Refuse
    <3> QED
      BY <1>e, <3>1, <3>2, RecordAdds DEF Reports
  <2>4. CASE ResolvedReplaced(c) \/ ResolvedUnavailable(c)
    <3>1. Record(callers[c].req, {"target_blocked"}) /\ callers[c].pc = "resolving"
      BY <2>4 DEF ResolvedReplaced, ResolvedUnavailable
    <3> QED
      BY <1>e, <2>0, <3>1, RecordAdds DEF Reports
  <2>5. CASE AwaitHandler(c)
    BY <1>e, <2>0, <2>5, RecordAdds DEF AwaitHandler
  <2>6. CASE AuditResult(c)
    <3>1. callers[c].req = r /\ e \in {"dispatch_result"}
                \cup (IF callers[c].res.upid THEN {"provider_operation_captured"} ELSE {})
                \cup ({callers[c].res.status} \cap {"outcome_unknown"})
      BY <1>e, <2>0, <2>6, RecordAdds DEF AuditResult
    <3>2. e = "provider_operation_captured" /\ callers[c].res.upid
      BY <1>e, <3>1 DEF Reports
    <3> QED
      BY <2>6, <3>1, <3>2
  <2>7. CASE /\ Proceed(c)
             /\ ~ClaimConflict(c) /\ ~Refuse(c) /\ ~ResolvedReplaced(c)
             /\ ~ResolvedUnavailable(c) /\ ~AwaitHandler(c) /\ ~AuditResult(c)
    <3>1. audit' = audit
      BY <2>7 DEF Proceed, ClaimNew, MarkRevalidated, MarkDispatching,
         PersistDispatchResult, ClaimAgain, AwaitResolver, ResolvedMatch, LoseBarrier,
         HandlerRefuses, SendReboot, RebootAccepted, RebootUnknown, ResultImmutable, Answer
    <3> QED
      BY <1>k, <3>1
  <2>8. CASE DispatchAborts(c)
    BY <1>k, <2>8 DEF DispatchAborts
  <2> QED
    BY <1>2, <2>1, <2>2, <2>3, <2>4, <2>5, <2>6, <2>7, <2>8 DEF Dispatch
<1>3. ASSUME NEW t \in Tasks, Verify(t)
      PROVE  AuditVerification(t) /\ tasks[t].req = r
             /\ e = VerificationAudit(tasks[t].verdict)
  <2>0. tasks[t].pc # "idle" => tasks[t].req \in Requests
    BY BusyTask
  <2>1. CASE AuditVerification(t)
    BY <1>e, <2>0, <2>1, RecordAdds DEF AuditVerification
  <2>2. CASE AuditBegin(t)
    <3>1. \E S \in {{"verification_resumed", "recovery_reconciled"}, {"verification_started"}} :
             Record(tasks[t].req, S)
      BY <2>2 DEF AuditBegin
    <3>2. tasks[t].req \in Requests
      BY <2>0, <2>2 DEF AuditBegin
    <3> QED
      BY <1>e, <3>1, <3>2, RecordAdds DEF Reports
  <2>3. CASE Verify(t) /\ ~AuditVerification(t) /\ ~AuditBegin(t)
    <3>1. audit' = audit
      BY <2>3 DEF Verify, BeginVerification, PersistVerificationResult,
         SkipVerification, VerifierRaises, Poll, DeadlinePasses, ObserveReplaced,
         ObserveTarget, QueryFailed, QuerySucceeded, QueryAgain, TaskAborts
    <3> QED
      BY <1>k, <3>1
  <2> QED
    BY <1>3, <2>1, <2>2, <2>3
<1>4. ASSUME NEW q \in Requests, Environment(q)
      PROVE  audit' = audit
  BY <1>4 DEF Environment, ProviderReboots, PostLost, GuestStops, GuestReturns,
     TaskEnds, TargetReplaced, Expire
<1>5. CASE Crash
  BY <1>5, <1>k DEF Crash
<1>6. CASE ReconcileStartup
  BY <1>6, <1>k DEF ReconcileStartup
<1>7. CASE ScheduleStartupRecovery
  BY <1>7, <1>e DEF ScheduleStartupRecovery, Reports
<1> QED
  BY <1>1, <1>2, <1>3, <1>4, <1>5, <1>6, <1>7, <1>k DEF Next, Quiescent

\* Which verdict an audited verification reports.
LEMMA AuditNames ==
    ASSUME NEW v \in VerificationStatus
    PROVE  /\ VerificationAudit(v) # "barrier_crossed"
           /\ VerificationAudit(v) # "provider_operation_captured"
           /\ VerificationAudit(v) = "verification_succeeded" => v = "succeeded"
           /\ VerificationAudit(v) = "verification_failed" => v = "verification_failed"
  BY DEF VerificationAudit, VerificationStatus

\* The trail stays behind the facts.
LEMMA NextAudit ==
    ASSUME FactsInv, VerifierInv, AuditNeverAhead, [Next]_vars
    PROVE  AuditNeverAhead'
<1> USE DEF FactsInv
<1> SUFFICES ASSUME NEW r \in Requests
             PROVE  /\ "barrier_crossed" \in audit'[r] => Crossed(r)'
                    /\ "provider_operation_captured" \in audit'[r] => reboots'[r] > 0
                    /\ "verification_succeeded" \in audit'[r] => ledger'[r].state = "verified"
                    /\ "verification_failed" \in audit'[r]
                          => ledger'[r].state = "verification_failed"
  BY DEF AuditNeverAhead, Crossed
<1>1. /\ "barrier_crossed" \in audit[r] => Crossed(r)
      /\ "provider_operation_captured" \in audit[r] => reboots[r] > 0
      /\ "verification_succeeded" \in audit[r] => ledger[r].state = "verified"
      /\ "verification_failed" \in audit[r] => ledger[r].state = "verification_failed"
  BY DEF AuditNeverAhead, Crossed
<1>2. /\ Crossed(r) => Crossed(r)'
      /\ reboots[r] > 0 => reboots'[r] > 0
  BY CrossedStays, ProviderStays DEF BarrierInv
<1>3. ledger[r].state \in {"verified", "verification_failed"} => ledger'[r] = ledger[r]
  <2>1. RowStep(r)
    BY RowSteps DEF BarrierInv
  <2> QED
    BY <2>1 DEF RowStep, Nears, Decides, Begins, Concludes, Verifying, PreDispatch
<1>4. ASSUME NEW e \in (audit'[r] \ audit[r]) \cap Reports
      PROVE  /\ e = "barrier_crossed" => Crossed(r)
             /\ e = "provider_operation_captured" => reboots[r] > 0
             /\ e = "verification_succeeded" => ledger'[r].state = "verified"
             /\ e = "verification_failed" => ledger'[r].state = "verification_failed"
  <2>1. ASSUME NEW c \in Callers, AwaitHandler(c), callers[c].req = r
        PROVE  Crossed(r)
    BY <2>1 DEF AwaitHandler, Running, At, BarrierInv, HoldersUnsent, Holding, Crossed
  <2>2. ASSUME NEW c \in Callers, AuditResult(c), callers[c].req = r, callers[c].res.upid
        PROVE  reboots[r] > 0
    BY <2>2 DEF AuditResult, Running, At, CarriedResults, Carried
  <2>3. ASSUME NEW t \in Tasks, AuditVerification(t), tasks[t].req = r
        PROVE  /\ tasks[t].verdict \in VerificationStatus
               /\ ledger'[r].state = VerificationState(tasks[t].verdict)
    <3>1. tasks[t].pc = "concluded" /\ UNCHANGED ledger
      BY <2>3 DEF AuditVerification, TaskRunning
    <3>2. ledger[r].state = VerificationState(tasks[t].verdict)
      BY <2>3, <3>1 DEF VerifierInv, TasksOwn, Active, Owns
    <3> QED
      BY <3>1, <3>2, BusyTask DEF TypeInv
  <2>4. ASSUME NEW v \in VerificationStatus, e = VerificationAudit(v),
               ledger'[r].state = VerificationState(v)
        PROVE  /\ e \notin {"barrier_crossed", "provider_operation_captured"}
               /\ e = "verification_succeeded" => ledger'[r].state = "verified"
               /\ e = "verification_failed" => ledger'[r].state = "verification_failed"
    BY <2>4, AuditNames DEF VerificationState
  <2> QED
    BY <2>1, <2>2, <2>3, <2>4, WhoReports
<1> QED
  BY <1>1, <1>2, <1>3, <1>4 DEF Reports

\* What the clients were told is stored: the steps that answer.
LEMMA WhoAnswers ==
    ASSUME TypeInv, [Next]_vars, NEW r \in Requests,
           NEW a \in (replies'[r] \ replies[r]) \cap {"succeeded", "outcome_unknown"}
    PROVE  \E c \in Callers : /\ callers[c].pc = "answering" /\ callers[c].req = r
                              /\ callers[c].to # "unavailable"
                              /\ a = callers[c].res.status
<1> USE DEF TypeInv, RepliesType
<1>e. a \in replies'[r] \ replies[r] /\ a \in {"succeeded", "outcome_unknown"}
  OBVIOUS
<1>k. replies' # replies
  BY <1>e
<1>r. ASSUME NEW q \in Requests, NEW b, replies' = [replies EXCEPT ![q] = @ \cup {b}]
      PROVE  q = r /\ a = b
  BY <1>e, <1>r
<1>1. CASE UNCHANGED vars
  BY <1>1, <1>k DEF vars
<1>2. ASSUME NEW c \in Callers, Dispatch(c)
      PROVE  /\ callers[c].pc = "answering" /\ callers[c].req = r
             /\ callers[c].to # "unavailable" /\ a = callers[c].res.status
  <2>0. callers[c].pc # "idle" => callers[c].req \in Requests
    BY BusyCaller
  <2>1. ASSUME NEW q \in Requests, NEW d \in Digests, Deliver(c, q, d)
        PROVE  FALSE
    BY <1>k, <2>1 DEF Deliver
  <2>2. CASE ClaimConflict(c)
    BY <1>e, <1>r, <2>0, <2>2 DEF ClaimConflict, Running, At
  <2>3. CASE ResultImmutable(c)
    BY <1>e, <1>r, <2>0, <2>3 DEF ResultImmutable, Running, At
  <2>4. CASE DispatchAborts(c)
    BY <1>e, <1>r, <2>0, <2>4 DEF DispatchAborts
  <2>5. CASE Answer(c)
    <3>1. PICK q \in Requests : q = callers[c].req
      BY <2>0, <2>5 DEF Answer, Running, At
    <3>2. PICK b : b = IF callers[c].to = "unavailable" THEN "unavailable"
                       ELSE callers[c].res.status
      OBVIOUS
    <3>3. replies' = [replies EXCEPT ![q] = @ \cup {b}]
      BY <2>5, <3>1, <3>2 DEF Answer
    <3>4. q = r /\ a = b
      BY <1>r, <3>3
    <3> QED
      BY <1>e, <2>5, <3>1, <3>2, <3>4 DEF Answer, Running, At
  <2>6. CASE Proceed(c) /\ ~ClaimConflict(c) /\ ~ResultImmutable(c) /\ ~Answer(c)
    <3>1. replies' = replies
      BY <2>6 DEF Proceed, ClaimNew, MarkRevalidated, MarkDispatching,
         PersistDispatchResult, ClaimAgain, Refuse, AwaitResolver, ResolvedReplaced,
         ResolvedUnavailable, ResolvedMatch, LoseBarrier, AwaitHandler, AuditResult,
         HandlerRefuses, SendReboot, RebootAccepted, RebootUnknown
    <3> QED
      BY <1>k, <3>1
  <2> QED
    BY <1>2, <2>1, <2>2, <2>3, <2>4, <2>5, <2>6 DEF Dispatch
<1>3. ASSUME NEW t \in Tasks, Verify(t)
      PROVE  replies' = replies
  BY <1>3 DEF Verify, BeginVerification, PersistVerificationResult,
     SkipVerification, AuditBegin, VerifierRaises, Poll,
     DeadlinePasses, ObserveReplaced, ObserveTarget, QueryFailed, QuerySucceeded,
     QueryAgain, AuditVerification, TaskAborts
<1>4. ASSUME NEW q \in Requests, Environment(q)
      PROVE  replies' = replies
  BY <1>4 DEF Environment, ProviderReboots, PostLost, GuestStops, GuestReturns,
     TaskEnds, TargetReplaced, Expire
<1>5. CASE Crash
  BY <1>5, <1>k DEF Crash
<1>6. CASE ReconcileStartup
  BY <1>6, <1>k DEF ReconcileStartup
<1>7. CASE ScheduleStartupRecovery
  BY <1>7, <1>k DEF ScheduleStartupRecovery
<1> QED
  BY <1>1, <1>2, <1>3, <1>4, <1>5, <1>6, <1>7, <1>k DEF Next, Quiescent

\* Answers stay covered by the ledger.
LEMMA NextDurable ==
    ASSUME FactsInv, AnswersAreDurable, [Next]_vars
    PROVE  AnswersAreDurable'
<1> USE DEF FactsInv
<1> SUFFICES ASSUME NEW r \in Requests
             PROVE  /\ "succeeded" \in replies'[r] => ledger'[r].dispatch.status = "succeeded"
                    /\ "outcome_unknown" \in replies'[r] => Crossed(r)'
  BY DEF AnswersAreDurable, Crossed
<1>1. /\ "succeeded" \in replies[r] => ledger[r].dispatch.status = "succeeded"
      /\ "outcome_unknown" \in replies[r] => Crossed(r)
  BY DEF AnswersAreDurable, Crossed
<1>2. Crossed(r) => Crossed(r)'
  BY CrossedStays
<1>3. ledger[r].dispatch.status = "succeeded" => ledger'[r].dispatch.status = "succeeded"
  <2>1. RowStep(r)
    BY RowSteps DEF BarrierInv
  <2> QED
    BY <2>1 DEF RowStep, Nears, Begins, Concludes, Decides, SameResult, HasResult,
       NoResult, Result
<1>4. ASSUME NEW a \in (replies'[r] \ replies[r]) \cap {"succeeded", "outcome_unknown"}
      PROVE  /\ a = "succeeded" => ledger[r].dispatch.status = "succeeded"
             /\ a = "outcome_unknown" => Crossed(r)
  <2>1. PICK c \in Callers : /\ callers[c].pc = "answering" /\ callers[c].req = r
                             /\ callers[c].to # "unavailable" /\ a = callers[c].res.status
    BY WhoAnswers
  <2> QED
    BY <2>1 DEF CarriedResults, Carried
<1> QED
  BY <1>1, <1>2, <1>3, <1>4

----------------------------------------------------------------------------
(* A verified request was rebooted.                                        *)

\* Whoever knows of success has seen the provider's task end well.
Knows(t) ==
    /\ tasks[t].pc # "idle" /\ tasks[t].ok
          => ptask[tasks[t].req] = "ok"
    /\ tasks[t].pc \in {"concluding", "concluded"} /\ tasks[t].verdict = "succeeded"
          => ptask[tasks[t].req] = "ok"

SuccessSeen ==
    /\ \A t \in Tasks : Knows(t)
    /\ \A r \in Requests : ledger[r].state = "verified" => ptask[r] = "ok"

\* What a task knows after a step.
LEMMA NextKnows ==
    ASSUME FactsInv, SuccessSeen, [Next]_vars, NEW t \in Tasks
    PROVE  Knows(t)'
<1> USE DEF FactsInv, TypeInv, TaskRunning, TaskResumed
<1>0. ASSUME NEW r \in Requests, ptask[r] = "ok" PROVE ptask'[r] = "ok"
  BY <1>0, ProviderStays DEF BarrierInv
<1>c. Knows(t)
  BY DEF SuccessSeen
<1>1. CASE tasks'[t] = tasks[t]
  <2>1. tasks[t].pc # "idle" => tasks[t].req \in Requests
    BY BusyTask
  <2> QED
    BY <1>0, <1>1, <1>c, <2>1 DEF Knows
<1>2. CASE tasks'[t] = IdleTask
  BY <1>2 DEF Knows, IdleTask
<1>3. ASSUME tasks'[t].pc = "scheduled", tasks'[t].ok = FALSE
      PROVE  Knows(t)'
  BY <1>3 DEF Knows
<1>4. CASE Verify(t)
  <2>1. CASE tasks'[t] # IdleTask
    <3>1. Active(t)' /\ tasks'[t].req = tasks[t].req /\ tasks[t].pc # "idle"
      BY <1>4, <2>1, VerifyGoes, ActiveStep DEF Active, BeginVerification
    <3>2. PICK r \in Requests : r = tasks[t].req /\ r = tasks'[t].req
      BY <3>1, BusyTask
    <3>3. tasks[t].ok => ptask[r] = "ok"
      BY <1>c, <3>1, <3>2 DEF Knows
    <3>4. CASE ObserveTarget(t) \/ QueryAgain(t)
      <4>1. tasks'[t].pc \in {"querying", "polling"}
        BY <3>4, PollGoes
      <4>2. tasks'[t].ok => ptask[r] = "ok"
        BY <3>2, <3>3, <3>4, PollGoes
      <4> QED
        BY <1>0, <3>2, <4>1, <4>2 DEF Knows
    <3>5. CASE BeginVerification(t) \/ AuditBegin(t) \/ Poll(t)
      <4>1. \E pc \in {"begun", "starting", "observing"} : TaskGoto(t, pc)
        BY <3>5 DEF BeginVerification, AuditBegin, Poll
      <4>2. tasks'[t].pc \in {"begun", "starting", "observing"} /\ tasks'[t].ok = tasks[t].ok
        BY <4>1, TaskGoes
      <4> QED
        BY <1>0, <3>2, <3>3, <4>2 DEF Knows
    <3>6. CASE PersistVerificationResult(t)
      <4>1. TaskGoto(t, "concluded") /\ tasks[t].pc = "concluding"
        BY <3>6 DEF PersistVerificationResult
      <4>2. tasks'[t].ok = tasks[t].ok /\ tasks'[t].verdict = tasks[t].verdict
        BY <4>1, TaskGoes
      <4>3. tasks[t].verdict = "succeeded" => ptask[r] = "ok"
        BY <1>c, <3>2, <4>1 DEF Knows
      <4> QED
        BY <1>0, <3>2, <3>3, <4>2, <4>3 DEF Knows
    <3>7. ASSUME NEW v, Conclude(t, v), v = "succeeded" => ptask[r] = "ok"
          PROVE  Knows(t)'
      <4>1. tasks'[t].ok = tasks[t].ok /\ tasks'[t].verdict = v
        BY <3>7, TaskGoes
      <4> QED
        BY <1>0, <3>2, <3>3, <3>7, <4>1 DEF Knows
    <3>8. CASE QuerySucceeded(t)
      <4>1. ptask[r] = "ok"
        BY <3>2, <3>3, <3>8 DEF QuerySucceeded
      <4> QED
        BY <3>7, <3>8, <4>1 DEF QuerySucceeded
    <3>9. CASE VerifierRaises(t) \/ DeadlinePasses(t) \/ ObserveReplaced(t) \/ QueryFailed(t)
      <4>1. \E v \in {"outcome_unknown", "verification_failed", "target_replaced"} :
               Conclude(t, v)
        BY <3>9 DEF VerifierRaises, DeadlinePasses, ObserveReplaced, QueryFailed
      <4> QED
        BY <3>7, <4>1
    <3>10. ~SkipVerification(t) /\ ~AuditVerification(t) /\ ~TaskAborts(t)
      <4>1. tasks' # [tasks EXCEPT ![t] = IdleTask]
        BY <2>1 DEF TasksGood
      <4> QED
        BY <4>1 DEF SkipVerification, AuditVerification, TaskAborts
    <3> QED
      BY <1>4, <3>4, <3>5, <3>6, <3>8, <3>9, <3>10, Zenon DEF Verify
  <2> QED
    BY <1>2, <2>1
<1>5. /\ t \in Callers /\ Answer(t) => Knows(t)'
      /\ ScheduleStartupRecovery => Knows(t)'
  BY <1>1, <1>3, Scheduling
<1> QED
  BY <1>1, <1>2, <1>4, <1>5, WhoVerifies

\* A verified row stays backed by the provider's task.
LEMMA NextSuccess ==
    ASSUME FactsInv, SuccessSeen, [Next]_vars
    PROVE  SuccessSeen'
<1> USE DEF FactsInv
<1>1. ASSUME NEW r \in Requests, ledger'[r].state = "verified"
      PROVE  ptask'[r] = "ok"
  <2>1. ptask[r] = "ok"
    <3>1. CASE ledger[r].state = "verified"
      BY <3>1 DEF SuccessSeen
    <3>2. CASE ledger[r].state # "verified"
      <4>1. RowStep(r)
        BY RowSteps DEF BarrierInv
      <4>2. Concludes(r) /\ ledger'[r] # ledger[r]
        BY <1>1, <3>2, <4>1 DEF RowStep, Nears, Decides, Begins, DispatchStatus
      <4>3. PICK u \in Tasks : PersistVerificationResult(u) /\ tasks[u].req = r
        BY <4>2, WhoConcludes DEF Concludes
      <4>4. tasks[u].pc = "concluding" /\ tasks[u].verdict \in VerificationStatus
        BY <4>3, BusyTask DEF PersistVerificationResult, TaskRunning, TypeInv
      <4>5. ledger'[r] = [ledger[r] EXCEPT !.state = VerificationState(tasks[u].verdict),
                                           !.verification = tasks[u].verdict]
        BY <4>3, WriteRow DEF PersistVerificationResult, TypeInv
      <4>6. ledger'[r].state = VerificationState(tasks[u].verdict)
        BY <4>5 DEF TypeInv, LedgerGood, GoodRow, RowType
      <4>7. tasks[u].verdict = "succeeded"
        BY <1>1, <4>4, <4>6 DEF VerificationState, VerificationStatus
      <4> QED
        BY <4>3, <4>4, <4>7 DEF SuccessSeen, Knows
    <3> QED
      BY <3>1, <3>2
  <2> QED
    BY <2>1, ProviderStays DEF BarrierInv
<1> QED
  BY <1>1, NextKnows DEF SuccessSeen

----------------------------------------------------------------------------
(* While one POST was delivered at most, a failure means no reboot.        *)

\* The places before the barrier.
Early == {"accepted", "claimed", "resolving", "matched", "revalidated"}

\* The only connection has not sent anything yet, its request is undecided, and
\* a failure that it carries comes from before its POST.
First(c) ==
    LET k == callers[c] IN
    /\ k.pc \in Early => posts[k.req] = 0
    /\ k.pc \notin {"idle", "answering"} => ~HasResult(k.req)
    /\ k.pc \in {"returned", "persisting"} /\ k.res.status = "failed" => posts[k.req] = 0

AloneAtWork ==
    \A c, d \in Callers : callers[c].pc # "idle" /\ callers[d].pc # "idle" => c = d

\* Nothing was delivered, so nothing was done.
NothingDone ==
    /\ \A c \in Callers : callers[c].pc = "idle"
    /\ \A r \in Requests : posts[r] = 0 /\ ledger[r].state = "absent"

FirstOnly ==
    deliveries <= 1 =>
        /\ AloneAtWork
        /\ deliveries = 0 => NothingDone
        /\ \A c \in Callers : First(c)
        /\ \A r \in Requests : ledger[r].dispatch.status = "failed" => posts[r] = 0

\* A dispatch result comes from a connection or from startup.
LEMMA WhoDecides ==
    ASSUME TypeInv, DecidedRows, [Next]_vars, NEW r \in Requests, ~SameResult(r)
    PROVE  \/ \E c \in Callers : /\ PersistDispatchResult(c) /\ callers[c].req = r
                                 /\ ledger'[r].dispatch = callers[c].res
           \/ ReconcileStartup /\ ledger'[r].dispatch.status = "outcome_unknown"
<1> USE DEF TypeInv
<1>k. ledger'[r] # ledger[r]
  BY DEF SameResult
<1>m. ASSUME NEW q \in Requests, NEW s, Move(q, s) PROVE FALSE
  BY <1>k, <1>m, MoveRow
<1>1. ASSUME NEW c \in Callers, CallerWrites(c)
      PROVE  /\ PersistDispatchResult(c) /\ callers[c].req = r
             /\ ledger'[r].dispatch = callers[c].res
  <2>0. PICK q \in Requests : q = callers[c].req
    BY <1>1, BusyCaller DEF CallerWrites, ClaimNew, MarkRevalidated, MarkDispatching,
       PersistDispatchResult, Running, At
  <2>1. CASE ClaimNew(c)
    <3>1. ledger'[q] = [AbsentRow EXCEPT !.state = "claimed", !.digest = callers[c].digest]
          /\ \A p \in Requests \ {q} : ledger'[p] = ledger[p]
      BY <2>0, <2>1, WriteRow DEF ClaimNew
    <3>2. r = q /\ ledger'[q].dispatch = NoResult /\ ledger[q].state = "absent"
      BY <1>k, <2>0, <2>1, <3>1 DEF AbsentRow, ClaimNew
    <3> QED
      BY <3>2 DEF DecidedRows, Open, HasResult, SameResult
  <2>2. CASE MarkRevalidated(c) \/ MarkDispatching(c)
    BY <1>k, <1>m, <2>0, <2>2 DEF MarkRevalidated, MarkDispatching
  <2>3. CASE PersistDispatchResult(c)
    <3>1. ledger'[q] = [ledger[q] EXCEPT !.state = callers[c].to,
                                         !.dispatch = callers[c].res]
          /\ \A p \in Requests \ {q} : ledger'[p] = ledger[p]
      BY <2>0, <2>3, WriteRow DEF PersistDispatchResult
    <3>2. ledger'[q].dispatch = callers[c].res
      BY <3>1 DEF LedgerGood, GoodRow, RowType
    <3> QED
      BY <1>k, <2>0, <2>3, <3>1, <3>2
  <2> QED
    BY <1>1, <2>1, <2>2, <2>3 DEF CallerWrites
<1>2. ASSUME NEW t \in Tasks, TaskWrites(t) PROVE FALSE
  <2>0. PICK q \in Requests : q = tasks[t].req
    BY <1>2, BusyTask DEF TaskWrites, BeginVerification, PersistVerificationResult,
       TaskRunning, TaskResumed
  <2>1. CASE BeginVerification(t)
    BY <1>k, <1>m, <2>0, <2>1 DEF BeginVerification
  <2>2. CASE PersistVerificationResult(t)
    <3>1. ledger'[q] = [ledger[q] EXCEPT !.state = VerificationState(tasks[t].verdict),
                                         !.verification = tasks[t].verdict]
          /\ \A p \in Requests \ {q} : ledger'[p] = ledger[p]
      BY <2>0, <2>2, WriteRow DEF PersistVerificationResult
    <3>2. ledger'[q].dispatch = ledger[q].dispatch
      BY <3>1 DEF LedgerGood, GoodRow, RowType
    <3> QED
      BY <1>k, <3>1, <3>2 DEF SameResult
  <2> QED
    BY <1>2, <2>1, <2>2 DEF TaskWrites
<1>3. CASE ReconcileStartup
  <2>1. ledger'[r] = UnknownAfterRestart(ledger[r]) /\ ledger[r] \in RowType
    BY <1>k, <1>3 DEF ReconcileStartup, LedgerGood, GoodRow
  <2>2. ledger'[r].dispatch = Result("outcome_unknown", FALSE)
    BY <2>1 DEF UnknownAfterRestart, RowType
  <2> QED
    BY <1>3, <2>2 DEF Result
<1> QED
  BY <1>k, <1>1, <1>2, <1>3, WhoWrites

\* How the places of a connection follow each other.
LEMMA PcSteps ==
    ASSUME CallersGood, NEW c \in Callers, Proceed(c), callers'[c].pc # "idle"
    PROVE  /\ callers'[c].req = callers[c].req
           /\ callers[c].pc \notin {"idle", "answering"}
           /\ callers'[c].pc \in Early => callers[c].pc \in Early
           /\ callers'[c].pc \in {"returned", "persisting"} /\ callers'[c].res.status = "failed"
                => \/ callers[c].pc \in Early \cup {"checking"}
                   \/ callers[c].pc = "returned" /\ callers[c].res.status = "failed"
<1> USE DEF Running, Resumed, At, Early
<1>e. callers' # [callers EXCEPT ![c] = IdleCaller]
  BY DEF CallersGood, IdleCaller
<1>1. CASE ClaimNew(c) \/ AwaitResolver(c) \/ ResolvedMatch(c) \/ MarkRevalidated(c)
           \/ MarkDispatching(c) \/ AwaitHandler(c) \/ SendReboot(c)
  <2>1. \/ callers[c].pc \in Early \ {"answering"}
           /\ \E pc \in {"claimed", "resolving", "matched", "revalidated", "crossed"} :
                 Goto(c, pc)
        \/ callers[c].pc \in Holding /\ \E pc \in {"checking", "posting"} : Goto(c, pc)
    BY <1>1 DEF ClaimNew, AwaitResolver, ResolvedMatch, MarkRevalidated, MarkDispatching,
       AwaitHandler, SendReboot, Holding
  <2> QED
    BY <2>1, Goes DEF Holding
<1>2. CASE ClaimAgain(c)
  <2>1. /\ callers[c].pc = "accepted"
        /\ \/ \E res : GotoWith(c, "answering", res, "none")
           \/ Goto(c, "claimed")
    BY <1>2 DEF ClaimAgain
  <2> QED
    BY <2>1, Goes
<1>3. CASE LoseBarrier(c) \/ ResolvedUnavailable(c) \/ PersistDispatchResult(c)
  <2>1. /\ callers[c].pc \in {"revalidated", "resolving", "persisting"}
        /\ \E res, to : GotoWith(c, "answering", res, to)
    BY <1>3 DEF LoseBarrier, ResolvedUnavailable, PersistDispatchResult
  <2> QED
    BY <2>1, Goes
<1>4. CASE Refuse(c) \/ ResolvedReplaced(c) \/ HandlerRefuses(c)
  <2>1. /\ callers[c].pc \in {"claimed", "resolving", "checking"}
        /\ \E pc \in {"persisting", "returned"} : \E res, to : GotoWith(c, pc, res, to)
    BY <1>4 DEF Refuse, ResolvedReplaced, HandlerRefuses
  <2> QED
    BY <2>1, Goes
<1>5. CASE RebootAccepted(c) \/ RebootUnknown(c)
  <2>1. callers[c].pc = "posting"
    BY <1>5 DEF RebootAccepted, RebootUnknown
  <2>2. PICK res : GotoWith(c, "returned", res, "none") /\ res.status # "failed"
    BY <1>5 DEF RebootAccepted, RebootUnknown, Result
  <2>3. /\ callers'[c].pc = "returned" /\ callers'[c].res.status # "failed"
        /\ callers'[c].req = callers[c].req
    BY <2>2, Goes
  <2> QED
    BY <2>1, <2>3
<1>6. CASE AuditResult(c)
  <2>1. callers[c].pc = "returned"
        /\ GotoWith(c, "persisting", callers[c].res, callers[c].res.status)
    BY <1>6 DEF AuditResult
  <2> QED
    BY <2>1, Goes
<1>7. ~ClaimConflict(c) /\ ~ResultImmutable(c) /\ ~Answer(c)
  BY <1>e DEF ClaimConflict, ResultImmutable, Answer
<1> QED
  BY <1>1, <1>2, <1>3, <1>4, <1>5, <1>6, <1>7, Zenon DEF Proceed

\* Only a delivery counts as one.
LEMMA WhoDelivers ==
    ASSUME TypeInv, [Next]_vars
    PROVE  \/ deliveries' = deliveries
           \/ /\ deliveries' = deliveries + 1
              /\ \E c \in Callers, r \in Requests, d \in Digests : Deliver(c, r, d)
<1> USE DEF bounds
<1>1. CASE UNCHANGED vars
  BY <1>1 DEF vars
<1>2. ASSUME NEW c \in Callers, Dispatch(c)
      PROVE  \/ deliveries' = deliveries
             \/ /\ deliveries' = deliveries + 1
                /\ \E r \in Requests, d \in Digests : Deliver(c, r, d)
  <2>1. ASSUME NEW r \in Requests, NEW d \in Digests, Deliver(c, r, d)
        PROVE  deliveries' = deliveries + 1
    BY <2>1 DEF Deliver
  <2>2. CASE Proceed(c)
    BY <2>2 DEF Proceed, ClaimNew, MarkRevalidated, MarkDispatching,
       PersistDispatchResult, ClaimAgain, ClaimConflict, Refuse, AwaitResolver,
       ResolvedReplaced, ResolvedUnavailable, ResolvedMatch, LoseBarrier, AwaitHandler,
       HandlerRefuses, SendReboot, RebootAccepted, RebootUnknown, AuditResult,
       ResultImmutable, Answer
  <2>3. CASE DispatchAborts(c)
    BY <2>3 DEF DispatchAborts
  <2> QED
    BY <1>2, <2>1, <2>2, <2>3 DEF Dispatch
<1>3. ASSUME NEW t \in Tasks, Verify(t)
      PROVE  deliveries' = deliveries
  BY <1>3 DEF Verify, BeginVerification, PersistVerificationResult,
     SkipVerification, AuditBegin, VerifierRaises, Poll,
     DeadlinePasses, ObserveReplaced, ObserveTarget, QueryFailed, QuerySucceeded,
     QueryAgain, AuditVerification, TaskAborts
<1>4. ASSUME NEW r \in Requests, Environment(r)
      PROVE  deliveries' = deliveries
  BY <1>4 DEF Environment, ProviderReboots, PostLost, GuestStops, GuestReturns,
     TaskEnds, TargetReplaced, Expire
<1>5. CASE Crash
  BY <1>5 DEF Crash
<1>6. CASE ReconcileStartup
  BY <1>6 DEF ReconcileStartup
<1>7. CASE ScheduleStartupRecovery
  BY <1>7 DEF ScheduleStartupRecovery
<1> QED
  BY <1>1, <1>2, <1>3, <1>4, <1>5, <1>6, <1>7 DEF Next, Quiescent, vars

\* Only a connection at the handler's check adds to the POSTs of its request.
LEMMA WhoPosts ==
    ASSUME TypeInv, [Next]_vars, NEW r \in Requests, posts'[r] # posts[r]
    PROVE  \E c \in Callers : /\ callers[c].pc = "checking" /\ callers[c].req = r
                              /\ callers'[c].pc = "posting"
<1> USE DEF TypeInv, PostsType
<1>1. PICK c \in Callers : SendReboot(c)
  BY WhoCounts DEF ProviderReboots, PostLost, TaskEnds
<1>2. callers[c].pc = "checking" /\ Goto(c, "posting")
  BY <1>1 DEF SendReboot, Resumed, At
<1>3. PICK q \in Requests : q = callers[c].req
  BY <1>2, BusyCaller
<1>4. posts' = [posts EXCEPT ![q] = @ + 1]
  BY <1>1, <1>3 DEF SendReboot
<1>5. callers'[c].pc = "posting"
  BY <1>2, Goes
<1> QED
  BY <1>2, <1>3, <1>4, <1>5

\* A connection that is busy after a step that delivers nothing was busy before, with
\* the same request.
LEMMA BusyBefore ==
    ASSUME TypeInv, [Next]_vars, deliveries' = deliveries,
           NEW c \in Callers, callers'[c].pc # "idle"
    PROVE  callers[c].pc # "idle" /\ (callers'[c] = callers[c] \/ Proceed(c))
<1>1. CASE callers'[c] = callers[c]
  BY <1>1
<1>2. callers'[c] # IdleCaller
  BY DEF IdleCaller
<1>3. CASE Dispatch(c)
  <2>1. ASSUME NEW r \in Requests, NEW d \in Digests, Deliver(c, r, d)
        PROVE  FALSE
    BY <2>1 DEF Deliver, TypeInv, BoundsType
  <2>2. CASE Proceed(c)
    BY <2>2, PcSteps DEF TypeInv
  <2>3. ~DispatchAborts(c)
    BY <1>2 DEF DispatchAborts, TypeInv, CallersGood
  <2> QED
    BY <1>3, <2>1, <2>2, <2>3 DEF Dispatch
<1> QED
  BY <1>1, <1>2, <1>3, WhoRuns

\* As long as nothing is delivered, nothing happens.
LEMMA NothingStays ==
    ASSUME FactsInv, NothingDone, [Next]_vars, deliveries' = deliveries
    PROVE  NothingDone'
<1> USE DEF FactsInv
<1>1. \A c \in Callers : callers'[c].pc = "idle"
  BY BusyBefore DEF NothingDone
<1>2. \A r \in Requests : posts'[r] = 0
  BY WhoPosts DEF NothingDone
<1>3. ASSUME NEW c \in Callers, CallerWrites(c) PROVE FALSE
  BY <1>3 DEF CallerWrites, ClaimNew, MarkRevalidated, MarkDispatching,
     PersistDispatchResult, Running, At, NothingDone
<1>4. ASSUME NEW t \in Tasks, TaskWrites(t) PROVE FALSE
  <2>1. PICK q \in Requests : q = tasks[t].req
    BY <1>4, BusyTask DEF TaskWrites, BeginVerification, PersistVerificationResult,
       TaskRunning, TaskResumed, TypeInv
  <2>2. ledger[q].state # "absent"
    BY <1>4, <2>1 DEF TaskWrites, BeginVerification, PersistVerificationResult, Eligible
  <2> QED
    BY <2>2 DEF NothingDone
<1>5. ASSUME ReconcileStartup, NEW r \in Requests PROVE ledger'[r] = ledger[r]
  BY <1>5 DEF ReconcileStartup, NothingDone
<1>6. \A r \in Requests : ledger'[r] = ledger[r]
  BY <1>3, <1>4, <1>5, WhoWrites
<1> QED
  BY <1>1, <1>2, <1>6 DEF NothingDone

\* The first delivery finds nothing done.
LEMMA FirstDelivered ==
    ASSUME FactsInv, NothingDone,
           NEW c \in Callers, NEW r \in Requests, NEW d \in Digests, Deliver(c, r, d)
    PROVE  /\ AloneAtWork'
           /\ \A e \in Callers : First(e)'
           /\ \A q \in Requests : ledger'[q].dispatch.status = "failed" => posts'[q] = 0
<1> USE DEF FactsInv
<1>1. /\ callers' = [callers EXCEPT ![c] = [IdleCaller EXCEPT !.pc = "accepted",
                                                              !.req = r, !.digest = d]]
      /\ UNCHANGED <<ledger, posts>>
  BY DEF Deliver
<1>2. callers'[c].pc = "accepted" /\ callers'[c].req = r
  BY <1>1 DEF TypeInv, CallersGood, IdleCaller
<1>3. \A e \in Callers \ {c} : callers'[e].pc = "idle"
  BY <1>1 DEF TypeInv, CallersGood, NothingDone
<1>4. posts'[r] = 0 /\ ~HasResult(r)'
  BY <1>1 DEF NothingDone, DecidedRows, Open, HasResult
<1>5. First(c)'
  BY <1>2, <1>4 DEF First, HasResult
<1>6. \A e \in Callers \ {c} : First(e)'
  BY <1>3 DEF First, Early
<1>7. AloneAtWork'
  BY <1>2, <1>3 DEF AloneAtWork
<1> QED
  BY <1>1, <1>5, <1>6, <1>7 DEF NothingDone

\* The only connection stays as it should be.
LEMMA NextFirstCaller ==
    ASSUME FactsInv, VerifierInv, AloneAtWork, \A c \in Callers : First(c),
           [Next]_vars, deliveries' = deliveries, NEW c \in Callers
    PROVE  First(c)'
<1> USE DEF FactsInv
<1>1. CASE callers'[c].pc = "idle"
  BY <1>1 DEF First, Early
<1>2. CASE callers'[c].pc # "idle"
  <2>1. callers[c].pc # "idle" /\ (callers'[c] = callers[c] \/ Proceed(c))
    BY <1>2, BusyBefore
  <2>2. callers'[c].req = callers[c].req
    BY <1>2, <2>1, PcSteps DEF TypeInv
  <2>3. PICK r \in Requests : r = callers[c].req
    BY <2>1, BusyCaller DEF TypeInv
  <2>4. posts'[r] = posts[r] \/ (callers[c].pc = "checking" /\ callers'[c].pc = "posting")
    BY <2>1, WhoPosts DEF AloneAtWork
  <2>5. SameResult(r) \/ callers'[c].pc = "answering"
    <3>1. ASSUME NEW d \in Callers, PersistDispatchResult(d)
          PROVE  d = c /\ callers'[c].pc = "answering"
      <4>1. callers[d].pc = "persisting" /\ GotoWith(d, "answering", callers[d].res, "none")
        BY <3>1 DEF PersistDispatchResult, Running, At
      <4>2. d = c
        BY <2>1, <4>1 DEF AloneAtWork
      <4> QED
        BY <4>1, <4>2, Goes DEF TypeInv
    <3>2. ~ReconcileStartup
      BY <2>1 DEF ReconcileStartup, VerifierInv, NothingRuns
    <3> QED
      BY <3>1, <3>2, WhoDecides
  <2>6. /\ callers[c].pc \in Early => posts[r] = 0
        /\ callers[c].pc \notin {"idle", "answering"} => ~HasResult(r)
        /\ callers[c].pc \in {"returned", "persisting"} /\ callers[c].res.status = "failed"
             => posts[r] = 0
        /\ callers[c].pc = "checking" => posts[r] = 0
    BY <2>3 DEF First, BarrierInv, HoldersUnsent, Holding
  <2>7. /\ callers'[c].pc \in Early => callers[c].pc \in Early
        /\ callers'[c].pc # "answering" => callers[c].pc # "answering"
        /\ callers'[c].pc \in {"returned", "persisting"} /\ callers'[c].res.status = "failed"
              => \/ callers[c].pc \in Early \cup {"checking"}
                 \/ /\ callers[c].pc \in {"returned", "persisting"}
                    /\ callers[c].res.status = "failed"
    <3>1. CASE callers'[c] = callers[c]
      BY <3>1
    <3>2. CASE Proceed(c)
      BY <1>2, <3>2, PcSteps DEF TypeInv
    <3> QED
      BY <2>1, <3>1, <3>2
  <2>8. callers'[c].pc \in Early => posts'[r] = 0
    BY <2>4, <2>6, <2>7 DEF Early
  <2>9. callers'[c].pc \notin {"idle", "answering"} => ~HasResult(r)'
    BY <2>1, <2>5, <2>6, <2>7 DEF SameResult, HasResult
  <2>10. callers'[c].pc \in {"returned", "persisting"} /\ callers'[c].res.status = "failed"
            => posts'[r] = 0
    BY <2>4, <2>6, <2>7
  <2>11. callers'[c].req = r
    BY <2>2, <2>3
  <2> QED
    BY <2>8, <2>9, <2>10, <2>11 DEF First, HasResult
<1> QED
  BY <1>1, <1>2

\* A stored failure of the only connection stays one without a POST.
LEMMA NextFirstFailure ==
    ASSUME FactsInv, AloneAtWork, \A c \in Callers : First(c),
           \A q \in Requests : ledger[q].dispatch.status = "failed" => posts[q] = 0,
           [Next]_vars, NEW r \in Requests, ledger'[r].dispatch.status = "failed"
    PROVE  posts'[r] = 0
<1> USE DEF FactsInv
<1>1. CASE SameResult(r)
  <2>1. ledger[r].dispatch.status = "failed" /\ HasResult(r) /\ posts[r] = 0
    BY <1>1 DEF SameResult, HasResult, NoResult, Result
  <2>2. ASSUME NEW d \in Callers, callers[d].pc = "checking" PROVE callers[d].req # r
    BY <2>1, <2>2 DEF First
  <2> QED
    BY <2>1, <2>2, WhoPosts
<1>2. CASE ~SameResult(r)
  <2>1. PICK c \in Callers : /\ PersistDispatchResult(c) /\ callers[c].req = r
                             /\ ledger'[r].dispatch = callers[c].res
    BY <1>2, WhoDecides
  <2>2. callers[c].pc = "persisting" /\ callers[c].res.status = "failed"
    BY <2>1 DEF PersistDispatchResult, Running, At
  <2>3. posts[r] = 0
    BY <2>1, <2>2 DEF First
  <2>4. ASSUME NEW d \in Callers, callers[d].pc = "checking" PROVE FALSE
    BY <2>2, <2>4 DEF AloneAtWork
  <2> QED
    BY <2>3, <2>4, WhoPosts
<1> QED
  BY <1>1, <1>2

\* Every step keeps what holds of a single POST.
LEMMA NextFirst ==
    ASSUME FactsInv, VerifierInv, FirstOnly, [Next]_vars
    PROVE  FirstOnly'
<1> USE DEF FactsInv
<1> SUFFICES ASSUME deliveries' <= 1
             PROVE  /\ AloneAtWork'
                    /\ deliveries' = 0 => NothingDone'
                    /\ \A c \in Callers : First(c)'
                    /\ \A r \in Requests :
                          ledger'[r].dispatch.status = "failed" => posts'[r] = 0
  BY DEF FirstOnly
<1>0. deliveries \in Nat
  BY DEF TypeInv, BoundsType
<1>1. ASSUME deliveries' = deliveries + 1,
             \E c \in Callers, r \in Requests, d \in Digests : Deliver(c, r, d)
      PROVE  /\ AloneAtWork' /\ deliveries' # 0
             /\ \A c \in Callers : First(c)'
             /\ \A r \in Requests :
                          ledger'[r].dispatch.status = "failed" => posts'[r] = 0
  <2>1. deliveries = 0 /\ deliveries' # 0
    BY <1>0, <1>1
  <2>2. NothingDone
    BY <2>1 DEF FirstOnly
  <2> QED
    BY <1>1, <2>1, <2>2, FirstDelivered
<1>2. CASE deliveries' = deliveries
  <2>1. /\ AloneAtWork /\ \A c \in Callers : First(c)
        /\ \A r \in Requests : ledger[r].dispatch.status = "failed" => posts[r] = 0
        /\ deliveries = 0 => NothingDone
    BY <1>2 DEF FirstOnly
  <2>2. AloneAtWork'
    BY <1>2, <2>1, BusyBefore DEF AloneAtWork
  <2>3. deliveries' = 0 => NothingDone'
    BY <1>2, <2>1, NothingStays
  <2>4. \A c \in Callers : First(c)'
    BY <1>2, <2>1, NextFirstCaller
  <2>5. \A r \in Requests : ledger'[r].dispatch.status = "failed" => posts'[r] = 0
    BY <2>1, NextFirstFailure
  <2> QED
    BY <2>2, <2>3, <2>4, <2>5
<1> QED
  BY <1>1, <1>2, WhoDelivers

----------------------------------------------------------------------------
(* The ledger and the answers of every reachable state.                    *)

\* Nothing was done or told at first.
LEMMA InitAnswers == Init => AuditNeverAhead /\ AnswersAreDurable /\ SuccessSeen /\ FirstOnly
<1> SUFFICES ASSUME Init
             PROVE  AuditNeverAhead /\ AnswersAreDurable /\ SuccessSeen /\ FirstOnly
  OBVIOUS
<1>1. AuditNeverAhead /\ AnswersAreDurable
  BY DEF Init, AuditNeverAhead, AnswersAreDurable
<1>2. SuccessSeen
  BY DEF Init, SuccessSeen, Knows, IdleTask, AbsentRow
<1>3. FirstOnly
  BY DEF Init, FirstOnly, AloneAtWork, NothingDone, First, Early, IdleCaller, AbsentRow,
     NoResult, Result
<1> QED
  BY <1>1, <1>2, <1>3

\* Everything that holds of a reachable state.
DispatchInv ==
    FactsInv /\ VerifierInv /\ AuditNeverAhead /\ AnswersAreDurable /\ SuccessSeen
      /\ FirstOnly

\* What the theorems of this module rest on holds in every state.
LEMMA SpecInv == Spec => []DispatchInv
<1>1. Init => DispatchInv
  BY InitType, InitBarrier, InitFacts, InitVerifier, InitAnswers DEF FactsInv, DispatchInv
<1>2. DispatchInv /\ [Next]_vars => DispatchInv'
  <2>1. FactsInv /\ [Next]_vars => FactsInv'
    BY NextType, NextBarrier, NextDecided, NextCarried, NextCounts DEF FactsInv
  <2> QED
    BY <2>1, NextVerifier, NextAudit, NextDurable, NextSuccess, NextFirst DEF DispatchInv
<1> QED
  BY <1>1, <1>2, PTL DEF Spec

\* The invariant says that answers are true: the reboots are among the POSTs, and a
\* task that ended well was preceded by one.
LEMMA AnswersHold == DispatchInv => AnswersAreTrue
<1> SUFFICES ASSUME DispatchInv PROVE AnswersAreTrue
  OBVIOUS
<1>0. ASSUME NEW r \in Requests
      PROVE  /\ posts[r] \in Nat /\ inflight[r] \in Nat /\ reboots[r] \in Nat
             /\ inflight[r] + reboots[r] <= posts[r]
             /\ posts[r] <= 1
             /\ ptask[r] # "none" => reboots[r] > 0
  BY <1>0 DEF DispatchInv, FactsInv, TypeInv, PostsType, ProviderType, ProviderCounts,
     BarrierInv, SentOnce
<1>1. FailureMeansNoReboot
  <2> SUFFICES ASSUME deliveries <= 1, NEW r \in Requests,
                      ledger[r].dispatch.status = "failed"
               PROVE  reboots[r] = 0
    BY DEF FailureMeansNoReboot
  <2>1. posts[r] = 0
    BY DEF DispatchInv, FirstOnly
  <2> QED
    BY <1>0, <2>1
<1>2. VerifiedMeansTaskOk
  <2> SUFFICES ASSUME NEW r \in Requests, ledger[r].state = "verified"
               PROVE  reboots[r] = 1 /\ ptask[r] = "ok"
    BY DEF VerifiedMeansTaskOk
  <2>1. ptask[r] = "ok"
    BY DEF DispatchInv, SuccessSeen
  <2>2. reboots[r] > 0
    BY <1>0, <2>1
  <2> QED
    BY <1>0, <2>1, <2>2
<1> QED
  BY <1>1, <1>2 DEF DispatchInv, AnswersAreTrue

\* The ledger is sound whenever a reader looks, for every number of requests,
\* connections, POSTs, crashes and database errors: its rows decode, their
\* transitions form one allowed chain with the barrier before the reboot, the audit
\* trail never runs ahead, and one task at most verifies a request.
THEOREM LedgerSafety == Spec => []LedgerSound
<1>1. DispatchInv => LedgerSound
  BY TypeInvStrong, BarrierInvStrong DEF DispatchInv, FactsInv, VerifierInv, LedgerSound
<1> QED
  BY <1>1, SpecInv, PTL

\* Answers are true: an answered success is the stored result and an answered
\* unknown outcome crossed the barrier, a request that was POSTed once and failed
\* was never rebooted, and a verified one was rebooted once by a task that ended
\* well.
THEOREM AnswersSafety == Spec => []AnswersAreTrue
  BY SpecInv, AnswersHold, PTL

----------------------------------------------------------------------------
(* What a connection is about to answer.                                   *)

\* A connection that answers runs; no task bears the name of one at work.
AnswersRun ==
    \A c \in Callers :
        /\ callers[c].pc = "answering" => loop = c
        /\ callers[c].pc # "idle" => tasks[c].pc = "idle"

\* The answer is the stored result, or the request is being dispatched.
Told(c) ==
    LET k == callers[c] IN
    k.pc = "answering" /\ k.to # "unavailable" =>
        \/ ledger[k.req].dispatch.status = k.res.status
        \/ k.res.status = "outcome_unknown" /\ ledger[k.req].state = "dispatching"

AllTold == \A c \in Callers : Told(c)

\* The coroutine that runs keeps the event loop unless it takes a step itself.
LEMMA LoopKept ==
    ASSUME TypeInv, [Next]_vars, NEW c \in Callers, loop = c, tasks[c].pc = "idle",
           callers'[c] = callers[c], callers[c].pc # "idle"
    PROVE  loop' = c \/ Proceed(c)
<1> USE DEF bounds
<1>0. c # NoOne
  BY ActorsAssumption
<1>1. CASE UNCHANGED vars
  BY <1>1 DEF vars
<1>2. ASSUME NEW d \in Callers, Dispatch(d)
      PROVE  loop' = c \/ Proceed(c)
  <2>1. ASSUME NEW r \in Requests, NEW e \in Digests, Deliver(d, r, e)
        PROVE  FALSE
    BY <1>0, <2>1 DEF Deliver, Resumed
  <2>2. CASE Proceed(d) /\ d # c
    <3>1. loop = NoOne \/ loop = d \/ loop' = loop
      BY <2>2 DEF Proceed, ClaimNew, MarkRevalidated, MarkDispatching,
         PersistDispatchResult, ClaimAgain, ClaimConflict, Refuse, AwaitResolver,
         ResolvedReplaced, ResolvedUnavailable, ResolvedMatch, LoseBarrier, AwaitHandler,
         HandlerRefuses, SendReboot, RebootAccepted, RebootUnknown, AuditResult,
         ResultImmutable, Answer, Running, Resumed
    <3> QED
      BY <1>0, <2>2, <3>1
  <2>3. CASE DispatchAborts(d)
    <3>1. d = c /\ callers' = [callers EXCEPT ![c] = IdleCaller]
      BY <2>3 DEF DispatchAborts
    <3>2. callers'[c] = IdleCaller
      BY <3>1 DEF TypeInv, CallersGood
    <3> QED
      BY <3>2 DEF IdleCaller
  <2> QED
    BY <1>2, <2>1, <2>2, <2>3 DEF Dispatch
<1>3. ASSUME NEW t \in Tasks, Verify(t)
      PROVE  loop' = c
  <2>1. tasks[t].pc # "idle"
    BY <1>3 DEF Verify, BeginVerification, PersistVerificationResult,
       SkipVerification, AuditBegin, VerifierRaises, Poll, LoopHead,
       DeadlinePasses, ObserveReplaced, ObserveTarget, QueryFailed, QuerySucceeded,
       QueryAgain, AuditVerification, TaskAborts, TaskRunning, TaskResumed
  <2>2. loop = NoOne \/ loop = t \/ loop' = loop
    BY <1>3 DEF Verify, BeginVerification, PersistVerificationResult,
       SkipVerification, AuditBegin, VerifierRaises, Poll, LoopHead,
       DeadlinePasses, ObserveReplaced, ObserveTarget, QueryFailed, QuerySucceeded,
       QueryAgain, AuditVerification, TaskAborts, TaskRunning, TaskResumed
  <2> QED
    BY <1>0, <2>1, <2>2
<1>4. ASSUME NEW r \in Requests, Environment(r)
      PROVE  loop' = c
  BY <1>4 DEF Environment, ProviderReboots, PostLost, GuestStops, GuestReturns,
     TaskEnds, TargetReplaced, Expire
<1>5. CASE Crash
  <2>1. callers'[c] = IdleCaller
    BY <1>5 DEF Crash
  <2> QED
    BY <2>1 DEF IdleCaller
<1>6. CASE ReconcileStartup
  BY <1>6 DEF ReconcileStartup
<1>7. CASE ScheduleStartupRecovery
  BY <1>7 DEF ScheduleStartupRecovery
<1> QED
  BY <1>1, <1>2, <1>3, <1>4, <1>5, <1>6, <1>7 DEF Next, Quiescent, vars

\* The steps after which a connection answers, and what it answers.
LEMMA WhoIsAnswering ==
    ASSUME CallersGood, NEW c \in Callers, Proceed(c), callers'[c].pc = "answering"
    PROVE  /\ loop' = c
           /\ ResolvedUnavailable(c) \/ PersistDispatchResult(c) \/ ClaimAgain(c)
                \/ LoseBarrier(c)
<1>1. \A pc : Goto(c, pc) => callers'[c].pc = pc
  BY Goes
<1>2. \A pc, res, to : GotoWith(c, pc, res, to) => callers'[c].pc = pc
  BY Goes
<1>3. callers' = [callers EXCEPT ![c] = IdleCaller] => callers'[c].pc = "idle"
  BY DEF CallersGood, IdleCaller
<1>4. CASE ResolvedUnavailable(c) \/ PersistDispatchResult(c) \/ ClaimAgain(c)
           \/ LoseBarrier(c)
  BY <1>4 DEF ResolvedUnavailable, PersistDispatchResult, ClaimAgain, LoseBarrier, Running
<1>5. ~ClaimNew(c) /\ ~MarkRevalidated(c) /\ ~MarkDispatching(c) /\ ~AwaitResolver(c)
      /\ ~ResolvedMatch(c) /\ ~AwaitHandler(c) /\ ~SendReboot(c)
  BY <1>1 DEF ClaimNew, MarkRevalidated, MarkDispatching, AwaitResolver, ResolvedMatch,
     AwaitHandler, SendReboot
<1>6. ~Refuse(c) /\ ~ResolvedReplaced(c) /\ ~HandlerRefuses(c) /\ ~RebootAccepted(c)
      /\ ~RebootUnknown(c) /\ ~AuditResult(c)
  BY <1>2 DEF Refuse, ResolvedReplaced, HandlerRefuses, RebootAccepted, RebootUnknown,
     AuditResult
<1>7. ~ClaimConflict(c) /\ ~ResultImmutable(c) /\ ~Answer(c)
  BY <1>3 DEF ClaimConflict, ResultImmutable, Answer
<1> QED
  BY <1>4, <1>5, <1>6, <1>7, Zenon DEF Proceed

\* A connection that answers keeps running.
LEMMA NextAnswersRun ==
    ASSUME FactsInv, VerifierInv, AnswersRun, [Next]_vars
    PROVE  AnswersRun'
<1> USE DEF FactsInv
<1> SUFFICES ASSUME NEW c \in Callers, callers'[c].pc # "idle"
             PROVE  /\ callers'[c].pc = "answering" => loop' = c
                    /\ tasks'[c].pc = "idle"
  BY DEF AnswersRun
<1>1. c \in Tasks /\ c \notin Requests
  BY ActorsAssumption DEF Tasks
<1>2. callers'[c] # IdleCaller
  BY DEF IdleCaller
<1>3. ~DispatchAborts(c) /\ ~Answer(c)
  BY <1>2 DEF DispatchAborts, Answer, TypeInv, CallersGood
<1>4. CASE \E r \in Requests, d \in Digests : Deliver(c, r, d)
  <2>1. callers'[c].pc = "accepted" /\ tasks'[c].pc = "idle"
    BY <1>4 DEF Deliver, TypeInv, CallersGood, IdleCaller
  <2> QED
    BY <2>1
<1>5. ASSUME callers'[c] = callers[c] \/ Proceed(c)
      PROVE  callers[c].pc # "idle" /\ tasks[c].pc = "idle" /\ tasks'[c].pc = "idle"
  <2>1. callers[c].pc # "idle" /\ tasks[c].pc = "idle"
    BY <1>5, PcSteps DEF AnswersRun, TypeInv
  <2>2. ~Verify(c)
    BY <2>1 DEF Verify, BeginVerification, PersistVerificationResult,
       SkipVerification, AuditBegin, VerifierRaises, Poll, LoopHead,
       DeadlinePasses, ObserveReplaced, ObserveTarget, QueryFailed, QuerySucceeded,
       QueryAgain, AuditVerification, TaskAborts, TaskRunning, TaskResumed
  <2>3. ScheduleStartupRecovery => tasks'[c] = tasks[c]
    BY <1>1, Scheduling
  <2>4. tasks'[c] = tasks[c] \/ tasks'[c] = IdleTask
    BY <1>1, <1>3, <2>2, <2>3, WhoVerifies
  <2> QED
    BY <2>1, <2>4 DEF IdleTask
<1>6. CASE Proceed(c)
  BY <1>5, <1>6, WhoIsAnswering DEF TypeInv
<1>7. CASE callers'[c] = callers[c] /\ ~Proceed(c)
  <2>1. callers'[c].pc = "answering" => loop = c
    BY <1>7 DEF AnswersRun
  <2> QED
    BY <1>5, <1>7, <2>1, LoopKept
<1> QED
  BY <1>2, <1>3, <1>4, <1>6, <1>7, WhoRuns DEF Dispatch

\* What it answers stays the case until it has answered.
LEMMA NextTold ==
    ASSUME FactsInv, VerifierInv, AnswersRun, AllTold, [Next]_vars
    PROVE  AllTold'
<1> USE DEF FactsInv
<1> SUFFICES ASSUME NEW c \in Callers, callers'[c].pc = "answering" PROVE Told(c)'
  BY DEF AllTold, Told
<1>1. CASE Proceed(c)
  <2>1. PICK r \in Requests : r = callers[c].req
    BY <1>1, PcSteps, BusyCaller DEF TypeInv
  <2>2. callers'[c].req = r
    BY <1>1, <2>1, PcSteps DEF TypeInv
  <2>3. CASE ResolvedUnavailable(c)
    <3>1. callers' = [callers EXCEPT ![c].pc = "answering",
                                     ![c].res = Result("failed", FALSE),
                                     ![c].to = "unavailable"]
      BY <2>3 DEF ResolvedUnavailable, GotoWith
    <3>2. callers'[c].to = "unavailable"
      BY <3>1 DEF TypeInv, CallersGood, GoodCaller, CallerType
    <3> QED
      BY <3>2 DEF Told
  <2>4. CASE PersistDispatchResult(c)
    <3>1. ledger'[r] = [ledger[r] EXCEPT !.state = callers[c].to,
                                         !.dispatch = callers[c].res]
      BY <2>1, <2>4, WriteRow DEF PersistDispatchResult, TypeInv
    <3>2. ledger'[r].dispatch = callers[c].res
      BY <3>1 DEF TypeInv, LedgerGood, GoodRow, RowType
    <3>3. callers'[c].res = callers[c].res
      BY <2>4, Goes DEF PersistDispatchResult, TypeInv
    <3> QED
      BY <2>2, <3>2, <3>3 DEF Told
  <2>5. CASE (ClaimAgain(c) \/ LoseBarrier(c)) /\ HasResult(r)
    <3>1. GotoWith(c, "answering", ledger[r].dispatch, "none") /\ ledger' = ledger
      BY <2>1, <2>5 DEF ClaimAgain, LoseBarrier, durable
    <3>2. callers'[c].res = ledger'[r].dispatch
      BY <3>1, Goes DEF TypeInv
    <3> QED
      BY <2>2, <3>2 DEF Told
  <2>6. CASE ClaimAgain(c) /\ ~HasResult(r)
    <3>1. Goto(c, "claimed")
      BY <2>1, <2>6 DEF ClaimAgain
    <3> QED
      BY <3>1, Goes DEF TypeInv
  <2>7. CASE LoseBarrier(c) /\ ~HasResult(r)
    <3>1. /\ GotoWith(c, "answering", Result("outcome_unknown", FALSE), "none")
          /\ ledger' = ledger /\ callers[c].pc = "revalidated"
          /\ ledger[r].state # "revalidated"
      BY <2>1, <2>7 DEF LoseBarrier, durable, Running, At
    <3>2. callers'[c].res.status = "outcome_unknown"
      BY <3>1, Goes DEF TypeInv, Result
    <3>3. ledger[r].state = "dispatching"
      BY <2>1, <2>7, <3>1 DEF CarriedResults, Carried, DecidedRows, Open, PreDispatch
    <3> QED
      BY <2>2, <3>1, <3>2, <3>3 DEF Told
  <2> QED
    BY <1>1, <2>3, <2>4, <2>5, <2>6, <2>7, WhoIsAnswering DEF TypeInv
<1>2. CASE callers'[c] = callers[c]
  <2>1. PICK r \in Requests : r = callers[c].req
    BY <1>2, BusyCaller DEF TypeInv
  <2>2. loop = c /\ core = "up" /\ Told(c)
    BY <1>2 DEF AnswersRun, VerifierInv, NothingRuns, AllTold
  <2>3. SameResult(r)
    <3>1. ASSUME NEW d \in Callers, PersistDispatchResult(d) PROVE FALSE
      BY <1>2, <2>2, <3>1 DEF PersistDispatchResult, Running, At
    <3>2. ~ReconcileStartup
      BY <2>2 DEF ReconcileStartup
    <3> QED
      BY <3>1, <3>2, WhoDecides
  <2>4. ledger[r].state = "dispatching" => ledger'[r].state = "dispatching"
    <3>1. RowStep(r)
      BY RowSteps DEF BarrierInv
    <3>2. ~Decides(r)
      BY <2>3 DEF Decides, SameResult, HasResult, NoResult, Result, DispatchStatus
    <3> QED
      BY <3>1, <3>2 DEF RowStep, Nears, Begins, Concludes, Verifying
  <2> QED
    BY <1>2, <2>1, <2>2, <2>3, <2>4 DEF Told, SameResult
<1>3. callers'[c] # IdleCaller
  BY DEF IdleCaller
<1>4. ASSUME NEW r \in Requests, NEW d \in Digests, Deliver(c, r, d) PROVE FALSE
  BY <1>4 DEF Deliver, TypeInv, CallersGood, IdleCaller
<1>5. ~DispatchAborts(c)
  BY <1>3 DEF DispatchAborts, TypeInv, CallersGood
<1> QED
  BY <1>1, <1>2, <1>3, <1>4, <1>5, WhoRuns DEF Dispatch

----------------------------------------------------------------------------
(* Refinement: the client sees the abstract lifecycle.                     *)

\* What the abstract specification reads of the rows and of the answers.
States == [r \in Requests |-> ledger[r].state]
Results == [r \in Requests |-> ledger[r].dispatch.status]
Seen == [r \in Requests |-> {ClientSees(a) : a \in replies[r]}]

\* A write of one row, as it is seen.
LEMMA WriteSeen ==
    ASSUME LedgerGood, NEW r \in Requests, NEW row, Write(r, row)
    PROVE  /\ States' = [States EXCEPT ![r] = row.state]
           /\ Results' = [Results EXCEPT ![r] = row.dispatch.status]
<1>1. ledger' = [ledger EXCEPT ![r] = row]
  BY DEF Write
<1> QED
  BY <1>1 DEF LedgerGood, States, Results

\* A change of state only, as it is seen.
LEMMA MoveSeen ==
    ASSUME LedgerGood, NEW r \in Requests, NEW to, Move(r, to)
    PROVE  Lifecycle!Move(r, to) /\ Results' = Results
<1>1. ledger[r] \in RowType
  BY DEF LedgerGood, GoodRow
<1>2. PICK row : row = [ledger[r] EXCEPT !.state = to]
  OBVIOUS
<1>3. row.state = to /\ row.dispatch = ledger[r].dispatch
  BY <1>1, <1>2 DEF RowType
<1>4. Write(r, row)
  BY <1>2 DEF Move
<1>5. States' = [States EXCEPT ![r] = to]
      /\ Results' = [Results EXCEPT ![r] = ledger[r].dispatch.status]
  BY <1>3, <1>4, WriteSeen
<1>6. Results' = Results
  BY <1>5 DEF Results
<1> QED
  BY <1>5, <1>6 DEF Lifecycle!Move, States

\* One more answer, as it is seen.
LEMMA ReplySeen ==
    ASSUME RepliesType, NEW r \in Requests, NEW a,
           replies' = [replies EXCEPT ![r] = @ \cup {a}]
    PROVE  Seen' = [Seen EXCEPT ![r] = @ \cup {ClientSees(a)}]
<1>1. ASSUME NEW q \in Requests
      PROVE  Seen'[q] = IF q = r THEN Seen[q] \cup {ClientSees(a)} ELSE Seen[q]
  <2>1. replies'[q] = IF q = r THEN replies[q] \cup {a} ELSE replies[q]
    BY DEF RepliesType
  <2>2. {ClientSees(b) : b \in replies'[q]} =
           IF q = r THEN {ClientSees(b) : b \in replies[q]} \cup {ClientSees(a)}
                    ELSE {ClientSees(b) : b \in replies[q]}
    BY <2>1
  <2> QED
    BY <2>2 DEF Seen
<1>2. Seen' = [q \in Requests |-> Seen'[q]]
  BY DEF Seen
<1>3. [Seen EXCEPT ![r] = @ \cup {ClientSees(a)}] =
         [q \in Requests |-> IF q = r THEN Seen[q] \cup {ClientSees(a)} ELSE Seen[q]]
  BY DEF Seen
<1> QED
  BY <1>1, <1>2, <1>3

\* Nobody is told anything, or one connection is told one thing and nothing else
\* that a client sees changes.
LEMMA WhoIsTold ==
    ASSUME TypeInv, [Next]_vars
    PROVE  \/ replies' = replies
           \/ /\ ledger' = ledger
              /\ \E c \in Callers : \E a :
                    /\ callers[c].pc # "idle"
                    /\ replies' = [replies EXCEPT ![callers[c].req] = @ \cup {a}]
                    /\ \/ a \in {"conflict", "error", "unavailable"}
                       \/ /\ callers[c].pc = "answering" /\ callers[c].to # "unavailable"
                          /\ a = callers[c].res.status
<1> USE DEF durable
<1>1. CASE UNCHANGED vars
  BY <1>1 DEF vars
<1>2. ASSUME NEW c \in Callers, Dispatch(c), replies' # replies
      PROVE  /\ ledger' = ledger /\ callers[c].pc # "idle"
             /\ \E a :
                   /\ replies' = [replies EXCEPT ![callers[c].req] = @ \cup {a}]
                   /\ \/ a \in {"conflict", "error", "unavailable"}
                      \/ /\ callers[c].pc = "answering" /\ callers[c].to # "unavailable"
                         /\ a = callers[c].res.status
  <2>1. ASSUME NEW q \in Requests, NEW d \in Digests, Deliver(c, q, d)
        PROVE  FALSE
    BY <1>2, <2>1 DEF Deliver
  <2>2. CASE ClaimConflict(c)
    BY <2>2 DEF ClaimConflict, Running, At
  <2>3. CASE ResultImmutable(c)
    BY <2>3 DEF ResultImmutable, Running, At
  <2>4. CASE DispatchAborts(c)
    BY <2>4 DEF DispatchAborts
  <2>5. CASE Answer(c)
    <3>1. PICK b : b = IF callers[c].to = "unavailable" THEN "unavailable"
                       ELSE callers[c].res.status
      OBVIOUS
    <3>2. replies' = [replies EXCEPT ![callers[c].req] = @ \cup {b}]
          /\ ledger' = ledger /\ callers[c].pc = "answering"
      BY <2>5, <3>1 DEF Answer, Running, At
    <3> QED
      BY <3>1, <3>2
  <2>6. CASE Proceed(c) /\ ~ClaimConflict(c) /\ ~ResultImmutable(c) /\ ~Answer(c)
    <3>1. replies' = replies
      BY <2>6 DEF Proceed, ClaimNew, MarkRevalidated, MarkDispatching,
         PersistDispatchResult, ClaimAgain, Refuse, AwaitResolver, ResolvedReplaced,
         ResolvedUnavailable, ResolvedMatch, LoseBarrier, AwaitHandler, AuditResult,
         HandlerRefuses, SendReboot, RebootAccepted, RebootUnknown
    <3> QED
      BY <1>2, <3>1
  <2> QED
    BY <1>2, <2>1, <2>2, <2>3, <2>4, <2>5, <2>6 DEF Dispatch
<1>3. ASSUME NEW t \in Tasks, Verify(t)
      PROVE  replies' = replies
  BY <1>3 DEF Verify, BeginVerification, PersistVerificationResult,
     SkipVerification, AuditBegin, VerifierRaises, Poll,
     DeadlinePasses, ObserveReplaced, ObserveTarget, QueryFailed, QuerySucceeded,
     QueryAgain, AuditVerification, TaskAborts
<1>4. ASSUME NEW q \in Requests, Environment(q)
      PROVE  replies' = replies
  BY <1>4 DEF Environment, ProviderReboots, PostLost, GuestStops, GuestReturns,
     TaskEnds, TargetReplaced, Expire
<1>5. CASE Crash
  BY <1>5 DEF Crash
<1>6. CASE ReconcileStartup
  BY <1>6 DEF ReconcileStartup
<1>7. CASE ScheduleStartupRecovery
  BY <1>7 DEF ScheduleStartupRecovery
<1> QED
  BY <1>1, <1>2, <1>3, <1>4, <1>5, <1>6, <1>7 DEF Next, Quiescent, vars

\* An answer is one that the abstract specification allows.
LEMMA AnswerSeen ==
    ASSUME FactsInv, AllTold, [Next]_vars, replies' # replies
    PROVE  \E r \in Requests : \E a \in Lifecycle!ResultStatus \cup {"error"} :
              Lifecycle!Answer(r, a)
<1> USE DEF FactsInv
<1>1. PICK c \in Callers : \E a :
         /\ callers[c].pc # "idle"
         /\ replies' = [replies EXCEPT ![callers[c].req] = @ \cup {a}]
         /\ \/ a \in {"conflict", "error", "unavailable"}
            \/ /\ callers[c].pc = "answering" /\ callers[c].to # "unavailable"
               /\ a = callers[c].res.status
  BY WhoIsTold
<1>2. PICK r \in Requests : r = callers[c].req
  BY <1>1, BusyCaller DEF TypeInv
<1>3. PICK a : /\ replies' = [replies EXCEPT ![r] = @ \cup {a}]
               /\ \/ a \in {"conflict", "error", "unavailable"}
                  \/ /\ callers[c].pc = "answering" /\ callers[c].to # "unavailable"
                     /\ a = callers[c].res.status
  BY <1>1, <1>2
<1>4. PICK b : b = ClientSees(a)
  OBVIOUS
<1>5. \/ b \in {"failed", "error"}
      \/ b = ledger[r].dispatch.status /\ b \in DispatchStatus
      \/ b = "outcome_unknown" /\ ledger[r].state = "dispatching"
  <2>1. CASE a \in {"conflict", "error", "unavailable"}
    BY <1>4, <2>1 DEF ClientSees
  <2>2. CASE callers[c].pc = "answering" /\ callers[c].to # "unavailable"
             /\ a = callers[c].res.status
    <3>1. a \in DispatchStatus
      BY <2>2, BusyCaller DEF TypeInv
    <3>2. b = a
      BY <1>4, <3>1 DEF ClientSees, DispatchStatus
    <3>3. \/ ledger[r].dispatch.status = a
          \/ a = "outcome_unknown" /\ ledger[r].state = "dispatching"
      BY <1>2, <2>2 DEF AllTold, Told
    <3> QED
      BY <3>1, <3>2, <3>3
  <2> QED
    BY <1>3, <2>1, <2>2
<1>6. States[r] = ledger[r].state /\ Results[r] = ledger[r].dispatch.status
  BY DEF States, Results
<1>7. b \in ({Results[r]} \ {"none"})
             \cup (IF States[r] = "dispatching" THEN {"outcome_unknown"} ELSE {})
             \cup {"failed", "error"}
  BY <1>5, <1>6 DEF DispatchStatus
<1>8. Seen' = [Seen EXCEPT ![r] = @ \cup {b}]
  BY <1>3, <1>4, ReplySeen DEF TypeInv
<1>9. States' = States /\ Results' = Results
  <2>1. ledger' = ledger
    BY WhoIsTold
  <2> QED
    BY <2>1 DEF States, Results
<1>10. Lifecycle!Answer(r, b)
  BY <1>7, <1>8, <1>9 DEF Lifecycle!Answer, Lifecycle!Answers, States, Results, Seen
<1>11. b \in Lifecycle!ResultStatus \cup {"error"}
  BY <1>5 DEF DispatchStatus, Lifecycle!ResultStatus
<1> QED
  BY <1>10, <1>11

\* A connection's transaction claims, advances or decides its request.
LEMMA CallerSeen ==
    ASSUME FactsInv, NEW c \in Callers, CallerWrites(c), Seen' = Seen
    PROVE  \/ States' = States /\ Results' = Results
           \/ \E r \in Requests :
                 \/ Lifecycle!Claim(r) \/ Lifecycle!Advance(r)
                 \/ \E status \in Lifecycle!ResultStatus : Lifecycle!Decide(r, status)
<1> USE DEF FactsInv, TypeInv
<1>1. PICK r \in Requests : r = callers[c].req
  BY BusyCaller DEF CallerWrites, ClaimNew, MarkRevalidated, MarkDispatching,
     PersistDispatchResult, Running, At
<1>2. States[r] = ledger[r].state /\ Results[r] = ledger[r].dispatch.status
  BY DEF States, Results
<1>3. CASE ClaimNew(c)
  <2>1. PICK row : /\ row = [AbsentRow EXCEPT !.state = "claimed",
                                              !.digest = callers[c].digest]
                   /\ Write(r, row) /\ ledger[r].state = "absent"
    BY <1>1, <1>3 DEF ClaimNew
  <2>2. row.state = "claimed" /\ row.dispatch = NoResult
    BY <2>1 DEF AbsentRow
  <2>3. ledger[r].dispatch = NoResult
    BY <2>1 DEF DecidedRows, Open, HasResult
  <2>4. States' = [States EXCEPT ![r] = "claimed"]
        /\ Results' = [Results EXCEPT ![r] = ledger[r].dispatch.status]
    <3>1. /\ States' = [States EXCEPT ![r] = row.state]
          /\ Results' = [Results EXCEPT ![r] = row.dispatch.status]
      BY <2>1, WriteSeen
    <3> QED
      BY <2>2, <2>3, <3>1
  <2>5. Results' = Results
    BY <2>4 DEF Results
  <2>6. Lifecycle!Claim(r)
    BY <1>2, <2>1, <2>4, <2>5 DEF Lifecycle!Claim, Lifecycle!Move, States, Results, Seen
  <2> QED
    BY <2>6
<1>4. CASE MarkRevalidated(c) \/ MarkDispatching(c)
  <2>1. CASE ledger' = ledger
    BY <2>1 DEF States, Results
  <2>2. CASE ledger' # ledger
    <3>1. PICK to : /\ Move(r, to)
                    /\ \/ ledger[r].state = "claimed" /\ to = "revalidated"
                       \/ ledger[r].state = "revalidated" /\ to = "dispatching"
      BY <1>1, <1>4, <2>2 DEF MarkRevalidated, MarkDispatching
    <3>2. Lifecycle!Move(r, to) /\ Results' = Results
      BY <3>1, MoveSeen
    <3>3. Lifecycle!Advance(r)
      BY <1>2, <3>1, <3>2 DEF Lifecycle!Advance, States, Results, Seen
    <3> QED
      BY <3>3
  <2> QED
    BY <2>1, <2>2
<1>5. CASE PersistDispatchResult(c)
  <2>1. PICK row : /\ row = [ledger[r] EXCEPT !.state = callers[c].to,
                                              !.dispatch = callers[c].res]
                   /\ Write(r, row) /\ MayPersistResult(r)
                   /\ callers[c].pc = "persisting"
    BY <1>1, <1>5 DEF PersistDispatchResult, Running, At
  <2>2. row.state = callers[c].to /\ row.dispatch = callers[c].res
    BY <2>1 DEF LedgerGood, GoodRow, RowType
  <2>3. PICK status \in DispatchStatus : status = callers[c].res.status
    BY <2>1, BusyCaller
  <2>4. \/ callers[c].to = status
        \/ status = "failed" /\ callers[c].to = "target_replaced"
    BY <2>1, <2>3 DEF CarriedResults, Carried
  <2>5. States' = [States EXCEPT ![r] = callers[c].to]
        /\ Results' = [Results EXCEPT ![r] = status]
    <3>1. /\ States' = [States EXCEPT ![r] = row.state]
          /\ Results' = [Results EXCEPT ![r] = row.dispatch.status]
      BY <2>1, WriteSeen
    <3> QED
      BY <2>2, <2>3, <3>1
  <2>6. States[r] \in {"claimed", "revalidated", "dispatching"} /\ Results[r] = "none"
    BY <1>2, <2>1 DEF MayPersistResult, PreDispatch, HasResult, NoResult, Result
  <2>7. Lifecycle!Decide(r, status)
    BY <2>4, <2>5, <2>6 DEF Lifecycle!Decide, Lifecycle!Undecided, Lifecycle!Move, States,
       Results, Seen
  <2> QED
    BY <2>3, <2>7 DEF DispatchStatus, Lifecycle!ResultStatus
<1> QED
  BY <1>3, <1>4, <1>5 DEF CallerWrites

\* A verification task's transaction begins or concludes the verification.
LEMMA TaskSeen ==
    ASSUME FactsInv, NEW t \in Tasks, TaskWrites(t), Seen' = Seen
    PROVE  \/ States' = States /\ Results' = Results
           \/ \E r \in Requests :
                 Lifecycle!BeginVerification(r) \/ Lifecycle!Conclude(r)
<1> USE DEF FactsInv, TypeInv
<1>1. PICK r \in Requests : r = tasks[t].req
  BY BusyTask DEF TaskWrites, BeginVerification, PersistVerificationResult,
     TaskRunning, TaskResumed
<1>2. States[r] = ledger[r].state
  BY DEF States
<1>3. CASE BeginVerification(t)
  <2>1. CASE ledger' = ledger
    BY <2>1 DEF States, Results
  <2>2. CASE ledger' # ledger
    <3>1. Move(r, "verifying") /\ ledger[r].state \in {"succeeded", "outcome_unknown"}
      BY <1>1, <1>3, <2>2 DEF BeginVerification, OwnsVerification
    <3>2. Lifecycle!Move(r, "verifying") /\ Results' = Results
      BY <3>1, MoveSeen
    <3>3. Lifecycle!BeginVerification(r)
      BY <1>2, <3>1, <3>2 DEF Lifecycle!BeginVerification, States, Results, Seen
    <3> QED
      BY <3>3
  <2> QED
    BY <2>1, <2>2
<1>4. CASE PersistVerificationResult(t)
  <2>1. PICK row : /\ row = [ledger[r] EXCEPT
                                !.state = VerificationState(tasks[t].verdict),
                                !.verification = tasks[t].verdict]
                   /\ Write(r, row) /\ ledger[r].state = "verifying"
                   /\ tasks[t].pc = "concluding"
    BY <1>1, <1>4 DEF PersistVerificationResult, TaskRunning
  <2>2. /\ row.state = VerificationState(tasks[t].verdict)
        /\ row.dispatch = ledger[r].dispatch
    BY <2>1 DEF LedgerGood, GoodRow, RowType
  <2>3. PICK to : /\ to = VerificationState(tasks[t].verdict)
                  /\ to \in {"verified", "verification_failed", "target_replaced",
                             "outcome_unknown"}
    BY <2>1, BusyTask DEF VerificationState, VerificationStatus
  <2>4. States' = [States EXCEPT ![r] = to]
        /\ Results' = [Results EXCEPT ![r] = ledger[r].dispatch.status]
    <3>1. /\ States' = [States EXCEPT ![r] = row.state]
          /\ Results' = [Results EXCEPT ![r] = row.dispatch.status]
      BY <2>1, WriteSeen
    <3> QED
      BY <2>2, <2>3, <3>1
  <2>5. Results' = Results
    BY <2>4 DEF Results
  <2>6. Lifecycle!Conclude(r)
    BY <1>2, <2>1, <2>3, <2>4, <2>5 DEF Lifecycle!Conclude, Lifecycle!Concluded,
       Lifecycle!Move, States, Results, Seen
  <2> QED
    BY <2>6
<1> QED
  BY <1>3, <1>4 DEF TaskWrites

\* Startup decides every interrupted dispatch at once.
LEMMA ReconcileSeen ==
    ASSUME FactsInv, ReconcileStartup, Seen' = Seen
    PROVE  Lifecycle!Reconcile
<1>1. ASSUME NEW r \in Requests
      PROVE  /\ ledger'[r].state = IF ledger[r].state = "dispatching"
                                   THEN "outcome_unknown" ELSE ledger[r].state
             /\ ledger'[r].dispatch.status = IF ledger[r].state = "dispatching"
                                             THEN "outcome_unknown"
                                             ELSE ledger[r].dispatch.status
  <2>1. ledger[r] \in RowType
    BY DEF FactsInv, TypeInv, LedgerGood, GoodRow
  <2>2. ledger'[r] = IF ledger[r].state = "dispatching" THEN UnknownAfterRestart(ledger[r])
                     ELSE ledger[r]
    BY DEF ReconcileStartup
  <2>3. /\ UnknownAfterRestart(ledger[r]).state = "outcome_unknown"
        /\ UnknownAfterRestart(ledger[r]).dispatch.status = "outcome_unknown"
    BY <2>1 DEF UnknownAfterRestart, RowType, Result
  <2> QED
    BY <2>2, <2>3
<1>2. PICK rows : rows = {r \in Requests : States[r] = "dispatching"}
  OBVIOUS
<1>3. \A r \in Requests : r \in rows <=> ledger[r].state = "dispatching"
  BY <1>2 DEF States
<1>4. States' = [r \in Requests |-> IF r \in rows THEN "outcome_unknown" ELSE States[r]]
  BY <1>1, <1>3 DEF States
<1>5. Results' = [r \in Requests |-> IF r \in rows THEN "outcome_unknown" ELSE Results[r]]
  BY <1>1, <1>3 DEF Results
<1> QED
  BY <1>2, <1>4, <1>5 DEF Lifecycle!Reconcile, States, Results, Seen

\* Every step is one of the abstract specification, or none.
LEMMA StepSeen ==
    ASSUME FactsInv, AllTold, [Next]_vars
    PROVE  [Lifecycle!LifecycleNext]_(Lifecycle!lifecycle)
<1>1. CASE replies' # replies
  BY <1>1, AnswerSeen DEF Lifecycle!LifecycleNext
<1>2. CASE replies' = replies
  <2>1. Seen' = Seen
    BY <1>2 DEF Seen
  <2>2. States' = States /\ Results' = Results => UNCHANGED Lifecycle!lifecycle
    BY <2>1 DEF Lifecycle!lifecycle, States, Results, Seen
  <2>3. CASE ledger' = ledger
    BY <2>2, <2>3 DEF States, Results
  <2>4. ASSUME NEW c \in Callers, CallerWrites(c)
        PROVE  Lifecycle!LifecycleNext \/ UNCHANGED Lifecycle!lifecycle
    BY <2>1, <2>2, <2>4, CallerSeen DEF Lifecycle!LifecycleNext
  <2>5. ASSUME NEW t \in Tasks, TaskWrites(t)
        PROVE  Lifecycle!LifecycleNext \/ UNCHANGED Lifecycle!lifecycle
    BY <2>1, <2>2, <2>5, TaskSeen DEF Lifecycle!LifecycleNext
  <2>6. CASE ReconcileStartup
    BY <2>1, <2>6, ReconcileSeen DEF Lifecycle!LifecycleNext
  <2> QED
    BY <2>3, <2>4, <2>5, <2>6, WhoWrites
<1> QED
  BY <1>1, <1>2

\* The first state of the ledger is the abstract one.
LEMMA InitSeen == Init => Lifecycle!LifecycleInit
<1> SUFFICES ASSUME Init PROVE Lifecycle!LifecycleInit
  OBVIOUS
<1>1. /\ States = [r \in Requests |-> "absent"]
      /\ Results = [r \in Requests |-> "none"]
  BY DEF Init, States, Results, AbsentRow, NoResult, Result
<1>2. \A r \in Requests : {ClientSees(a) : a \in replies[r]} = {}
  BY DEF Init
<1>3. Seen = [r \in Requests |-> {}]
  BY <1>2 DEF Seen
<1> QED
  BY <1>1, <1>3 DEF Lifecycle!LifecycleInit, States, Results, Seen

\* Core implements the abstract lifecycle: whatever coroutines, tasks, crashes and
\* database errors do, a client sees rows that only move forward, one dispatch result
\* per request, and no answer but the stored result, a dispatch in progress, a
\* failure or an error.
THEOREM LifecycleRefined == Spec => ImplementsLifecycle
<1>1. Init => AnswersRun /\ AllTold
  BY DEF Init, AnswersRun, AllTold, Told, IdleCaller, Tasks
<1>2. DispatchInv /\ AnswersRun /\ AllTold /\ [Next]_vars => AnswersRun' /\ AllTold'
  BY NextAnswersRun, NextTold DEF DispatchInv
<1>3. DispatchInv /\ AllTold /\ [Next]_vars => [Lifecycle!LifecycleNext]_(Lifecycle!lifecycle)
  BY StepSeen DEF DispatchInv
<1> QED
  BY <1>1, <1>2, <1>3, SpecInv, InitSeen, PTL
     DEF Spec, ImplementsLifecycle, Lifecycle!LifecycleSpec

=============================================================================
