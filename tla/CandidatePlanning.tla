------------------------- MODULE CandidatePlanning -------------------------
(***************************************************************************)
(* The Agent's candidate-planning service, for one candidate of Core: a    *)
(* planning session is created, planned, converted into a workflow shell   *)
(* and, its shell approved, translated into the exact request that a later *)
(* approval authorises.  Every operation is a coroutine of one event loop  *)
(* that reads, awaits Core's intake once, and writes; the steps between    *)
(* awaits are atomic.  Sessions, workflows and approvals are one aggregate *)
(* whose every mutation is durable before it is visible, or fails and      *)
(* changes nothing.  The candidate at Core and the HEAD of the repository  *)
(* change at any moment; the Agent may restart at any moment.              *)
(***************************************************************************)
EXTENDS Naturals, Sequences, FiniteSets

CONSTANTS
    Prints,        \* candidate fingerprints
    Heads,         \* commits of the trusted repository
    Calls,         \* coroutines
    None,          \* an optional field that is not set
    Settings       \* the candidates and bounds studied: see SettingsAssumption

\* effect: the candidate's effect kind; sessions: bound on planning sessions;
\* begins: bound on the operations begun; plans: bound on the operational plans
\* made (each has a creation time of its own); faults: bound on failing writes
\* and restarts; edits: bound on changes of the candidate and of HEAD.
SettingsAssumption ==
    /\ Settings \subseteq [effect : {"repository_change", "operational_action"},
                           sessions : Nat, begins : Nat, plans : Nat,
                           faults : Nat, edits : Nat]
    /\ None \notin Prints \cup Heads \cup Seq(Prints \cup Heads)
    /\ LET Plans == [head : Heads \cup {None}, made : Nat]
       IN  None \notin Plans \cup [session : Seq(Prints \cup Heads), plan : Plans]

VARIABLES
    setting,      \* the member of Settings under study
    core,         \* Core: the candidate's current fingerprint
    head,         \* the repository's HEAD
    sessions,     \* durable: planning session ID -> session
    workflows,    \* durable: workflow ID -> shell, its approval, its request
    calls,        \* the coroutines
    begins,       \* operations begun so far
    plans,        \* operational plans made so far
    faults,       \* failing writes and restarts so far
    edits,        \* changes of candidate and HEAD so far
    overwritten,  \* history: sessions over whose newer version one read earlier
                  \* was written, by the operation that did
    unattended    \* history: shells whose decision no handler is left to follow
                  \* up: a fault ended it, or the approval route decided

durable == <<sessions, workflows>>
world == <<core, head, edits>>
history == <<overwritten, unattended>>
vars == <<setting, durable, world, calls, begins, plans, faults, history>>

Operational == setting.effect = "operational_action"

----------------------------------------------------------------------------
(* Identifiers and records.                                                *)

\* build_candidate_planning_session_id: the candidate and its fingerprint.
SessionId(print) == <<print>>

\* build_candidate_successor_planning_session_id: also predecessor and HEAD.
SuccessorId(print, pred, h) == pred \o <<print, h>>

\* build_candidate_workflow_id: the session, whose fingerprint is in it, and
\* the fingerprint of its plan.
WorkflowId(sid, plan) == [session |-> sid, plan |-> plan]

\* What candidate_plan_fingerprint and operational_plan_fingerprint tell apart:
\* the HEAD a repository plan was made at, the time an operational one was.
RepositoryPlan(h) == [head |-> h, made |-> 0]

OperationalPlan(n) == [head |-> None, made |-> n]

Planning == {"ready", "planning", "plan_ready", "stale", "failed"}

NewSession(print, pred) ==
    [print |-> print, status |-> "ready", plan |-> None, workflow |-> None,
     planFingerprint |-> None, request |-> None,
     predecessor |-> pred, successor |-> None]

NewShell(plan) == [state |-> "awaiting_approval", plan |-> plan,
                   shell |-> "pending", request |-> None]

\* A coroutine: what it does, to which session and workflow, the session it
\* read before its await, and the fingerprints that the candidate has had since:
\* Core answers at some moment of the await.
Idle == [op |-> "idle", sid |-> None, wid |-> None, read |-> None, seen |-> {}]

Asked(op, sid, wid) ==
    [op |-> op, sid |-> sid, wid |-> wid,
     read |-> IF sid \in DOMAIN sessions THEN sessions[sid] ELSE None,
     seen |-> {core}]

\* mutate_aggregate: one durable write of the sessions or of the workflows.
Put(store, id, record) ==
    [i \in DOMAIN store \cup {id} |-> IF i = id THEN record ELSE store[i]]

Init ==
    /\ setting \in Settings
    /\ core \in Prints
    /\ head \in Heads
    /\ sessions = <<>>
    /\ workflows = <<>>
    /\ calls = [c \in Calls |-> Idle]
    /\ begins = 0
    /\ plans = 0
    /\ faults = 0
    /\ edits = 0
    /\ overwritten = [plan |-> {}, successor |-> {}]
    /\ unattended = {}

----------------------------------------------------------------------------
(* The environment and Core's intake.                                      *)

\* The recommendation behind the candidate changes, or a commit is made.
Drift ==
    /\ edits < setting.edits
    /\ edits' = edits + 1
    /\ \/ /\ core' \in Prints \ {core}
          /\ calls' = [c \in Calls |-> IF calls[c] = Idle THEN Idle
                         ELSE [calls[c] EXCEPT !.seen = @ \cup {core'}]]
          /\ UNCHANGED head
       \/ /\ head' \in Heads \ {head}
          /\ UNCHANGED <<core, calls>>
    /\ UNCHANGED <<setting, durable, begins, plans, faults, history>>

\* How validate_candidate_planning_intake may be answered: with the candidate
\* as it was at some moment, or not at all.
Answers(c, op) == {p \in calls[c].seen \cup {None} : calls[c].op = op}

\* Core accepts the fingerprint that the session has.
Accepted(c, answer) == answer = calls[c].read.print

Begin(c, call) ==
    /\ calls[c] = Idle
    /\ begins < setting.begins
    /\ begins' = begins + 1
    /\ calls' = [calls EXCEPT ![c] = call]

End(c) == calls' = [calls EXCEPT ![c] = Idle] /\ UNCHANGED begins

----------------------------------------------------------------------------
(* Planning sessions and their successors.                                 *)

CreateAsks(c) ==
    /\ Begin(c, Asked("create", None, None))
    /\ UNCHANGED <<setting, durable, world, plans, faults, history>>

\* _create_or_reuse_session: a session with this fingerprint is reused, one
\* with another is a conflict.
CreateEnds(c) ==
    \E answer \in Answers(c, "create") :
        /\ End(c)
        /\ sessions' = IF sessions = <<>> /\ answer # None
                       THEN Put(sessions, SessionId(answer), NewSession(answer, None))
                       ELSE sessions
        /\ UNCHANGED <<setting, workflows, world, plans, faults, history>>

\* Mutant: lineage creation is not serialised.
SuccessorAlways == TRUE

\* The asyncio lock around the creation of a successor is free.
SuccessorUnlocked == \A c \in Calls : calls[c].op # "successor"

\* create_successor_planning_session takes the lock, then reads the predecessor.
SuccessorAsks(c) ==
    \E sid \in DOMAIN sessions :
        /\ SuccessorUnlocked
        /\ setting.sessions > 1
        /\ Begin(c, Asked("successor", sid, None))
        /\ UNCHANGED <<setting, durable, world, plans, faults, history>>

\* The successor's ID; no HEAD of an operational target, or one that cannot be
\* inspected, makes it that of a first session.
SuccessorIds(c, print) ==
    {SessionId(print)} \cup
        (IF Operational THEN {} ELSE {SuccessorId(print, calls[c].sid, head)})

\* _create_or_reuse_successor_session decides on the predecessor as read before
\* the await, and writes that version back with its new successor.
Succeed(c, print, id) ==
    LET pred == calls[c].sid
        read == calls[c].read
        known == read.successor # None /\ read.successor \in DOMAIN sessions
    IN  IF known \/ id \in DOMAIN sessions
        THEN UNCHANGED <<sessions, overwritten>>
        ELSE /\ Cardinality(DOMAIN sessions) < setting.sessions
             /\ sessions' =
                  Put(IF read.successor = None
                      THEN [sessions EXCEPT ![pred] = [read EXCEPT !.successor = id]]
                      ELSE sessions,
                      id, NewSession(print, pred))
             /\ overwritten' =
                  IF read.successor = None /\ sessions[pred] # read
                  THEN [overwritten EXCEPT !.successor = @ \cup {pred}]
                  ELSE overwritten

SuccessorEnds(c) ==
    \E answer \in Answers(c, "successor") :
        /\ End(c)
        /\ IF answer = None
           THEN UNCHANGED <<sessions, overwritten>>
           ELSE \E id \in SuccessorIds(c, answer) : Succeed(c, answer, id)
        /\ UNCHANGED <<setting, workflows, world, plans, faults, unattended>>

----------------------------------------------------------------------------
(* Planning.                                                               *)

\* generate_plan returns a ready or stale plan; otherwise, also while another
\* call plans or after a failure, it stores that planning has started.
PlanAsks(c) ==
    \E sid \in DOMAIN sessions :
        LET started == [sessions[sid] EXCEPT !.status = "planning"]
        IN  /\ sessions[sid].status \notin {"plan_ready", "stale"}
            /\ sessions' = [sessions EXCEPT ![sid] = started]
            /\ Begin(c, [Asked("plan", sid, None) EXCEPT !.read = started])
            /\ UNCHANGED <<setting, workflows, world, plans, faults, history>>

\* _plan_started_session: a plan, or the status that no plan leaves.
Decisions(c, answer) ==
    LET without(status) == [status |-> status, plan |-> None]
        ready == [status |-> "plan_ready",
                  plan |-> IF Operational THEN OperationalPlan(plans + 1)
                           ELSE RepositoryPlan(head)]
    IN  IF answer = None THEN {without("failed")}
        ELSE IF Accepted(c, answer) THEN {ready, without("failed")}
        ELSE {without("stale")}

\* The session as it was when planning started is written over what is stored.
PlanEnds(c) ==
    LET sid == calls[c].sid
    IN  \E answer \in Answers(c, "plan") : \E d \in Decisions(c, answer) :
            LET made == d.status = "plan_ready" /\ Operational
            IN  /\ End(c)
                /\ made => plans < setting.plans
                /\ plans' = IF made THEN plans + 1 ELSE plans
                /\ sessions' = [sessions EXCEPT ![sid] =
                       [calls[c].read EXCEPT !.status = d.status, !.plan = d.plan]]
                /\ overwritten' = IF sessions[sid] # calls[c].read
                                  THEN [overwritten EXCEPT !.plan = @ \cup {sid}]
                                  ELSE overwritten
                /\ UNCHANGED <<setting, workflows, world, faults, unattended>>

----------------------------------------------------------------------------
(* The workflow shell.                                                     *)

ConvertAsks(c) ==
    \E sid \in DOMAIN sessions :
        /\ sessions[sid].workflow = None
        /\ sessions[sid].status = "plan_ready"
        /\ Begin(c, Asked("convert", sid, None))
        /\ UNCHANGED <<setting, durable, world, plans, faults, history>>

\* What _persist_workflow_shell and its operational variant ask of the session
\* as it is stored by then; an existing workflow ID refuses the mutation.
MayConvert(sid, plan) ==
    /\ sessions[sid].workflow = None
    /\ ~ Operational => sessions[sid].status = "plan_ready"
    /\ sessions[sid].plan = plan
    /\ WorkflowId(sid, plan) \notin DOMAIN workflows

\* Mutant: the shell is saved and the session does not name it.
ConvertedUnlinked(session, wid) == [session EXCEPT !.planFingerprint = wid.plan]

\* The session that a shell was made for.
Converted(session, wid) ==
    [session EXCEPT !.workflow = wid, !.planFingerprint = wid.plan]

ConvertEnds(c) ==
    LET sid == calls[c].sid
        plan == calls[c].read.plan
        wid == WorkflowId(sid, plan)
    IN  \E answer \in Answers(c, "convert") :
            /\ End(c)
            /\ IF Accepted(c, answer) /\ MayConvert(sid, plan)
               THEN /\ workflows' = Put(workflows, wid, NewShell(plan))
                    /\ sessions' = [sessions EXCEPT ![sid] = Converted(@, wid)]
               ELSE UNCHANGED durable
            /\ UNCHANGED <<setting, world, plans, faults, history>>

----------------------------------------------------------------------------
(* Translation into the exact request.                                     *)

\* What translate_workflow_shell_to_implementation asks of the session before
\* it asks Core.
Translatable(session) ==
    /\ session.workflow # None
    /\ session.plan # None
    /\ ~ Operational => session.status = "plan_ready"
    /\ session.planFingerprint = session.plan

\* POST /candidate-planning/{session}/implementation.
TranslateAsks(c) ==
    \E sid \in DOMAIN sessions :
        /\ sessions[sid].request = None
        /\ Translatable(sessions[sid])
        /\ Begin(c, Asked("translate", sid, None))
        /\ UNCHANGED <<setting, durable, world, plans, faults, history>>

\* Mutant: the request is made for the HEAD found.
HeadAny(session) == session.plan # None

\* The translator's comparison of the inspected HEAD with the reviewed plan's.
HeadReviewed(session) == head = session.plan.head

\* _persist_implementation_translation asks the workflow to wait for its shell
\* approval and the repository to be at the reviewed HEAD; its operational
\* variant asks for the approval, and for the plan read before the await.
MayTranslate(session, plan) ==
    LET wf == workflows[session.workflow]
    IN  /\ session.workflow # None
        /\ wf.request = None
        /\ session.plan # None
        /\ IF Operational
           THEN wf.shell = "approved" /\ session.plan = plan
           ELSE wf.state = "awaiting_approval" /\ HeadReviewed(session)

\* The request is for the plan; a repository's also names the HEAD inspected.
Request(session) ==
    IF Operational THEN session.plan ELSE RepositoryPlan(head)

\* The durable effect of a translation: request, exact approval and links.
Translated(sid) ==
    LET wid == sessions[sid].workflow
        request == Request(sessions[sid])
    IN  /\ workflows' = [workflows EXCEPT ![wid].state = "awaiting_implementation_approval",
                                          ![wid].request = request]
        /\ sessions' = [sessions EXCEPT ![sid].request = request]

TranslateEnds(c) ==
    LET sid == calls[c].sid
    IN  \E answer \in Answers(c, "translate") :
            /\ End(c)
            /\ IF Accepted(c, answer) /\ MayTranslate(sessions[sid], calls[c].read.plan)
               THEN Translated(sid)
               ELSE UNCHANGED durable
            /\ UNCHANGED <<setting, world, plans, faults, history>>

----------------------------------------------------------------------------
(* The shell approval.                                                     *)

\* The shell waits for its decision, and so does its workflow.
Undecided(wid) ==
    workflows[wid].state = "awaiting_approval" /\ workflows[wid].shell = "pending"

RejectShell ==
    \E wid \in DOMAIN workflows :
        /\ Undecided(wid)
        /\ workflows' = [workflows EXCEPT ![wid].shell = "rejected"]
        /\ UNCHANGED <<setting, sessions, world, calls, begins, plans, faults, history>>

\* submit_approval_decision, the route of all approvals, decides a pending shell
\* whatever has become of its workflow, and does nothing about the workflow: an
\* approved one can only be translated by POST /implementation from then on.
DecideShell ==
    \E wid \in DOMAIN workflows, decision \in {"approved", "rejected"} :
        /\ workflows[wid].shell = "pending"
        /\ workflows' = [workflows EXCEPT ![wid].shell = decision]
        /\ unattended' = unattended \cup {wid}
        /\ UNCHANGED <<setting, sessions, world, calls, begins, plans, faults,
                       overwritten>>

\* A workflow whose translation failed is blocked if it still waits.
Blocked(wf) ==
    IF wf.state = "awaiting_approval" THEN [wf EXCEPT !.state = "blocked"] ELSE wf

\* submit_workflow_shell_approval stores the decision and translates the
\* workflow's session.  One that has its request is done, one that cannot be
\* translated, or whose plan is not the shell's, blocks the workflow, at once.
ApproveShell(c) ==
    \E wid \in DOMAIN workflows :
        LET session == sessions[wid.session]
            approved == [workflows[wid] EXCEPT !.shell = "approved"]
        IN  /\ Undecided(wid)
            /\ calls[c] = Idle
            /\ IF session.request = None /\ Translatable(session)
                  /\ session.plan = approved.plan
               THEN /\ Begin(c, Asked("approve", wid.session, wid))
                    /\ workflows' = [workflows EXCEPT ![wid] = approved]
               ELSE /\ UNCHANGED <<calls, begins>>
                    /\ workflows' = [workflows EXCEPT ![wid] =
                           IF session.request # None THEN approved
                           ELSE Blocked(approved)]
            /\ UNCHANGED <<setting, sessions, world, plans, faults, history>>

\* The response names an exact approval if the session, whose workflow has its
\* request already, does by then.
ApproveEnds(c) ==
    LET sid == calls[c].sid
        current == sessions[sid]
        named == /\ current.workflow # None
                 /\ workflows[current.workflow].request # None
                 /\ current.request # None
    IN  \E answer \in Answers(c, "approve") :
            /\ End(c)
            /\ IF Accepted(c, answer) /\ MayTranslate(current, calls[c].read.plan)
               THEN Translated(sid)
               ELSE /\ workflows' = [workflows EXCEPT ![calls[c].wid] =
                           IF Accepted(c, answer) /\ named THEN @ ELSE Blocked(@)]
                    /\ UNCHANGED sessions
            /\ UNCHANGED <<setting, world, plans, faults, history>>

----------------------------------------------------------------------------
(* Faults.                                                                 *)

\* The write of a call fails and the aggregate stays as it was; of a shell
\* approval both the translation's and the block's do.
WriteFails(c) ==
    /\ faults < setting.faults
    /\ calls[c] # Idle
    /\ faults' = faults + 1
    /\ End(c)
    /\ unattended' = unattended \cup {wid \in DOMAIN workflows : calls[c].wid = wid}
    /\ UNCHANGED <<setting, durable, world, plans, overwritten>>

\* The Agent restarts: initialize loads the aggregate and leaves planning
\* sessions and shells as they are.
Restart ==
    /\ faults < setting.faults
    /\ faults' = faults + 1
    /\ calls' = [c \in Calls |-> Idle]
    /\ unattended' = unattended \cup {wid \in DOMAIN workflows :
                                 \E c \in Calls : calls[c].wid = wid}
    /\ UNCHANGED <<setting, durable, world, begins, plans, overwritten>>

Next ==
    \/ Drift
    \/ RejectShell
    \/ DecideShell
    \/ Restart
    \/ \E c \in Calls :
          \/ CreateAsks(c) \/ CreateEnds(c)
          \/ SuccessorAsks(c) \/ SuccessorEnds(c)
          \/ PlanAsks(c) \/ PlanEnds(c)
          \/ ConvertAsks(c) \/ ConvertEnds(c)
          \/ TranslateAsks(c) \/ TranslateEnds(c)
          \/ ApproveShell(c) \/ ApproveEnds(c)
          \/ WriteFails(c)

Spec == Init /\ [][Next]_vars

----------------------------------------------------------------------------
(* Properties.                                                             *)

TypeOK ==
    /\ setting \in Settings
    /\ core \in Prints /\ head \in Heads
    /\ \A sid \in DOMAIN sessions :
          /\ sessions[sid].print \in Prints
          /\ sessions[sid].status \in Planning
          /\ sessions[sid].workflow \in DOMAIN workflows \cup {None}
          /\ sessions[sid].status = "plan_ready" => sessions[sid].plan # None
    /\ \A wid \in DOMAIN workflows :
          /\ wid.session \in DOMAIN sessions
          /\ workflows[wid].state \in {"awaiting_approval", "blocked",
                                       "awaiting_implementation_approval"}
          /\ workflows[wid].shell \in {"pending", "approved", "rejected"}
    /\ \A c \in Calls : calls[c].sid \in DOMAIN sessions \cup {None}
    /\ begins <= setting.begins /\ plans <= setting.plans
    /\ faults <= setting.faults /\ edits <= setting.edits

\* convert_plan_to_workflow_shell is "create or return": a session names the
\* workflow made for it, so no second one is made for the same candidate,
\* whatever calls overlap, fail or are cut off by a restart.  Only a session
\* that generate_plan or a successor's creation wrote back over a newer version
\* may lose its workflow.
WorkflowIsNamed ==
    /\ TypeOK
    /\ \A wid \in DOMAIN workflows :
          \/ sessions[wid.session].workflow = wid
          \/ wid.session \in overwritten.plan \cup overwritten.successor

\* An exact request, whichever route made it and however HEAD, the candidate
\* and the plan changed meanwhile, is for the plan its workflow was made from
\* and for the HEAD reviewed with it; an operational one only exists for an
\* approved shell.
RequestIsThePlan ==
    \A wid \in DOMAIN workflows :
        workflows[wid].request # None =>
            /\ workflows[wid].request = wid.plan
            /\ Operational => workflows[wid].shell = "approved"

\* Sessions form a chain: a successor names its predecessor and is the one that
\* the predecessor names, unless planning the predecessor wrote an older
\* version of it back.
LineageIsChain ==
    \A sid \in DOMAIN sessions :
        /\ LET next == sessions[sid].successor
           IN  next # None => /\ next \in DOMAIN sessions
                              /\ sessions[next].predecessor = sid
        /\ LET pred == sessions[sid].predecessor
           IN  pred # None => \/ pred \in overwritten.plan
                              \/ pred \in DOMAIN sessions /\ sessions[pred].successor = sid

\* A shell approved by submit_workflow_shell_approval does not wait: once no
\* approving call is under way, its workflow has its request or is blocked.  A
\* restart or a failing write between decision and translation, and a session
\* written back, are the exceptions; one approved by the approval route may wait
\* for good.
ApprovedIsSettled ==
    \A wid \in DOMAIN workflows :
        /\ workflows[wid].shell = "approved"
        /\ workflows[wid].state = "awaiting_approval"
        => \/ \E c \in Calls : calls[c].wid = wid
           \/ wid \in unattended
           \/ wid.session \in overwritten.plan \cup overwritten.successor

\* What conversion makes of a plan is its request, and is settled.
ConversionSound ==
    /\ RequestIsThePlan
    /\ ApprovedIsSettled
=============================================================================
