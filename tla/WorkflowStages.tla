--------------------------- MODULE WorkflowStages ---------------------------
(***************************************************************************)
(* The approval-gated repository workflow of the Agent: implementation,    *)
(* verification and review, and the local commit, each behind an approval  *)
(* of its own.                                                             *)
(*                                                                         *)
(* A resume runs in a thread of its own.  Sessions and approvals are one   *)
(* aggregate that AgentStatePersistenceCoordinator writes to a file before *)
(* it replaces what is in memory; both are modelled, because a write can   *)
(* fail after the file was replaced.  The repository is shared with        *)
(* whoever else works in it.                                               *)
(*                                                                         *)
(* A manual workflow starts here.  A candidate workflow comes from         *)
(* CandidateExecution and starts at its verification approval.             *)
(***************************************************************************)
EXTENDS Naturals

CONSTANTS
    Manual,       \* workflows started by run
    Candidates,   \* workflows whose candidate patch is in the checkout
    Calls,        \* resumes that may run at the same time
    Files,        \* paths of the repository
    Planned,      \* the affected files of every plan
    None,         \* no evidence
    Settings      \* what a behaviour may meet: workflows in use, and bounds

ASSUME StagesAssumption ==
    /\ Manual \cap Candidates = {}
    /\ Planned \subseteq Files
    /\ Planned # {}
    /\ \A a, b \in Candidates : a = b

Workflows == Manual \cup Candidates

\* filed: stages whose request others may file early; faults: writes of the
\* state file that fail, and repositories that cannot be opened; crashes:
\* restarts of the Agent; outside: changes others make in the repository.
ASSUME SettingsAssumption ==
    Settings \subseteq [inUse : SUBSET Workflows,
                        filed : SUBSET {"verification", "commit"},
                        faults : Nat, crashes : Nat, outside : Nat]

VARIABLES
    mem,      \* sessions and approvals in memory
    disk,     \* sessions and approvals in the snapshot file
    call,     \* the resume each thread is in
    tree,     \* path -> who changed it last since HEAD
    head,     \* the commit HEAD names, counted
    runs,     \* history: workflow, stage -> times its side effect was started
    commits,  \* history: workflow -> the commits made for it
    faults, crashes, outside,
    setting   \* the setting of this behaviour: it never changes

vars == <<mem, disk, call, tree, head, runs, commits, faults, crashes, outside,
          setting>>

----------------------------------------------------------------------------
(* Values.                                                                 *)

Stage == {"implementation", "verification", "commit"}

\* The session state that waits for the approval of a stage, and the one a
\* resume claims before the side effect of the stage.
Waiting == [s \in Stage |->
    CASE s = "implementation" -> "awaiting_approval"
      [] s = "verification" -> "awaiting_verification_approval"
      [] s = "commit" -> "awaiting_commit_approval"]

Claimed == [s \in Stage |->
    CASE s = "implementation" -> "executing"
      [] s = "verification" -> "verifying"
      [] s = "commit" -> "committing"]

After(s) == IF s = "implementation" THEN "verification" ELSE "commit"

ClaimedStates == {Claimed[s] : s \in Stage}

SessionState == {"absent", "blocked", "completed"} \cup ClaimedStates
                  \cup {Waiting[s] : s \in Stage}

ApprovalStatus == {"none", "pending", "approved", "rejected"}

\* HEAD's own content of a path, or whoever changed it.
Content == {"head", "outside"} \cup Workflows

\* Reviewed content: the head it was read at, and the content of the paths.
Evidence == [head : Nat, content : UNION {[F -> Content] : F \in SUBSET Files}]

ASSUME EvidenceAssumption == None \notin Evidence

\* base is the HEAD the plan was made at, files the changed paths.
Session == [state : SessionState, base : Nat, files : SUBSET Files,
            evidence : Evidence \cup {None}]

\* The aggregate: sessions and approvals.
Snapshot == [session : [Workflows -> Session],
             approval : [Workflows -> [Stage -> ApprovalStatus]]]

WithSession(n, w, session) == [n EXCEPT !.session[w] = session]
WithState(n, w, state) == WithSession(n, w, [n.session[w] EXCEPT !.state = state])
WithApproval(n, w, s, status) == [n EXCEPT !.approval[w][s] = status]

Steps == {"idle", "approval", "validate", "refuse", "claim", "publish",
          "inspect", "effect", "collect", "report", "review", "pause",
          "evidence", "commit_check", "commit", "check_result", "complete",
          "release", "answer"}

Outcome == {"none", "answered", "internal_failure"}

\* read: the session as resume found it; what the call has collected since is
\* in files and evidence; seen is the commit it made.
Call == [pc : Steps, wf : Workflows \cup {None}, stage : Stage \cup {None},
         granted : BOOLEAN, read : Session \cup {None}, files : SUBSET Files,
         evidence : Evidence \cup {None}, seen : Nat, outcome : Outcome]

Idle == [pc |-> "idle", wf |-> None, stage |-> None, granted |-> FALSE,
         read |-> None, files |-> {}, evidence |-> None, seen |-> 0,
         outcome |-> "none"]

Changed == {f \in Files : tree[f] # "head"}

Fingerprint(F) == [head |-> head, content |-> [f \in F |-> tree[f]]]

\* reviewed_change_evidence: raises unless HEAD is the expected one and the
\* changed paths are exactly the reviewed ones.
EvidenceReadable(base, F) == head = base /\ Changed = F

----------------------------------------------------------------------------
(* AgentStatePersistenceCoordinator.                                       *)

\* mutate_aggregate: the file is replaced first, memory second.
Persist(new) ==
    /\ disk' = new
    /\ mem' = new
    /\ UNCHANGED faults

\* _write_payload raised, before os.replace or at the directory fsync after it.
PersistFails(new) ==
    /\ faults < setting.faults
    /\ faults' = faults + 1
    /\ disk' \in {disk, new}
    /\ UNCHANGED mem

\* Mutant: a restart puts an interrupted stage back to its approval.
RecoveredToWaiting(snapshot) ==
    [snapshot EXCEPT !.session = [w \in Workflows |->
        LET s == snapshot.session[w] IN
        IF s.state \in ClaimedStates
        THEN [s EXCEPT !.state = Waiting[CHOOSE g \in Stage :
                                             Claimed[g] = s.state]]
        ELSE s]]

\* Mutant: the state is set whatever it has become since it was read.
TransitionUnchecked(w, from, to) == WithState(mem, w, to)

\* transition_session: compare and swap on the state.  A transition that
\* compares unequal leaves the candidate as it is, and it is written all the
\* same.
Transition(w, from, to) ==
    IF mem.session[w].state = from THEN WithState(mem, w, to) ELSE mem

\* _recover_claimed_sessions
Recovered(snapshot) ==
    [snapshot EXCEPT !.session = [w \in Workflows |->
        LET s == snapshot.session[w] IN
        IF s.state \in ClaimedStates THEN [s EXCEPT !.state = "blocked"] ELSE s]]

\* _validate_aggregate: a waiting workflow has its approval request, and an
\* approval request has its workflow.
ValidAggregate(n) ==
    \A w \in Workflows :
        /\ \A s \in Stage : n.session[w].state = Waiting[s] =>
                               n.approval[w][s] # "none"
        /\ n.session[w].state = "absent" =>
              \A s \in Stage : n.approval[w][s] = "none"

----------------------------------------------------------------------------
(* Calls.                                                                  *)

Goto(c, pc) == call' = [call EXCEPT ![c].pc = pc]

\* The call raised: the route answers 500 internal_failure.
Raise(c) == call' = [call EXCEPT ![c] = [Idle EXCEPT !.outcome = "internal_failure"]]

Return(c) == call' = [call EXCEPT ![c] = [Idle EXCEPT !.outcome = "answered"]]

Wf(c) == call[c].wf
Stg(c) == call[c].stage
IsManual(c) == call[c].wf \in Manual

At(c, pc) == call[c].pc = pc

repo == <<tree, head>>
world == <<tree, head, runs, commits, crashes, outside>>

\* run: plan, then session and implementation approval in one write.
Run(w) ==
    /\ w \in Manual \cap setting.inUse
    /\ mem.session[w].state = "absent"
    /\ disk.session[w].state = "absent"
    /\ LET new == WithApproval(
                     WithSession(mem, w, [mem.session[w] EXCEPT
                                            !.state = "awaiting_approval",
                                            !.base = head]),
                     w, "implementation", "pending")
       IN  Persist(new) \/ PersistFails(new)
    /\ UNCHANGED <<call, world>>

\* update_decision: a pending approval is decided once.
MayDecide(w, s) == mem.approval[w][s] = "pending"

\* submit_approval_decision and the approval routes of a workflow.
Decide(w, s, decision) ==
    /\ MayDecide(w, s)
    /\ LET new == WithApproval(mem, w, s, decision)
       IN  Persist(new) \/ PersistFails(new)
    /\ UNCHANGED <<call, world>>

\* create_approval_request: anybody may file a request under the identifier of a
\* later stage of a workflow.
RequestApproval(w, s) ==
    /\ s \in setting.filed
    /\ mem.session[w].state # "absent"
    /\ mem.approval[w][s] = "none"
    /\ LET new == WithApproval(mem, w, s, "pending")
       IN  Persist(new) \/ PersistFails(new)
    /\ UNCHANGED <<call, world>>

\* resume: the session is read once, and its state selects the stage.  Other
\* states are answered, with the status published unless the workflow is in
\* progress or a completed manual one.
Resume(c, w) ==
    /\ At(c, "idle")
    /\ LET session == mem.session[w]
           silent == session.state \in ClaimedStates
                       \/ (session.state = "completed" /\ w \in Manual)
       IN
       \/ \E s \in Stage :
             /\ session.state = Waiting[s]
             /\ call' = [call EXCEPT ![c] =
                           [Idle EXCEPT !.pc = "approval", !.wf = w, !.stage = s,
                                        !.read = session, !.files = session.files,
                                        !.evidence = session.evidence]]
       \/ silent /\ Return(c)
       \/ /\ session.state \in {"absent", "blocked", "completed"}
          /\ ~silent
          /\ call' = [call EXCEPT ![c] = [Idle EXCEPT !.pc = "answer"]]
    /\ UNCHANGED <<mem, disk, faults, world>>

Granted(status) == status = "approved"

\* The stored approval is evaluated.  A rejected manual implementation is
\* claimed before it is blocked.
CheckApproval(c) ==
    /\ At(c, "approval")
    /\ LET status == mem.approval[Wf(c)][Stg(c)]
           claims == Stg(c) = "implementation"
       IN  call' = [call EXCEPT
             ![c].granted = Granted(status),
             ![c].pc = IF status \in {"none", "pending"} THEN "answer"
                       ELSE IF Granted(status)
                            THEN IF IsManual(c) THEN "claim" ELSE "validate"
                            ELSE IF claims THEN "claim" ELSE "refuse"]
    /\ UNCHANGED <<mem, disk, faults, world>>

\* CandidateVerificationValidator.validate_for_execution: the repository part.
VerificationValid(c) == EvidenceReadable(call[c].read.base, call[c].files)

\* CandidateCommitValidator.validate: the repository part.
CommitValid(c) ==
    /\ EvidenceReadable(call[c].read.base, call[c].files)
    /\ Fingerprint(call[c].files) = call[c].evidence

\* Core may be away (retryable) or disown the candidate, and the plan may have
\* changed; the repository must be the one that was approved.
Validate(c) ==
    /\ At(c, "validate")
    /\ \/ Goto(c, "answer")
       \/ Goto(c, "refuse")
       \/ /\ IF Stg(c) = "verification" THEN VerificationValid(c)
                                       ELSE CommitValid(c)
          /\ Goto(c, "claim")
    /\ UNCHANGED <<mem, disk, faults, world>>

\* _block_verification_session, _block_commit_session and their candidate
\* counterparts.  A lost swap ends a manual call; a candidate one is told it
\* is blocked either way.
Refuse(c) ==
    /\ At(c, "refuse")
    /\ LET new == Transition(Wf(c), Waiting[Stg(c)], "blocked") IN
       \/ /\ Persist(new)
          /\ IF new # mem \/ ~IsManual(c)
             THEN Goto(c, "answer")
             ELSE Return(c)
       \/ PersistFails(new) /\ Raise(c)
    /\ UNCHANGED world

\* The claim: only the call whose swap succeeds goes on.
Claim(c) ==
    /\ At(c, "claim")
    /\ LET new == Transition(Wf(c), Waiting[Stg(c)], Claimed[Stg(c)]) IN
       \/ /\ Persist(new)
          /\ IF new # mem
             THEN Goto(c, IF call[c].granted THEN "publish" ELSE "release")
             ELSE Return(c)
       \/ PersistFails(new) /\ Raise(c)
    /\ UNCHANGED world

\* _publish_sprint writes the whole aggregate; a failure leaves the claim.
Publish(c) ==
    /\ At(c, "publish")
    /\ \/ /\ Persist(mem)
          /\ \/ Stg(c) = "implementation" /\ Goto(c, "inspect")
             \/ Stg(c) = "verification" /\ Goto(c, "effect")
             \/ Stg(c) = "commit" /\ IsManual(c) /\ Goto(c, "evidence")
             \/ Stg(c) = "commit" /\ ~IsManual(c) /\ Goto(c, "commit_check")
       \/ PersistFails(mem) /\ Raise(c)
    /\ UNCHANGED world

\* _block_claimed_session, or the transition to BLOCKED with its artifacts.
Release(c) ==
    /\ At(c, "release")
    /\ LET new == Transition(Wf(c), Claimed[Stg(c)], "blocked")
       IN  \/ Persist(new) /\ Goto(c, "answer")
           \/ PersistFails(new) /\ Raise(c)
    /\ UNCHANGED world

\* Every result publishes the sprint status before it is returned.
Answer(c) ==
    /\ At(c, "answer")
    /\ \/ Persist(mem) /\ Return(c)
       \/ PersistFails(mem) /\ Raise(c)
    /\ UNCHANGED world

----------------------------------------------------------------------------
(* _resume_implementation                                                  *)

\* The inspector is made before the try: a repository that has gone leaves the
\* claim without the call.
CannotOpen(c) ==
    /\ faults < setting.faults
    /\ faults' = faults + 1
    /\ Raise(c)

\* _validate_pre_execution_snapshot: nothing may be changed yet.
Inspect(c) ==
    /\ At(c, "inspect")
    /\ \/ CannotOpen(c)
       \/ Goto(c, "release") /\ UNCHANGED faults
       \/ /\ head = call[c].read.base /\ Changed = {}
          /\ Goto(c, "effect")
          /\ UNCHANGED faults
    /\ UNCHANGED <<mem, disk, world>>

\* The command changes any paths, and succeeds or fails.
Execute(c) ==
    /\ At(c, "effect") /\ Stg(c) = "implementation"
    /\ runs' = [runs EXCEPT ![Wf(c)]["implementation"] = @ + 1]
    /\ \E F \in SUBSET Files :
          tree' = [f \in Files |-> IF f \in F THEN Wf(c) ELSE tree[f]]
    /\ \/ Goto(c, "collect")
       \/ Goto(c, "release")
    /\ UNCHANGED <<mem, disk, faults, head, commits, crashes, outside>>

InScope(F) == F # {} /\ F \subseteq Planned

\* _workflow_changed_files
Collect(c) ==
    /\ At(c, "collect")
    /\ IF InScope(Changed)
       THEN call' = [call EXCEPT ![c].pc = "pause", ![c].files = Changed]
       ELSE Goto(c, "release")
    /\ UNCHANGED <<mem, disk, faults, world>>

----------------------------------------------------------------------------
(* _resume_verification and _resume_candidate_verification                 *)

Verify(c) ==
    /\ At(c, "effect") /\ Stg(c) = "verification"
    /\ runs' = [runs EXCEPT ![Wf(c)]["verification"] = @ + 1]
    /\ \/ Goto(c, "report")
       \/ Goto(c, "release")
    /\ UNCHANGED <<mem, disk, faults, repo, commits, crashes, outside>>

\* The report and the reviewing status are published.
Report(c) ==
    /\ At(c, "report")
    /\ \/ Persist(mem) /\ Goto(c, "review")
       \/ PersistFails(mem) /\ Raise(c)
    /\ UNCHANGED world

\* The review is published before its verdict counts, unless it raised; then
\* comes the evidence of the change set that is to be committed.
Review(c) ==
    /\ At(c, "review")
    /\ \/ Goto(c, "release") /\ (Persist(mem) \/ UNCHANGED <<mem, disk, faults>>)
       \/ /\ EvidenceReadable(call[c].read.base, call[c].files)
          /\ call' = [call EXCEPT ![c].pc = "pause",
                                  ![c].evidence = Fingerprint(call[c].files)]
          /\ Persist(mem)
       \/ PersistFails(mem) /\ Raise(c)
    /\ UNCHANGED world

\* The next approval request and the transition are one write.
Paused(c) ==
    LET requested == WithApproval(mem, Wf(c), After(Stg(c)), "pending") IN
    IF mem.session[Wf(c)].state = Claimed[Stg(c)]
    THEN WithSession(requested, Wf(c),
            [mem.session[Wf(c)] EXCEPT !.state = Waiting[After(Stg(c))],
                                       !.files = call[c].files,
                                       !.evidence = call[c].evidence])
    ELSE requested

\* pause_for_verification and pause_for_commit; a failure to store them, or a
\* request that is there already, releases the claim.
Pause(c) ==
    /\ At(c, "pause")
    /\ \/ /\ mem.approval[Wf(c)][After(Stg(c))] = "none"
          /\ \/ Persist(Paused(c)) /\ Goto(c, "answer")
             \/ PersistFails(Paused(c)) /\ Goto(c, "release")
       \/ /\ mem.approval[Wf(c)][After(Stg(c))] # "none"
          /\ Goto(c, "release")
          /\ UNCHANGED <<mem, disk, faults>>
    /\ UNCHANGED world

----------------------------------------------------------------------------
(* _resume_commit, _resume_candidate_commit and GitCommitter.commit        *)

\* A manual commit compares the evidence again under its claim.
CheckEvidence(c) ==
    /\ At(c, "evidence")
    /\ IF /\ EvidenceReadable(call[c].evidence.head, call[c].files)
          /\ Fingerprint(call[c].files) = call[c].evidence
       THEN Goto(c, "commit_check")
       ELSE Goto(c, "release")
    /\ UNCHANGED <<mem, disk, faults, world>>

\* Mutant: a HEAD that moved is taken for the commit itself.
CommitCheckMoved(c) ==
    /\ At(c, "commit_check")
    /\ Goto(c, IF head = call[c].evidence.head THEN "commit" ELSE "complete")
    /\ UNCHANGED <<mem, disk, faults, world>>

\* GitCommitter compares branch and HEAD before it stages.
CommitCheck(c) ==
    /\ At(c, "commit_check")
    /\ Goto(c, IF head = call[c].evidence.head THEN "commit" ELSE "release")
    /\ UNCHANGED <<mem, disk, faults, world>>

\* git add -A -- paths: the reviewed paths that still differ from HEAD.
Staged(F) == F \cap Changed

\* git commit --only takes the content the paths have now.  What is read back
\* afterwards may fail although the commit exists.
Commit(c) ==
    /\ At(c, "commit")
    /\ LET F == Staged(call[c].files)
           made == [parent |-> head, content |-> [f \in F |-> tree[f]]]
       IN
       \/ /\ Goto(c, "release")               \* staged differs, git refuses
          /\ runs' = [runs EXCEPT ![Wf(c)]["commit"] = @ + 1]
          /\ UNCHANGED <<tree, head, commits>>
       \/ /\ F # {}
          /\ call[c].files \subseteq F
          /\ runs' = [runs EXCEPT ![Wf(c)]["commit"] = @ + 1]
          /\ commits' = [commits EXCEPT ![Wf(c)] = @ \cup {made}]
          /\ head' = head + 1
          /\ tree' = [f \in Files |-> IF f \in F THEN "head" ELSE tree[f]]
          /\ \/ Goto(c, "release")            \* the commit cannot be read back
             \/ call' = [call EXCEPT ![c].seen = head + 1,
                           ![c].pc = IF IsManual(c) THEN "complete"
                                     ELSE "check_result"]
    /\ UNCHANGED <<mem, disk, faults, crashes, outside>>

\* validate_commit_result inspects HEAD.  A mismatch, or a HEAD that cannot be
\* read, blocks the session with the commit's result, and then
\* _blocked_session_result is called with a commit_result argument that it does
\* not have.
CheckResult(c) ==
    /\ At(c, "check_result")
    /\ \/ /\ head = call[c].seen
          /\ Goto(c, "complete")
          /\ UNCHANGED <<mem, disk, faults>>
       \/ LET new == Transition(Wf(c), "committing", "blocked")
          IN  (Persist(new) \/ PersistFails(new)) /\ Raise(c)
    /\ UNCHANGED world

Complete(c) ==
    /\ At(c, "complete")
    /\ LET new == Transition(Wf(c), "committing", "completed")
       IN  \/ Persist(new) /\ Goto(c, "answer")
           \/ PersistFails(new) /\ Raise(c)
    /\ UNCHANGED world

----------------------------------------------------------------------------
(* The environment.                                                        *)

\* The Agent stops and starts: initialize loads the file, blocks what was
\* interrupted and writes that back.
Restart ==
    /\ crashes < setting.crashes
    /\ crashes' = crashes + 1
    /\ disk' = Recovered(disk)
    /\ mem' = Recovered(disk)
    /\ call' = [c \in Calls |-> Idle]
    /\ UNCHANGED <<tree, head, runs, commits, faults, outside>>

\* Somebody edits a path, or commits what is changed.
OutsideChange ==
    /\ outside < setting.outside
    /\ outside' = outside + 1
    /\ \/ \E f \in Files : tree' = [tree EXCEPT ![f] = "outside"] /\ UNCHANGED head
       \/ head' = head + 1 /\ tree' = [f \in Files |-> "head"]
    /\ UNCHANGED <<mem, disk, call, runs, commits, faults, crashes>>

----------------------------------------------------------------------------
(* Specification.                                                          *)

\* A candidate has applied its patch to the planned files.
Patched == Candidates \cap setting.inUse

InitialSnapshot ==
    [session |-> [w \in Workflows |->
        [state |-> IF w \in Patched THEN "awaiting_verification_approval"
                   ELSE "absent",
         base |-> 0, files |-> IF w \in Patched THEN Planned ELSE {},
         evidence |-> None]],
     approval |-> [w \in Workflows |-> [s \in Stage |->
        IF w \notin Patched THEN "none"
        ELSE CASE s = "implementation" -> "approved"
               [] s = "verification" -> "pending"
               [] s = "commit" -> "none"]]]

Init ==
    /\ setting \in Settings
    /\ mem = InitialSnapshot
    /\ disk = InitialSnapshot
    /\ call = [c \in Calls |-> Idle]
    /\ tree \in {t \in [Files -> {"head"} \cup Patched] :
                   \A f \in Files : (t[f] # "head") = (Patched # {} /\ f \in Planned)}
    /\ head = 0
    /\ runs = [w \in Workflows |-> [s \in Stage |-> 0]]
    /\ commits = [w \in Workflows |-> {}]
    /\ faults = 0
    /\ crashes = 0
    /\ outside = 0

\* What a resume does once it is called.
CallStep(c) ==
    \/ CheckApproval(c) \/ Validate(c) \/ Refuse(c) \/ Claim(c) \/ Publish(c)
    \/ Release(c) \/ Answer(c)
    \/ Inspect(c) \/ Execute(c) \/ Collect(c)
    \/ Verify(c) \/ Report(c) \/ Review(c) \/ Pause(c)
    \/ CheckEvidence(c) \/ CommitCheck(c) \/ Commit(c) \/ CheckResult(c)
    \/ Complete(c)

Next ==
    /\ \/ \E w \in Workflows : Run(w)
       \/ \E w \in Workflows, s \in Stage, d \in {"approved", "rejected"} :
             Decide(w, s, d)
       \/ \E w \in Workflows, s \in Stage : RequestApproval(w, s)
       \/ \E c \in Calls, w \in Workflows : Resume(c, w)
       \/ \E c \in Calls : CallStep(c)
       \/ Restart
       \/ OutsideChange
    /\ UNCHANGED setting

Spec == Init /\ [][Next]_vars

----------------------------------------------------------------------------
(* Properties.                                                             *)

\* Sessions, approvals, threads and the repository keep their shape: a call
\* that holds evidence is past the review, and a claimed stage has a session.
TypeOK ==
    /\ setting \in Settings
    /\ mem \in Snapshot /\ disk \in Snapshot
    /\ call \in [Calls -> Call]
    /\ \A c \in Calls :
          /\ call[c].pc \notin {"idle", "answer"} =>
                Wf(c) \in Workflows /\ Stg(c) \in Stage
          /\ call[c].pc \in {"evidence", "commit_check", "commit", "check_result"}
                => call[c].evidence # None
    /\ tree \in [Files -> Content]
    /\ head \in Nat
    /\ runs \in [Workflows -> [Stage -> Nat]]

\* services/atlas-agent/README.md: completed stages do not replay and commit
\* executes at most once, whatever resumes race, writes fail and restarts
\* happen.
EffectAtMostOnce == \A w \in Workflows, s \in Stage : runs[w][s] <= 1

\* Once the side effect of a stage has started, no snapshot that a restart
\* could load waits for the approval of that stage or of an earlier one: the
\* claim in the file is what keeps a restart from replaying the stage.
NotReplayable ==
    \A w \in Workflows :
        /\ runs[w]["implementation"] > 0 =>
              disk.session[w].state \notin {"absent", "awaiting_approval"}
        /\ runs[w]["verification"] > 0 =>
              disk.session[w].state \notin {"absent", "awaiting_approval",
                                            "awaiting_verification_approval"}
        /\ runs[w]["commit"] > 0 =>
              disk.session[w].state \notin {Waiting[s] : s \in Stage} \cup {"absent"}

\* A side effect that was started is approved in every state a restart may
\* load: a decision is not taken back, and a claim never reaches the file
\* without the approval it was given on.
EffectApproved ==
    \A w \in Workflows, s \in Stage :
        runs[w][s] > 0 => /\ mem.approval[w][s] = "approved"
                          /\ disk.approval[w][s] = "approved"

\* Every side effect of a workflow happens once and on an approval: resuming is
\* safe to repeat, however the calls, failing writes and restarts interleave.
EffectSound ==
    /\ EffectAtMostOnce
    /\ EffectApproved

\* _validate_aggregate never refuses: what every mutation makes of the aggregate
\* passes it, and so does the file at any moment.  Otherwise a write would fail
\* for good and the Agent would not start again.
SnapshotLoads == ValidAggregate(mem) /\ ValidAggregate(disk)

\* A workflow recorded as completed, in memory or in the file, was committed.
CompletedWasCommitted ==
    \A w \in Workflows :
        "completed" \in {mem.session[w].state, disk.session[w].state} =>
            commits[w] # {}

\* What others leave in the repository at any moment, and whatever the command
\* wrote: a commit holds planned paths only.
CommitWithinPlan ==
    \A w \in Workflows :
        \A k \in commits[w] : DOMAIN k.content \subseteq Planned

\* What the commit stage says and does to the repository.
CommitIsTrue ==
    /\ CompletedWasCommitted
    /\ CommitWithinPlan

\* The steps of a call between its claim and its giving the claim up.
OwnerSteps == {"publish", "inspect", "effect", "collect", "report", "review",
               "pause", "evidence", "commit_check", "commit", "check_result",
               "complete", "release"}

\* A claimed stage is the work of one call, never of two, and, as long as the
\* state file can be written and the repository opened, never of none: every
\* way out of the stage, a restart included, has paused, blocked or completed
\* the session.  A claim nobody owns stays in progress until a restart.
ClaimHasOneOwner ==
    \A w \in Workflows, s \in Stage :
        LET owners == {c \in Calls : Wf(c) = w /\ Stg(c) = s
                                     /\ call[c].pc \in OwnerSteps}
        IN  mem.session[w].state = Claimed[s] =>
                /\ \A c, d \in owners : c = d
                /\ faults = 0 => owners # {}

\* What a restart would find at any moment: a file that loads, no stage that it
\* would replay, no claim without the call that works on it.
RecoverySound ==
    /\ TypeOK
    /\ NotReplayable
    /\ SnapshotLoads
    /\ ClaimHasOneOwner
=============================================================================
