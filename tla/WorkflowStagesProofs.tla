------------------------ MODULE WorkflowStagesProofs ------------------------
(***************************************************************************)
(* Safety of the approval-gated workflow, for every set of workflows,      *)
(* resumes and paths, and whatever faults, restarts and outside changes a  *)
(* setting allows.                                                         *)
(***************************************************************************)
EXTENDS WorkflowStages, TLAPS

----------------------------------------------------------------------------
(* What memory, the file and the calls say together.                       *)

\* The states of a session whose workflow has not reached the claim of stage s.
Before(s) ==
    CASE s = "implementation" -> {"absent", "awaiting_approval"}
      [] s = "verification" -> {"absent", "awaiting_approval", "executing",
                                "awaiting_verification_approval"}
      [] s = "commit" -> {"absent", "awaiting_approval", "executing",
                          "awaiting_verification_approval", "verifying",
                          "awaiting_commit_approval"}

\* From snapshot n to m, no claim and no approval is taken back.
Advance(n, m) ==
    \A w \in Workflows, s \in Stage :
        /\ n.session[w].state \notin Before(s) => m.session[w].state \notin Before(s)
        /\ n.approval[w][s] = "approved" => m.approval[w][s] = "approved"

\* A session is about planned paths, waits for its commit with evidence, and is
\* completed when it was committed.
SessionSound(w, x) ==
    /\ x.files \subseteq Planned
    /\ x.state \in {"awaiting_commit_approval", "committing"} => x.evidence # None
    /\ x.state = "completed" => commits[w] # {}

\* What a restart may load.
Loads(n) ==
    /\ n \in Snapshot
    /\ ValidAggregate(n)
    /\ \A w \in Workflows : SessionSound(w, n.session[w])

\* Memory and the file load, and the file is never behind memory.
StoreInv ==
    /\ Loads(mem) /\ Loads(disk) /\ Advance(mem, disk)

\* A side effect was claimed and approved, and started once.
RunsInv ==
    /\ runs \in [Workflows -> [Stage -> Nat]]
    /\ \A w \in Workflows, s \in Stage :
          /\ runs[w][s] <= 1
          /\ runs[w][s] > 0 => /\ mem.session[w].state \notin Before(s)
                               /\ mem.approval[w][s] = "approved"

CommitsInv ==
    commits \in [Workflows ->
        SUBSET [parent : Nat, content : UNION {[F -> Content] : F \in SUBSET Planned}]]

RepoInv == tree \in [Files -> Content] /\ head \in Nat /\ faults \in Nat

\* A call that is at step pc is in a stage that has it.
InStep(pc, k) ==
    /\ pc \in {"inspect", "collect"} => k.stage = "implementation"
    /\ pc = "effect" => k.stage \in {"implementation", "verification"}
    /\ pc \in {"report", "review"} => k.stage = "verification"
    /\ pc = "pause" => \/ k.stage = "implementation"
                       \/ k.stage = "verification" /\ k.evidence # None
    /\ pc \in {"evidence", "commit_check", "commit", "check_result", "complete"} =>
          k.stage = "commit"
    /\ pc \in {"check_result", "complete"} => commits[k.wf] # {}

\* A call is about planned paths, and commits with evidence.
InStage(k) ==
    /\ k.wf \in Workflows /\ k.stage \in Stage /\ k.read \in Session
    /\ k.files \subseteq Planned
    /\ k.stage = "commit" => k.evidence # None
    /\ InStep(k.pc, k)

\* At the steps before it, the side effect was never started.
Fresh(pc, k) ==
    pc \in {"publish", "inspect", "effect", "evidence", "commit_check", "commit"} =>
        runs[k.wf][k.stage] = 0

\* What an owner may rely on: its claim is in memory and its approval is given.
Owns(k) ==
    /\ mem.session[k.wf].state = Claimed[k.stage]
    /\ k.pc # "release" => k.granted
    /\ Fresh(k.pc, k)

CallInv(k) ==
    /\ k.pc \notin {"idle", "answer"} =>
          /\ InStage(k)
          /\ k.granted => mem.approval[k.wf][k.stage] = "approved"
    /\ k.pc \in OwnerSteps => Owns(k)

\* A claim has one owner, and one at least while the file can be written.
OwnersInv ==
    /\ \A c, d \in Calls : call[c].pc \in OwnerSteps /\ call[d].pc \in OwnerSteps
                           /\ call[c].wf = call[d].wf => c = d
    /\ faults = 0 => \A w \in Workflows :
          mem.session[w].state \in ClaimedStates =>
              \E c \in Calls : call[c].pc \in OwnerSteps /\ call[c].wf = w

Inv ==
    /\ setting \in Settings /\ call \in [Calls -> Call]
    /\ StoreInv
    /\ RunsInv
    /\ CommitsInv
    /\ RepoInv
    /\ \A c \in Calls : CallInv(call[c])
    /\ OwnersInv

----------------------------------------------------------------------------
(* Stages and states.                                                      *)

\* The names of the states of the three stages.
LEMMA StageNames ==
    /\ Stage = {"implementation", "verification", "commit"}
    /\ Waiting["implementation"] = "awaiting_approval"
    /\ Waiting["verification"] = "awaiting_verification_approval"
    /\ Waiting["commit"] = "awaiting_commit_approval"
    /\ Claimed["implementation"] = "executing"
    /\ Claimed["verification"] = "verifying"
    /\ Claimed["commit"] = "committing"
  BY DEF Stage, Waiting, Claimed

\* The claimed states and those that may come before a claim.
LEMMA StageSets ==
    /\ ClaimedStates = {"executing", "verifying", "committing"}
    /\ SessionState = {"absent", "blocked", "completed", "executing", "verifying",
                       "committing", "awaiting_approval",
                       "awaiting_verification_approval", "awaiting_commit_approval"}
    /\ Before("implementation") = {"absent", "awaiting_approval"}
    /\ Before("verification") = {"absent", "awaiting_approval", "executing",
                                 "awaiting_verification_approval"}
    /\ Before("commit") = {"absent", "awaiting_approval", "executing",
                           "awaiting_verification_approval", "verifying",
                           "awaiting_commit_approval"}
<1>1. ClaimedStates = {Claimed["implementation"], Claimed["verification"], Claimed["commit"]}
  BY StageNames DEF ClaimedStates
<1>2. {Waiting[s] : s \in Stage} =
        {Waiting["implementation"], Waiting["verification"], Waiting["commit"]}
  BY StageNames
<1>3. ClaimedStates = {"executing", "verifying", "committing"}
  BY <1>1, StageNames
<1>4. {Waiting[s] : s \in Stage} =
        {"awaiting_approval", "awaiting_verification_approval", "awaiting_commit_approval"}
  BY <1>2, StageNames
<1>5. SessionState = {"absent", "blocked", "completed", "executing", "verifying",
                       "committing", "awaiting_approval",
                       "awaiting_verification_approval", "awaiting_commit_approval"}
  BY <1>3, <1>4 DEF SessionState
<1> QED
  BY <1>3, <1>5 DEF Before

\* A claim leaves the states before it, and an end leaves all of them.
LEMMA StageOrder ==
    ASSUME NEW s \in Stage
    PROVE  /\ Waiting[s] \in Before(s) /\ Claimed[s] \notin Before(s)
           /\ Claimed[s] \in ClaimedStates /\ Waiting[s] \notin ClaimedStates
           /\ Waiting[s] \in SessionState /\ Claimed[s] \in SessionState
           /\ "blocked" \notin Before(s) /\ "completed" \notin Before(s)
           /\ \A g \in Stage : Claimed[g] = Claimed[s] => g = s
           /\ \A g \in Stage : Waiting[s] \notin Before(g) => Claimed[s] \notin Before(g)
           /\ \A g \in Stage : Claimed[s] \notin Before(g) /\ s # "commit" =>
                                   Waiting[After(s)] \notin Before(g)
<1>1. s \in {"implementation", "verification", "commit"}
  BY StageNames
<1>2. CASE s = "implementation"
  BY <1>2, StageNames, StageSets DEF After
<1>3. CASE s = "verification"
  BY <1>3, StageNames, StageSets DEF After
<1>4. CASE s = "commit"
  BY <1>4, StageNames, StageSets DEF After
<1> QED
  BY <1>1, <1>2, <1>3, <1>4

----------------------------------------------------------------------------
(* Snapshots.                                                              *)

\* A snapshot with another session of one workflow.
LEMMA SessionSet ==
    ASSUME NEW n \in Snapshot, NEW w \in Workflows, NEW x \in Session, NEW m,
           m = WithSession(n, w, x)
    PROVE  /\ m \in Snapshot /\ m.approval = n.approval /\ m.session[w] = x
           /\ \A v \in Workflows : v # w => m.session[v] = n.session[v]
<1>1. n.session \in [Workflows -> Session]
      /\ n.approval \in [Workflows -> [Stage -> ApprovalStatus]]
  BY DEF Snapshot
<1>2. m.session = [n.session EXCEPT ![w] = x] /\ m.approval = n.approval
      /\ m = [session |-> m.session, approval |-> m.approval]
  BY DEF Snapshot, WithSession
<1>3. m.session \in [Workflows -> Session]
  BY <1>1, <1>2
<1>4. m \in Snapshot
  BY <1>1, <1>2, <1>3 DEF Snapshot
<1> QED
  BY <1>1, <1>2, <1>4

\* A snapshot with another approval.
LEMMA ApprovalSet ==
    ASSUME NEW n \in Snapshot, NEW w \in Workflows, NEW s \in Stage,
           NEW a \in ApprovalStatus, NEW m, m = WithApproval(n, w, s, a)
    PROVE  /\ m \in Snapshot /\ m.session = n.session /\ m.approval[w][s] = a
           /\ \A v \in Workflows, g \in Stage :
                 v # w \/ g # s => m.approval[v][g] = n.approval[v][g]
<1>1. n.session \in [Workflows -> Session]
      /\ n.approval \in [Workflows -> [Stage -> ApprovalStatus]]
  BY DEF Snapshot
<1>2. m.session = n.session /\ m.approval = [n.approval EXCEPT ![w][s] = a]
      /\ m = [session |-> m.session, approval |-> m.approval]
  BY DEF Snapshot, WithApproval
<1>3. m.approval \in [Workflows -> [Stage -> ApprovalStatus]]
  BY <1>1, <1>2
<1>4. m \in Snapshot
  BY <1>1, <1>2, <1>3 DEF Snapshot
<1> QED
  BY <1>1, <1>2, <1>4

\* A session with another state.
LEMMA StateSet ==
    ASSUME NEW n \in Snapshot, NEW w \in Workflows, NEW state \in SessionState, NEW m,
           m = WithState(n, w, state)
    PROVE  /\ m \in Snapshot /\ m.approval = n.approval
           /\ m.session[w].state = state /\ m.session[w].files = n.session[w].files
           /\ m.session[w].evidence = n.session[w].evidence
           /\ \A v \in Workflows : v # w => m.session[v] = n.session[v]
<1>1. n.session \in [Workflows -> Session] /\ n.session[w] \in Session
  BY DEF Snapshot
<1> DEFINE x == [n.session[w] EXCEPT !.state = state]
<1>2. /\ x \in Session /\ x.state = state /\ x.files = n.session[w].files
      /\ x.evidence = n.session[w].evidence
  BY <1>1 DEF Session
<1>3. m = WithSession(n, w, x)
  BY DEF WithState
<1> HIDE DEF x
<1> QED
  BY <1>2, <1>3, SessionSet

\* Nothing is taken back from a snapshot to itself.
LEMMA AdvanceSame == ASSUME NEW n PROVE Advance(n, n)
  BY DEF Advance

\* What a transition writes: a claim from its approval, an end of a claim, or a
\* snapshot that is as it was because the session is not in the state compared.
LEMMA TransitionLoads ==
    ASSUME Loads(mem), NEW w \in Workflows, NEW from, NEW to \in SessionState,
           to # "absent", \A s \in Stage : to # Waiting[s],
           \A s \in Stage : from \notin Before(s) => to \notin Before(s),
           to = "committing" => from = "awaiting_commit_approval",
           to = "completed" => commits[w] # {}
    PROVE  \E n : /\ n = Transition(w, from, to) /\ Loads(n) /\ Advance(mem, n)
                  /\ n.approval = mem.approval
                  /\ \A v \in Workflows : v # w => n.session[v] = mem.session[v]
                  /\ \/ n = mem /\ mem.session[w].state # from
                     \/ mem.session[w].state = from /\ n.session[w].state = to
<1>1. CASE mem.session[w].state # from
  BY <1>1, AdvanceSame DEF Transition
<1>2. CASE mem.session[w].state = from
  <2>1. mem \in Snapshot
    BY DEF Loads
  <2>2. PICK n : n = WithState(mem, w, to)
    OBVIOUS
  <2>3. /\ n \in Snapshot /\ n.approval = mem.approval
        /\ n.session[w].state = to /\ n.session[w].files = mem.session[w].files
        /\ n.session[w].evidence = mem.session[w].evidence
        /\ \A v \in Workflows : v # w => n.session[v] = mem.session[v]
    BY <2>1, <2>2, StateSet
  <2>4. SessionSound(w, mem.session[w])
    BY DEF Loads
  <2>5. SessionSound(w, n.session[w])
    BY <1>2, <2>3, <2>4, StageNames DEF SessionSound
  <2>6. \A v \in Workflows : SessionSound(v, n.session[v])
    BY <2>3, <2>5 DEF Loads
  <2>7. ValidAggregate(n)
    BY <2>3 DEF Loads, ValidAggregate
  <2>8. Advance(mem, n)
    BY <1>2, <2>3 DEF Advance
  <2>9. n = Transition(w, from, to)
    BY <1>2, <2>2 DEF Transition
  <2> QED
    BY <1>2, <2>3, <2>6, <2>7, <2>8, <2>9 DEF Loads
<1> QED
  BY <1>1, <1>2

\* A decision, or a request for an approval, of a workflow that has begun.
LEMMA ApprovalLoads ==
    ASSUME Loads(mem), NEW w \in Workflows, NEW s \in Stage, NEW a \in ApprovalStatus,
           a # "none", mem.session[w].state # "absent",
           mem.approval[w][s] # "approved",
           NEW n, n = WithApproval(mem, w, s, a)
    PROVE  Loads(n) /\ Advance(mem, n) /\ n.session = mem.session
<1>1. mem \in Snapshot
  BY DEF Loads
<1>2. /\ n \in Snapshot /\ n.session = mem.session /\ n.approval[w][s] = a
      /\ \A v \in Workflows, g \in Stage :
             v # w \/ g # s => n.approval[v][g] = mem.approval[v][g]
  BY <1>1, ApprovalSet
<1>3. ValidAggregate(n)
  BY <1>2 DEF Loads, ValidAggregate
<1>4. Advance(mem, n)
  BY <1>2 DEF Advance
<1> QED
  BY <1>2, <1>3, <1>4 DEF Loads

----------------------------------------------------------------------------
(* Lemmas about a step.                                                    *)

Owner(k) == k.pc \in OwnerSteps

\* A write, or a write that failed, leaves memory and the file as they should be.
LEMMA WriteStep ==
    ASSUME StoreInv, faults \in Nat, NEW n, Loads(n), Advance(mem, n),
           Persist(n) \/ PersistFails(n), UNCHANGED commits
    PROVE  /\ StoreInv' /\ Advance(mem, mem') /\ faults' \in Nat
           /\ Persist(n) => mem' = n /\ faults' = faults
           /\ PersistFails(n) => mem' = mem /\ faults' # 0
<1>1. mem' \in {mem, n} /\ disk' \in {mem, disk, n}
  BY DEF Persist, PersistFails
<1>2. Loads(mem) /\ Loads(disk) /\ Advance(mem, disk)
  BY DEF StoreInv
<1>3. \A x : Loads(x) => (mem' = x => Loads(mem)') /\ (disk' = x => Loads(disk)')
  BY DEF Loads, SessionSound
<1>4. Loads(mem)' /\ Loads(disk)'
  BY <1>1, <1>2, <1>3
<1>5. Advance(mem, mem')
  BY <1>1, AdvanceSame
<1>6. Advance(mem, disk)'
  <2>1. CASE Persist(n)
    BY <2>1, AdvanceSame DEF Persist, Advance
  <2>2. CASE PersistFails(n)
    <3>1. mem' = mem /\ disk' \in {disk, n}
      BY <2>2 DEF PersistFails
    <3> QED
      BY <1>2, <3>1 DEF Advance
  <2> QED
    BY <2>1, <2>2
<1>7. faults' \in Nat /\ (Persist(n) => faults' = faults) /\ (PersistFails(n) => faults' # 0)
  BY DEF Persist, PersistFails
<1> QED
  BY <1>4, <1>5, <1>6, <1>7 DEF StoreInv, Persist, PersistFails

\* The stores stay when neither memory nor the file is written.
LEMMA StoreStays ==
    ASSUME StoreInv, UNCHANGED <<mem, disk>>, \A w \in Workflows : commits[w] # {} => commits'[w] # {}
    PROVE  StoreInv' /\ Advance(mem, mem')
  BY AdvanceSame DEF StoreInv, Loads, SessionSound, Advance

\* What was claimed and approved stays so.
LEMMA RunsStays ==
    ASSUME RunsInv, Advance(mem, mem'), UNCHANGED runs
    PROVE  RunsInv'
  BY DEF RunsInv, Advance

\* What a call relies on stays, if its claim does.
LEMMA CallStays ==
    ASSUME NEW k \in Call, CallInv(k), Advance(mem, mem'),
           \A w \in Workflows : commits[w] # {} => commits'[w] # {},
           Owner(k) => /\ mem'.session[k.wf].state = mem.session[k.wf].state
                       /\ runs'[k.wf] = runs[k.wf]
    PROVE  CallInv(k)'
<1>1. ASSUME k.pc \notin {"idle", "answer"}
      PROVE  InStage(k)' /\ (k.granted => mem'.approval[k.wf][k.stage] = "approved")
  <2>1. InStage(k) /\ k.wf \in Workflows /\ k.stage \in Stage
    BY <1>1 DEF CallInv, InStage
  <2>2. k.granted => mem'.approval[k.wf][k.stage] = "approved"
    BY <1>1, <2>1 DEF CallInv, Advance
  <2>3. InStage(k)'
    BY <2>1 DEF InStage, InStep
  <2> QED
    BY <2>2, <2>3
<1>2. ASSUME Owner(k) PROVE Owns(k)'
  BY <1>2 DEF CallInv, Owns, Fresh, Owner
<1> QED
  BY <1>1, <1>2 DEF CallInv, Owner

\* Call c becomes k, the others stay.
SetsCall(c, k) ==
    /\ call' \in [Calls -> Call]
    /\ call'[c] = k
    /\ \A d \in Calls : d # c => call'[d] = call[d]

\* An owner's workflow has a claimed session.
LEMMA OwnerClaimed ==
    ASSUME Inv, NEW c \in Calls, Owner(call[c])
    PROVE  /\ call[c] \in Call /\ InStage(call[c]) /\ Owns(call[c])
           /\ call[c].wf \in Workflows /\ call[c].stage \in Stage
           /\ mem.session[call[c].wf].state = Claimed[call[c].stage]
           /\ mem.session[call[c].wf].state \in ClaimedStates
           /\ call[c].granted => mem.approval[call[c].wf][call[c].stage] = "approved"
<1>1. call[c] \in Call /\ CallInv(call[c])
  BY DEF Inv
<1>2. InStage(call[c]) /\ Owns(call[c])
      /\ (call[c].granted => mem.approval[call[c].wf][call[c].stage] = "approved")
  BY <1>1 DEF CallInv, Owner, OwnerSteps
<1> QED
  BY <1>1, <1>2, StageOrder DEF InStage, Owns

\* A step of call c about workflow w: the invariant stays if what the call says is
\* so afterwards, the sessions that others have claimed stay, and no claim is
\* taken twice or, unless a write has failed, given up by none.
LEMMA MoveInv ==
    ASSUME Inv, NEW c \in Calls, NEW k \in Call, SetsCall(c, k), NEW w,
           UNCHANGED setting,
           StoreInv', Advance(mem, mem'), RunsInv', CommitsInv', RepoInv',
           \A v \in Workflows : commits[v] # {} => commits'[v] # {},
           \A v \in Workflows : v # w => /\ mem'.session[v].state = mem.session[v].state
                                         /\ runs'[v] = runs[v],
           \/ w \notin Workflows
           \/ mem'.session[w].state = mem.session[w].state /\ runs'[w] = runs[w]
           \/ mem.session[w].state \notin ClaimedStates
           \/ Owner(call[c]) /\ call[c].wf = w,
           CallInv(k)',
           Owner(k) => \/ Owner(call[c]) /\ k.wf = call[c].wf
                       \/ mem.session[k.wf].state \notin ClaimedStates,
           faults' = 0 =>
              /\ faults = 0
              /\ Owner(call[c]) => \/ Owner(k) /\ k.wf = call[c].wf
                                   \/ mem'.session[call[c].wf].state \notin ClaimedStates
              /\ w \in Workflows =>
                    \/ mem'.session[w].state \notin ClaimedStates
                    \/ mem.session[w].state \in ClaimedStates
                    \/ Owner(k) /\ k.wf = w
    PROVE  Inv'
<1>1. /\ call' \in [Calls -> Call] /\ call'[c] = k
      /\ \A d \in Calls : d # c => call'[d] = call[d]
  BY DEF SetsCall
<1>2. ASSUME NEW d \in Calls, d # c, Owner(call[d])
      PROVE  /\ mem'.session[call[d].wf].state = mem.session[call[d].wf].state
             /\ runs'[call[d].wf] = runs[call[d].wf]
  <2>1. call[d].wf \in Workflows /\ mem.session[call[d].wf].state \in ClaimedStates
    BY <1>2, OwnerClaimed
  <2>2. ~ (Owner(call[c]) /\ call[c].wf = call[d].wf)
    BY <1>2 DEF Inv, OwnersInv, Owner
  <2> QED
    BY <2>1, <2>2
<1>3. ASSUME NEW d \in Calls PROVE CallInv(call[d])'
  <2>1. CASE d = c
    BY <1>1, <2>1 DEF CallInv, InStage, InStep, Owns, Fresh
  <2>2. CASE d # c
    <3>1. PICK x \in Call : x = call[d]
      BY DEF Inv
    <3>2. CallInv(x)
      BY <3>1 DEF Inv
    <3>3. CallInv(x)'
      BY <1>2, <2>2, <3>1, <3>2, CallStays
    <3>4. call'[d] = x
      BY <1>1, <2>2, <3>1
    <3> QED
      BY <3>3, <3>4 DEF CallInv, InStage, InStep, Owns, Fresh
  <2> QED
    BY <2>1, <2>2
<1>4. ASSUME NEW d \in Calls, NEW e \in Calls, Owner(call'[d]), Owner(call'[e]),
             call'[d].wf = call'[e].wf
      PROVE  d = e
  <2>1. ASSUME NEW x \in Calls, x # c, Owner(call[x]), Owner(k), k.wf = call[x].wf
        PROVE  FALSE
    <3>1. mem.session[call[x].wf].state \in ClaimedStates
      BY <2>1, OwnerClaimed
    <3>2. Owner(call[c]) /\ call[c].wf = call[x].wf
      BY <2>1, <3>1
    <3> QED
      BY <2>1, <3>2 DEF Inv, OwnersInv, Owner
  <2>2. CASE d # c /\ e # c
    BY <1>1, <1>4, <2>2 DEF Inv, OwnersInv, Owner
  <2>3. CASE d = c /\ e # c
    BY <1>1, <1>4, <2>1, <2>3
  <2>4. CASE d # c /\ e = c
    BY <1>1, <1>4, <2>1, <2>4
  <2> QED
    BY <2>2, <2>3, <2>4
<1>5. ASSUME faults' = 0, NEW v \in Workflows, mem'.session[v].state \in ClaimedStates
      PROVE  \E d \in Calls : Owner(call'[d]) /\ call'[d].wf = v
  <2>1. CASE Owner(k) /\ k.wf = v
    BY <1>1, <2>1
  <2>2. CASE ~ (Owner(k) /\ k.wf = v)
    <3>1. mem.session[v].state \in ClaimedStates
      BY <1>5, <2>2
    <3>2. PICK d \in Calls : Owner(call[d]) /\ call[d].wf = v
      BY <1>5, <3>1 DEF Inv, OwnersInv, Owner
    <3>3. d # c
      BY <1>5, <2>2, <3>2
    <3> QED
      BY <1>1, <3>2, <3>3
  <2> QED
    BY <2>1, <2>2
<1>6. OwnersInv'
  BY <1>4, <1>5 DEF OwnersInv, Owner
<1> QED
  BY <1>1, <1>3, <1>6 DEF Inv

\* k is x at another step.
SameCall(k, x) ==
    /\ k.wf = x.wf /\ k.stage = x.stage /\ k.granted = x.granted /\ k.read = x.read
    /\ k.files = x.files /\ k.evidence = x.evidence

\* Only the step of the call changes.
LEMMA GotoSets ==
    ASSUME call \in [Calls -> Call], NEW c \in Calls, NEW pc \in Steps, Goto(c, pc)
    PROVE  \E k \in Call : SetsCall(c, k) /\ k.pc = pc /\ SameCall(k, call[c])
<1>1. call[c] \in Call
  OBVIOUS
<1> DEFINE k == [call[c] EXCEPT !.pc = pc]
<1>2. k \in Call /\ k.pc = pc /\ SameCall(k, call[c])
  BY <1>1 DEF Call, SameCall
<1>3. call' = [call EXCEPT ![c] = k]
  BY DEF Goto
<1> HIDE DEF k
<1>4. SetsCall(c, k)
  BY <1>2, <1>3 DEF SetsCall
<1> QED
  BY <1>2, <1>4

\* A call that ends is about no workflow.
LEMMA EndSets ==
    ASSUME call \in [Calls -> Call], NEW c \in Calls,
           \/ Raise(c) \/ Return(c)
           \/ call' = [call EXCEPT ![c] = [Idle EXCEPT !.pc = "answer"]]
    PROVE  \E k \in Call : SetsCall(c, k) /\ k.pc \in {"idle", "answer"}
<1>1. CASE Raise(c)
  <2> DEFINE k == [Idle EXCEPT !.outcome = "internal_failure"]
  <2>1. k \in Call /\ k.pc = "idle"
    BY DEF Idle, Call, Steps, Outcome
  <2>2. call' = [call EXCEPT ![c] = k]
    BY <1>1 DEF Raise
  <2> HIDE DEF k
  <2> QED
    BY <2>1, <2>2 DEF SetsCall
<1>2. CASE Return(c)
  <2> DEFINE k == [Idle EXCEPT !.outcome = "answered"]
  <2>1. k \in Call /\ k.pc = "idle"
    BY DEF Idle, Call, Steps, Outcome
  <2>2. call' = [call EXCEPT ![c] = k]
    BY <1>2 DEF Return
  <2> HIDE DEF k
  <2> QED
    BY <2>1, <2>2 DEF SetsCall
<1>3. CASE call' = [call EXCEPT ![c] = [Idle EXCEPT !.pc = "answer"]]
  <2> DEFINE k == [Idle EXCEPT !.pc = "answer"]
  <2>1. k \in Call /\ k.pc = "answer"
    BY DEF Idle, Call, Steps, Outcome
  <2>2. call' = [call EXCEPT ![c] = k]
    BY <1>3
  <2> HIDE DEF k
  <2> QED
    BY <2>1, <2>2 DEF SetsCall
<1> QED
  BY <1>1, <1>2, <1>3

\* The repository stays.
LEMMA WorldStays ==
    ASSUME Inv, UNCHANGED world, faults' \in Nat, Advance(mem, mem')
    PROVE  /\ RunsInv' /\ CommitsInv' /\ RepoInv' /\ UNCHANGED <<runs, commits>>
           /\ \A v \in Workflows : commits[v] # {} => commits'[v] # {}
<1>1. UNCHANGED <<tree, head, runs, commits>>
  BY DEF world
<1> QED
  BY <1>1, RunsStays DEF Inv, CommitsInv, RepoInv

\* A call leaves its stage: an owner has ended its claim, or a write has failed.
LEMMA LeaveInv ==
    ASSUME Inv, NEW c \in Calls, UNCHANGED <<world, setting>>, faults' \in Nat,
           StoreInv', Advance(mem, mem'), NEW w,
           \/ Goto(c, "answer") \/ Raise(c) \/ Return(c)
           \/ call' = [call EXCEPT ![c] = [Idle EXCEPT !.pc = "answer"]],
           \A v \in Workflows : v # w => mem'.session[v].state = mem.session[v].state,
           \/ mem' = mem
           \/ mem.session[w].state \notin ClaimedStates
           \/ Owner(call[c]) /\ call[c].wf = w,
           faults' = 0 =>
              /\ faults = 0
              /\ Owner(call[c]) => mem'.session[call[c].wf].state \notin ClaimedStates
              /\ mem' = mem \/ mem'.session[w].state \notin ClaimedStates
    PROVE  Inv'
<1>1. PICK k \in Call : SetsCall(c, k) /\ k.pc \in {"idle", "answer"}
  BY GotoSets, EndSets DEF Inv, Steps
<1>2. ~ Owner(k) /\ CallInv(k)'
  BY <1>1 DEF Owner, OwnerSteps, CallInv
<1>3. RunsInv' /\ CommitsInv' /\ RepoInv' /\ UNCHANGED <<runs, commits>>
  BY WorldStays
<1> QED
  BY <1>1, <1>2, <1>3, MoveInv

\* An owner goes on with its stage.
LEMMA OwnerInv ==
    ASSUME Inv, NEW c \in Calls, Owner(call[c]), NEW x \in Call, x = call[c],
           NEW k \in Call, SetsCall(c, k), Owner(k),
           k.wf = x.wf, k.stage = x.stage, k.granted = x.granted, k.read = x.read,
           k.files \subseteq Planned, k.stage = "commit" => k.evidence # None,
           UNCHANGED setting, StoreInv', UNCHANGED mem, faults' = 0 => faults = 0,
           RunsInv', CommitsInv', RepoInv',
           \A v \in Workflows : commits[v] # {} => commits'[v] # {},
           \A v \in Workflows : v # x.wf => runs'[v] = runs[v],
           InStep(k.pc, k)', Fresh(k.pc, k)',
           k.pc # "release" => x.pc # "release"
    PROVE  Inv'
<1>2. /\ InStage(x) /\ Owns(x) /\ x.wf \in Workflows /\ x.stage \in Stage
      /\ x.granted => mem.approval[x.wf][x.stage] = "approved"
  BY OwnerClaimed
<1>3. InStage(k)'
  BY <1>2 DEF InStage
<1>4. Owns(k)'
  BY <1>2 DEF Owns
<1>5. CallInv(k)'
  BY <1>2, <1>3, <1>4 DEF CallInv
<1>6. Advance(mem, mem')
  BY AdvanceSame
<1> QED
  BY <1>2, <1>5, <1>6, MoveInv

\* It only goes to another step.
LEMMA StayInv ==
    ASSUME Inv, NEW c \in Calls, Owner(call[c]), NEW pc \in OwnerSteps, Goto(c, pc),
           UNCHANGED setting, StoreInv', UNCHANGED mem, faults' = 0 => faults = 0,
           RunsInv', CommitsInv', RepoInv',
           \A v \in Workflows : commits[v] # {} => commits'[v] # {},
           NEW x \in Call, x = call[c], InStep(pc, x)', Fresh(pc, x)',
           \A v \in Workflows : v # x.wf => runs'[v] = runs[v],
           pc # "release" => x.pc # "release"
    PROVE  Inv'
<1>1. PICK k \in Call : SetsCall(c, k) /\ k.pc = pc /\ SameCall(k, x)
  BY GotoSets DEF Inv, OwnerSteps, Steps
<1>2. k.files \subseteq Planned /\ (k.stage = "commit" => k.evidence # None)
  BY <1>1, OwnerClaimed DEF InStage, SameCall
<1>3. InStep(k.pc, k)' /\ Fresh(k.pc, k)'
  BY <1>1 DEF InStep, Fresh, SameCall
<1> QED
  BY <1>1, <1>2, <1>3, OwnerInv DEF Owner, SameCall

\* It does so without touching anything.
LEMMA QuietStayInv ==
    ASSUME Inv, NEW c \in Calls, Owner(call[c]), NEW pc \in OwnerSteps, Goto(c, pc),
           UNCHANGED <<setting, world>>, StoreInv', UNCHANGED mem, faults' \in Nat,
           faults' = 0 => faults = 0,
           NEW x \in Call, x = call[c], InStep(pc, x), Fresh(pc, x),
           pc # "release" => x.pc # "release"
    PROVE  Inv'
<1>1. Advance(mem, mem')
  BY AdvanceSame
<1>2. /\ RunsInv' /\ CommitsInv' /\ RepoInv' /\ UNCHANGED <<runs, commits>>
      /\ \A v \in Workflows : commits[v] # {} => commits'[v] # {}
  BY <1>1, WorldStays
<1>3. InStep(pc, x)' /\ Fresh(pc, x)'
  BY <1>2 DEF InStep, Fresh
<1> QED
  BY <1>2, <1>3, StayInv

\* A call without a claim goes on, having seen an approval.
LEMMA FreeInv ==
    ASSUME Inv, NEW c \in Calls, ~ Owner(call[c]), NEW k \in Call, SetsCall(c, k),
           UNCHANGED <<setting, mem, disk, faults, world>>,
           ~ Owner(k), InStage(k),
           k.granted => mem.approval[k.wf][k.stage] = "approved"
    PROVE  Inv'
<1>1. Advance(mem, mem')
  BY AdvanceSame
<1>2. /\ RunsInv' /\ CommitsInv' /\ RepoInv' /\ UNCHANGED <<runs, commits>>
      /\ \A v \in Workflows : commits[v] # {} => commits'[v] # {}
  BY <1>1, WorldStays DEF Inv, RepoInv
<1>3. StoreInv'
  BY <1>2, StoreStays DEF Inv
<1>4. CallInv(k)'
  BY <1>2 DEF CallInv, InStage, InStep, Owner
<1>5. k.wf \in Workflows
  BY DEF InStage
<1> QED
  BY <1>1, <1>2, <1>3, <1>4, <1>5, MoveInv

\* An owner goes on and has touched nothing.
LEMMA SilentInv ==
    ASSUME Inv, NEW c \in Calls, Owner(call[c]), NEW pc \in OwnerSteps, Goto(c, pc),
           UNCHANGED <<setting, mem, disk, faults, world>>,
           NEW x \in Call, x = call[c], InStep(pc, x), Fresh(pc, x),
           pc # "release" => x.pc # "release"
    PROVE  Inv'
<1>1. StoreInv' /\ faults' \in Nat
  BY StoreStays DEF Inv, RepoInv, world
<1> QED
  BY <1>1, QuietStayInv

\* A call without a claim goes on and has touched nothing.
LEMMA FreeGotoInv ==
    ASSUME Inv, NEW c \in Calls, ~ Owner(call[c]), call[c].pc \notin {"idle", "answer"},
           NEW pc \in {"answer", "refuse", "claim"}, Goto(c, pc),
           UNCHANGED <<setting, mem, disk, faults, world>>
    PROVE  Inv'
<1>1. PICK x \in Call : x = call[c] /\ CallInv(x)
  BY DEF Inv
<1>2. PICK k \in Call : SetsCall(c, k) /\ k.pc = pc /\ SameCall(k, x)
  BY <1>1, GotoSets DEF Inv, Steps
<1>3. InStage(k)
  BY <1>1, <1>2 DEF CallInv, InStage, InStep, SameCall
<1>4. ~ Owner(k) /\ (k.granted => mem.approval[k.wf][k.stage] = "approved")
  BY <1>1, <1>2 DEF CallInv, SameCall, Owner, OwnerSteps
<1> QED
  BY <1>2, <1>3, <1>4, FreeInv

\* Memory itself can be written again.
LEMMA MemLoads ==
    ASSUME Inv
    PROVE  Loads(mem) /\ Advance(mem, mem) /\ StoreInv /\ faults \in Nat
  BY AdvanceSame DEF Inv, StoreInv, RepoInv

----------------------------------------------------------------------------
(* The steps of a call before its claim.                                   *)

\* A resume reads the session once.
LEMMA ResumeInv ==
    ASSUME Inv, UNCHANGED setting, NEW c \in Calls, NEW w \in Workflows, Resume(c, w)
    PROVE  Inv'
<1>1. /\ call[c].pc = "idle" /\ ~ Owner(call[c])
      /\ UNCHANGED <<mem, disk, faults, world>>
  BY DEF Resume, At, Owner, OwnerSteps
<1>2. CASE Return(c) \/ call' = [call EXCEPT ![c] = [Idle EXCEPT !.pc = "answer"]]
  <2>1. StoreInv' /\ Advance(mem, mem') /\ faults' \in Nat /\ faults' = faults
    BY <1>1, StoreStays, MemLoads DEF world
  <2> QED
    BY <1>1, <1>2, <2>1, LeaveInv
<1>3. ASSUME NEW s \in Stage, mem.session[w].state = Waiting[s],
             call' = [call EXCEPT ![c] =
                           [Idle EXCEPT !.pc = "approval", !.wf = w, !.stage = s,
                                        !.read = mem.session[w],
                                        !.files = mem.session[w].files,
                                        !.evidence = mem.session[w].evidence]]
      PROVE  Inv'
  <2>1. PICK x \in Session : x = mem.session[w] /\ SessionSound(w, x)
    BY MemLoads DEF Loads, Snapshot
  <2> DEFINE n == [Idle EXCEPT !.pc = "approval", !.wf = w, !.stage = s, !.read = x,
                               !.files = x.files, !.evidence = x.evidence]
  <2>2. /\ n \in Call /\ n.pc = "approval" /\ n.wf = w /\ n.stage = s /\ n.read = x
        /\ n.files = x.files /\ n.evidence = x.evidence /\ n.granted = FALSE
    BY <2>1 DEF Idle, Call, Steps, Outcome, Session
  <2>3. call' = [call EXCEPT ![c] = n]
    BY <1>3, <2>1
  <2> HIDE DEF n
  <2>4. SetsCall(c, n)
    BY <2>2, <2>3 DEF Inv, SetsCall
  <2>5. PICK k \in Call : SetsCall(c, k) /\ k = n
    BY <2>2, <2>4
  <2>6. InStage(k)
    BY <1>3, <2>1, <2>2, <2>5, StageNames DEF InStage, InStep, SessionSound
  <2>7. ~ Owner(k) /\ ~ k.granted
    BY <2>2, <2>5 DEF Owner, OwnerSteps
  <2> QED
    BY <1>1, <2>5, <2>6, <2>7, FreeInv
<1> QED
  BY <1>2, <1>3 DEF Resume

\* The stored approval is evaluated.
LEMMA CheckApprovalInv ==
    ASSUME Inv, UNCHANGED setting, NEW c \in Calls, CheckApproval(c)
    PROVE  Inv'
<1>1. PICK x \in Call : x = call[c] /\ CallInv(x)
  BY DEF Inv
<1>2. /\ x.pc = "approval" /\ ~ Owner(x) /\ InStage(x)
      /\ UNCHANGED <<mem, disk, faults, world>>
  BY <1>1 DEF CheckApproval, At, Owner, OwnerSteps, CallInv
<1>3. PICK pc \in {"answer", "claim", "validate", "refuse"}, granted \in BOOLEAN :
        /\ granted => mem.approval[x.wf][x.stage] = "approved"
        /\ call' = [call EXCEPT ![c].granted = granted, ![c].pc = pc]
  BY <1>1 DEF CheckApproval, Granted, Wf, Stg
<1> DEFINE n == [x EXCEPT !.granted = granted, !.pc = pc]
<1>4. /\ n \in Call /\ n.pc = pc /\ n.granted = granted /\ n.wf = x.wf /\ n.stage = x.stage
      /\ n.read = x.read /\ n.files = x.files /\ n.evidence = x.evidence
  BY DEF Call, Steps
<1>5. call' = [call EXCEPT ![c] = n]
  BY <1>1, <1>3 DEF Inv
<1> HIDE DEF n
<1>6. PICK k \in Call : SetsCall(c, k) /\ k = n
  BY <1>4, <1>5 DEF Inv, SetsCall
<1>7. InStage(k)
  BY <1>2, <1>4, <1>6 DEF InStage, InStep
<1>8. ~ Owner(k) /\ (k.granted => mem.approval[k.wf][k.stage] = "approved")
  BY <1>3, <1>4, <1>6 DEF Owner, OwnerSteps
<1> QED
  BY <1>1, <1>2, <1>6, <1>7, <1>8, FreeInv

\* A candidate is validated.
LEMMA ValidateInv ==
    ASSUME Inv, UNCHANGED setting, NEW c \in Calls, Validate(c)
    PROVE  Inv'
<1>1. call[c].pc = "validate" /\ ~ Owner(call[c])
      /\ UNCHANGED <<mem, disk, faults, world>>
  BY DEF Validate, At, Owner, OwnerSteps
<1> QED
  BY <1>1, FreeGotoInv DEF Validate

\* A stage that waits is blocked.
LEMMA RefuseInv ==
    ASSUME Inv, UNCHANGED setting, NEW c \in Calls, Refuse(c)
    PROVE  Inv'
<1>1. PICK x \in Call : x = call[c] /\ CallInv(x)
  BY DEF Inv
<1>2. x.pc = "refuse" /\ ~ Owner(x) /\ InStage(x) /\ UNCHANGED world
  BY <1>1 DEF Refuse, At, Owner, OwnerSteps, CallInv
<1>3. PICK w \in Workflows, s \in Stage : w = x.wf /\ s = x.stage
  BY <1>2 DEF InStage
<1>4. "blocked" \in SessionState /\ \A g \in Stage : "blocked" # Waiting[g]
  BY StageNames, StageSets
<1>5. PICK n : /\ n = Transition(w, Waiting[s], "blocked") /\ Loads(n) /\ Advance(mem, n)
               /\ \A v \in Workflows : v # w => n.session[v] = mem.session[v]
               /\ \/ n = mem
                  \/ mem.session[w].state = Waiting[s] /\ n.session[w].state = "blocked"
  BY <1>4, MemLoads, StageOrder, TransitionLoads
<1>6. \/ Persist(n) /\ (Goto(c, "answer") \/ Return(c))
      \/ PersistFails(n) /\ Raise(c)
  BY <1>1, <1>3, <1>5 DEF Refuse, Wf, Stg
<1>7. /\ StoreInv' /\ Advance(mem, mem') /\ faults' \in Nat
      /\ Persist(n) => mem' = n /\ faults' = faults
      /\ PersistFails(n) => mem' = mem /\ faults' # 0
  BY <1>2, <1>5, <1>6, MemLoads, WriteStep DEF world
<1>8. Waiting[s] \notin ClaimedStates /\ "blocked" \notin ClaimedStates
  BY StageOrder, StageSets
<1>9. \/ mem' = mem
      \/ mem.session[w].state \notin ClaimedStates /\ mem'.session[w].state \notin ClaimedStates
  BY <1>5, <1>6, <1>7, <1>8
<1>10. /\ \A v \in Workflows : v # w => mem'.session[v].state = mem.session[v].state
       /\ faults' = 0 => faults = 0
  BY <1>5, <1>6, <1>7
<1> QED
  BY <1>1, <1>2, <1>6, <1>7, <1>9, <1>10, LeaveInv

\* Of the calls that saw the approval, the one whose swap succeeds goes on: the
\* side effect has never been started, since the session waited for it.
LEMMA ClaimInv ==
    ASSUME Inv, UNCHANGED setting, NEW c \in Calls, Claim(c)
    PROVE  Inv'
<1>1. PICK x \in Call : x = call[c] /\ CallInv(x)
  BY DEF Inv
<1>2. x.pc = "claim" /\ ~ Owner(x) /\ InStage(x) /\ UNCHANGED world
      /\ (x.granted => mem.approval[x.wf][x.stage] = "approved")
  BY <1>1 DEF Claim, At, Owner, OwnerSteps, CallInv
<1>3. PICK w \in Workflows, s \in Stage : w = x.wf /\ s = x.stage
  BY <1>2 DEF InStage
<1>4. /\ Claimed[s] \in SessionState /\ Claimed[s] # "absent"
      /\ \A g \in Stage : Claimed[s] # Waiting[g]
      /\ Claimed[s] = "committing" => Waiting[s] = "awaiting_commit_approval"
      /\ Claimed[s] # "completed"
  BY StageNames, StageSets
<1>5. PICK n : /\ n = Transition(w, Waiting[s], Claimed[s]) /\ Loads(n) /\ Advance(mem, n)
               /\ \A v \in Workflows : v # w => n.session[v] = mem.session[v]
               /\ \/ n = mem
                  \/ mem.session[w].state = Waiting[s] /\ n.session[w].state = Claimed[s]
  BY <1>4, MemLoads, StageOrder, TransitionLoads
<1>6. \/ /\ Persist(n)
         /\ \/ n # mem /\ Goto(c, IF x.granted THEN "publish" ELSE "release")
            \/ n = mem /\ Return(c)
      \/ PersistFails(n) /\ Raise(c)
  BY <1>1, <1>3, <1>5 DEF Claim, Wf, Stg
<1>7. /\ StoreInv' /\ Advance(mem, mem') /\ faults' \in Nat
      /\ Persist(n) => mem' = n /\ faults' = faults
      /\ PersistFails(n) => mem' = mem /\ faults' # 0
  BY <1>2, <1>5, <1>6, MemLoads, WriteStep DEF world
<1>8. CASE (Persist(n) /\ n = mem /\ Return(c)) \/ (PersistFails(n) /\ Raise(c))
  <2>1. mem' = mem /\ (faults' = 0 => faults = 0)
    BY <1>7, <1>8
  <2> QED
    BY <1>1, <1>2, <1>7, <1>8, <2>1, LeaveInv
<1>9. CASE Persist(n) /\ n # mem /\ Goto(c, IF x.granted THEN "publish" ELSE "release")
  <2>1. PICK pc \in {"publish", "release"} :
           pc = (IF x.granted THEN "publish" ELSE "release") /\ Goto(c, pc)
    BY <1>9
  <2>2. PICK k \in Call : SetsCall(c, k) /\ k.pc = pc /\ SameCall(k, x)
    BY <1>1, <2>1, GotoSets DEF Inv, Steps
  <2>3. mem' = n /\ faults' = faults /\ mem.session[w].state = Waiting[s]
        /\ mem'.session[w].state = Claimed[s]
    BY <1>5, <1>7, <1>9
  <2>4. RunsInv' /\ CommitsInv' /\ RepoInv' /\ UNCHANGED <<runs, commits>>
    BY <1>2, <1>7, WorldStays
  <2>5. runs[w][s] = 0
    BY <2>3, StageOrder DEF Inv, RunsInv
  <2>6. InStage(k)'
    BY <1>2, <2>1, <2>2 DEF InStage, InStep, SameCall
  <2>7. Owns(k)'
    BY <1>3, <2>1, <2>2, <2>3, <2>4, <2>5 DEF Owns, Fresh, SameCall
  <2>8. k.granted => mem'.approval[k.wf][k.stage] = "approved"
    BY <1>2, <1>3, <1>7, <2>2 DEF Advance, SameCall
  <2>9. CallInv(k)' /\ Owner(k) /\ k.wf = w
    BY <1>3, <2>1, <2>2, <2>6, <2>7, <2>8 DEF CallInv, Owner, OwnerSteps, SameCall
  <2>10. Waiting[s] \notin ClaimedStates
    BY StageOrder
  <2>11. \A v \in Workflows : v # w => mem'.session[v].state = mem.session[v].state
    BY <1>5, <2>3
  <2> QED
    BY <1>1, <1>2, <1>7, <2>2, <2>3, <2>4, <2>9, <2>10, <2>11, MoveInv
<1> QED
  BY <1>6, <1>8, <1>9

----------------------------------------------------------------------------
(* The steps of an owner.                                                  *)

\* What an owner has at its step.
LEMMA OwnerHas ==
    ASSUME Inv, NEW c \in Calls, Owner(call[c])
    PROVE  \E x \in Call : /\ x = call[c] /\ InStage(x) /\ InStep(x.pc, x) /\ Owns(x)
                           /\ Fresh(x.pc, x)
                           /\ x.wf \in Workflows /\ x.stage \in Stage
  BY OwnerClaimed DEF InStage, Owns

\* The status is published; a failure leaves the claim without an owner.
LEMMA PublishInv ==
    ASSUME Inv, UNCHANGED setting, NEW c \in Calls, Publish(c)
    PROVE  Inv'
<1>1. call[c].pc = "publish" /\ Owner(call[c]) /\ UNCHANGED world
  BY DEF Publish, At, Owner, OwnerSteps
<1>2. PICK x \in Call : /\ x = call[c] /\ InStage(x) /\ Fresh(x.pc, x)
                        /\ x.wf \in Workflows /\ x.stage \in Stage
  BY <1>1, OwnerHas
<1>3. CASE PersistFails(mem) /\ Raise(c)
  <2>1. StoreInv' /\ Advance(mem, mem') /\ faults' \in Nat /\ mem' = mem /\ faults' # 0
    BY <1>1, <1>3, MemLoads, WriteStep DEF world
  <2> QED
    BY <1>1, <1>3, <2>1, LeaveInv
<1>4. ASSUME NEW pc \in {"inspect", "effect", "evidence", "commit_check"},
             Persist(mem), Goto(c, pc), InStep(pc, x)
      PROVE  Inv'
  <2>1. StoreInv' /\ faults' \in Nat /\ mem' = mem /\ faults' = faults
    BY <1>1, <1>4, MemLoads, WriteStep DEF world
  <2>2. Fresh(pc, x) /\ pc \in OwnerSteps
    BY <1>1, <1>2 DEF Fresh, OwnerSteps
  <2> QED
    BY <1>1, <1>2, <1>4, <2>1, <2>2, QuietStayInv
<1>5. CASE Persist(mem) /\ x.stage = "implementation" /\ Goto(c, "inspect")
  BY <1>4, <1>5 DEF InStep
<1>6. CASE Persist(mem) /\ x.stage = "verification" /\ Goto(c, "effect")
  BY <1>4, <1>6 DEF InStep
<1>7. CASE Persist(mem) /\ x.stage = "commit"
           /\ (Goto(c, "evidence") \/ Goto(c, "commit_check"))
  BY <1>4, <1>7 DEF InStep
<1> QED
  BY <1>2, <1>3, <1>5, <1>6, <1>7 DEF Publish, Stg

\* A claim is given up.
LEMMA ReleaseInv ==
    ASSUME Inv, UNCHANGED setting, NEW c \in Calls, Release(c)
    PROVE  Inv'
<1>1. call[c].pc = "release" /\ Owner(call[c]) /\ UNCHANGED world
  BY DEF Release, At, Owner, OwnerSteps
<1>2. PICK x \in Call : x = call[c] /\ Owns(x) /\ x.wf \in Workflows /\ x.stage \in Stage
  BY <1>1, OwnerHas
<1>3. PICK w \in Workflows, s \in Stage : w = x.wf /\ s = x.stage
  BY <1>2
<1>4. "blocked" \in SessionState /\ \A g \in Stage : "blocked" # Waiting[g]
  BY StageNames, StageSets
<1>5. PICK n : /\ n = Transition(w, Claimed[s], "blocked") /\ Loads(n) /\ Advance(mem, n)
               /\ \A v \in Workflows : v # w => n.session[v] = mem.session[v]
               /\ \/ n = mem /\ mem.session[w].state # Claimed[s]
                  \/ n.session[w].state = "blocked"
  BY <1>4, MemLoads, StageOrder, TransitionLoads
<1>6. n.session[w].state = "blocked" /\ "blocked" \notin ClaimedStates
  BY <1>2, <1>3, <1>5, StageSets DEF Owns
<1>7. \/ Persist(n) /\ Goto(c, "answer")
      \/ PersistFails(n) /\ Raise(c)
  BY <1>2, <1>3, <1>5 DEF Release, Wf, Stg
<1>8. /\ StoreInv' /\ Advance(mem, mem') /\ faults' \in Nat
      /\ Persist(n) => mem' = n /\ faults' = faults
      /\ PersistFails(n) => mem' = mem /\ faults' # 0
  BY <1>1, <1>5, <1>7, MemLoads, WriteStep DEF world
<1>9. /\ \A v \in Workflows : v # w => mem'.session[v].state = mem.session[v].state
      /\ faults' = 0 => faults = 0 /\ mem'.session[w].state \notin ClaimedStates
  BY <1>5, <1>6, <1>7, <1>8
<1> QED
  BY <1>1, <1>2, <1>3, <1>7, <1>8, <1>9, LeaveInv

\* An answer publishes the status.
LEMMA AnswerInv ==
    ASSUME Inv, UNCHANGED setting, NEW c \in Calls, Answer(c)
    PROVE  Inv'
<1>1. call[c].pc = "answer" /\ ~ Owner(call[c]) /\ UNCHANGED world
  BY DEF Answer, At, Owner, OwnerSteps
<1>2. \/ Persist(mem) /\ Return(c)
      \/ PersistFails(mem) /\ Raise(c)
  BY DEF Answer
<1>3. /\ StoreInv' /\ Advance(mem, mem') /\ faults' \in Nat /\ mem' = mem
      /\ faults' = 0 => faults = 0
  BY <1>1, <1>2, MemLoads, WriteStep DEF world
<1> QED
  BY <1>1, <1>2, <1>3, LeaveInv

\* The repository is inspected, or the staged evidence and HEAD are compared.
LEMMA LookInv ==
    ASSUME Inv, UNCHANGED setting, NEW c \in Calls,
           Inspect(c) \/ CheckEvidence(c) \/ CommitCheck(c)
    PROVE  Inv'
<1>1. /\ call[c].pc \in {"inspect", "evidence", "commit_check"} /\ Owner(call[c])
      /\ UNCHANGED <<mem, disk, world>>
      /\ CannotOpen(c) \/ UNCHANGED faults
  BY DEF Inspect, CheckEvidence, CommitCheck, At, Owner, OwnerSteps
<1>2. PICK x \in Call : x = call[c] /\ InStep(x.pc, x) /\ Fresh(x.pc, x)
  BY <1>1, OwnerHas
<1>3. ASSUME NEW pc \in {"release", "effect", "commit_check", "commit"}, Goto(c, pc),
             UNCHANGED faults,
             pc = "effect" => x.pc = "inspect",
             pc \in {"commit_check", "commit"} => x.pc \in {"evidence", "commit_check"}
      PROVE  Inv'
  <2>1. InStep(pc, x) /\ Fresh(pc, x) /\ pc \in OwnerSteps
    BY <1>1, <1>2, <1>3 DEF InStep, Fresh, OwnerSteps
  <2> QED
    BY <1>1, <1>2, <1>3, <2>1, SilentInv
\* A repository that cannot be opened counts as a fault.
<1>4. CASE CannotOpen(c)
  <2>1. faults' \in Nat /\ faults' # 0 /\ Raise(c)
    BY <1>4, MemLoads DEF CannotOpen
  <2>2. StoreInv' /\ Advance(mem, mem')
    BY <1>1, MemLoads, StoreStays DEF world
  <2> QED
    BY <1>1, <2>1, <2>2, LeaveInv
<1> QED
  BY <1>2, <1>3, <1>4 DEF Inspect, CheckEvidence, CommitCheck, At

\* The side effect of a stage is started: it had not been, and it is approved.
LEMMA EffectRuns ==
    ASSUME Inv, NEW c \in Calls, Owner(call[c]), NEW x \in Call, x = call[c],
           x.pc \in {"effect", "commit"}, UNCHANGED mem,
           runs' = [runs EXCEPT ![x.wf][x.stage] = @ + 1]
    PROVE  RunsInv' /\ \A v \in Workflows : v # x.wf => runs'[v] = runs[v]
<1>1. /\ Owns(x) /\ x.wf \in Workflows /\ x.stage \in Stage
      /\ x.granted => mem.approval[x.wf][x.stage] = "approved"
  BY OwnerClaimed
<1>2. PICK w \in Workflows, s \in Stage : w = x.wf /\ s = x.stage
  BY <1>1
<1>3. /\ runs[w][s] = 0 /\ mem.session[w].state \notin Before(s)
      /\ mem.approval[w][s] = "approved"
  BY <1>1, <1>2, StageOrder DEF Owns, Fresh
<1>4. /\ runs' \in [Workflows -> [Stage -> Nat]] /\ runs'[w][s] = 1
      /\ \A v \in Workflows, g \in Stage : v # w \/ g # s => runs'[v][g] = runs[v][g]
      /\ \A v \in Workflows : v # w => runs'[v] = runs[v]
  BY <1>2, <1>3 DEF Inv, RunsInv
<1>5. ASSUME NEW v \in Workflows, NEW g \in Stage
      PROVE  /\ runs'[v][g] <= 1
             /\ runs'[v][g] > 0 => /\ mem.session[v].state \notin Before(g)
                                   /\ mem.approval[v][g] = "approved"
  <2>1. CASE v = w /\ g = s
    BY <1>3, <1>4, <2>1
  <2>2. CASE v # w \/ g # s
    BY <1>4, <2>2 DEF Inv, RunsInv
  <2> QED
    BY <2>1, <2>2
<1> QED
  BY <1>2, <1>4, <1>5 DEF RunsInv

\* The command or the checks run, once.
LEMMA RunEffectInv ==
    ASSUME Inv, UNCHANGED setting, NEW c \in Calls, Execute(c) \/ Verify(c)
    PROVE  Inv'
<1>1. /\ call[c].pc = "effect" /\ Owner(call[c])
      /\ UNCHANGED <<mem, disk, faults, head, commits>>
  BY DEF Execute, Verify, At, Owner, OwnerSteps, repo
<1>2. PICK x \in Call : x = call[c] /\ x.wf \in Workflows
  BY <1>1, OwnerHas
<1>3. /\ runs' = [runs EXCEPT ![x.wf][x.stage] = @ + 1]
      /\ \/ Goto(c, "release")
         \/ x.stage = "implementation" /\ Goto(c, "collect")
         \/ x.stage = "verification" /\ Goto(c, "report")
  BY <1>2 DEF Execute, Verify, Wf, Stg
<1>4. tree' \in [Files -> Content]
  <2>1. CASE Execute(c)
    <3>1. PICK F \in SUBSET Files :
             tree' = [f \in Files |-> IF f \in F THEN x.wf ELSE tree[f]]
      BY <1>2, <2>1 DEF Execute, Wf
    <3> QED
      BY <1>2, <3>1 DEF Inv, RepoInv, Content
  <2>2. CASE Verify(c)
    BY <2>2 DEF Verify, repo, Inv, RepoInv
  <2> QED
    BY <2>1, <2>2
<1>5. RunsInv' /\ \A v \in Workflows : v # x.wf => runs'[v] = runs[v]
  BY <1>1, <1>2, <1>3, EffectRuns
<1>6. StoreInv' /\ CommitsInv' /\ RepoInv'
  BY <1>1, <1>4, StoreStays DEF Inv, CommitsInv, RepoInv
<1>7. ASSUME NEW pc \in {"release", "collect", "report"}, Goto(c, pc), InStep(pc, x)
      PROVE  Inv'
  <2>1. InStep(pc, x)' /\ Fresh(pc, x)' /\ pc \in OwnerSteps
    BY <1>7 DEF InStep, Fresh, OwnerSteps
  <2> QED
    BY <1>1, <1>2, <1>5, <1>6, <1>7, <2>1, StayInv
<1> QED
  BY <1>3, <1>7 DEF InStep

\* The changed paths are collected, or the evidence of what was reviewed.
LEMMA CollectReviewInv ==
    ASSUME Inv, UNCHANGED setting, NEW c \in Calls, Collect(c) \/ Review(c)
    PROVE  Inv'
<1>1. /\ call[c].pc \in {"collect", "review"} /\ Owner(call[c]) /\ UNCHANGED world
      /\ \/ UNCHANGED <<mem, disk, faults>>
         \/ Persist(mem)
         \/ PersistFails(mem) /\ Raise(c)
  BY DEF Collect, Review, At, Owner, OwnerSteps
<1>2. PICK x \in Call : /\ x = call[c] /\ InStage(x) /\ InStep(x.pc, x)
                        /\ x.wf \in Workflows /\ x.stage \in Stage
  BY <1>1, OwnerHas
<1>3. CASE PersistFails(mem) /\ Raise(c)
  <2>1. StoreInv' /\ Advance(mem, mem') /\ faults' \in Nat /\ mem' = mem /\ faults' # 0
    BY <1>1, <1>3, MemLoads, WriteStep DEF world
  <2> QED
    BY <1>1, <1>3, <2>1, LeaveInv
<1>4. ASSUME UNCHANGED <<mem, disk, faults>> \/ Persist(mem)
      PROVE  StoreInv' /\ faults' \in Nat /\ mem' = mem /\ faults' = faults
  <2>1. CASE UNCHANGED <<mem, disk, faults>>
    BY <1>1, <2>1, MemLoads, StoreStays DEF world
  <2>2. CASE Persist(mem)
    BY <1>1, <2>2, MemLoads, WriteStep DEF world
  <2> QED
    BY <1>4, <2>1, <2>2
<1>5. CASE Goto(c, "release") /\ (UNCHANGED <<mem, disk, faults>> \/ Persist(mem))
  <2>1. InStep("release", x) /\ Fresh("release", x) /\ "release" \in OwnerSteps
    BY DEF InStep, Fresh, OwnerSteps
  <2> QED
    BY <1>1, <1>2, <1>5, <1>4, <2>1, QuietStayInv
<1>6. ASSUME NEW F, F \subseteq Planned, NEW e \in Evidence \cup {None},
             UNCHANGED <<mem, disk, faults>> \/ Persist(mem),
             x.stage = "verification" => e # None,
             call' = [call EXCEPT ![c] = [x EXCEPT !.pc = "pause", !.files = F,
                                                   !.evidence = e]],
             x.stage # "commit"
      PROVE  Inv'
  <2> DEFINE n == [x EXCEPT !.pc = "pause", !.files = F, !.evidence = e]
  <2>1. F \subseteq Files
    BY <1>6, StagesAssumption
  <2>2. /\ n \in Call /\ n.pc = "pause" /\ n.files = F /\ n.evidence = e /\ n.wf = x.wf
        /\ n.stage = x.stage /\ n.granted = x.granted /\ n.read = x.read
    BY <2>1 DEF Call, Steps
  <2>3. call' = [call EXCEPT ![c] = n]
    BY <1>6
  <2> HIDE DEF n
  <2>4. PICK k \in Call : SetsCall(c, k) /\ k = n
    BY <2>2, <2>3 DEF Inv, SetsCall
  <2>5. /\ StoreInv' /\ faults' \in Nat /\ mem' = mem /\ faults' = faults
        /\ Advance(mem, mem')
    BY <1>6, <1>4, AdvanceSame
  <2>6. /\ RunsInv' /\ CommitsInv' /\ RepoInv' /\ UNCHANGED <<runs, commits>>
        /\ \A v \in Workflows : commits[v] # {} => commits'[v] # {}
    BY <1>1, <2>5, WorldStays
  <2>8. InStep(k.pc, k)' /\ Fresh(k.pc, k)'
    BY <1>2, <1>6, <2>2, <2>4, StageNames DEF InStep, Fresh
  <2>9. Owner(k)
    BY <2>2, <2>4 DEF Owner, OwnerSteps
  <2> QED
    BY <1>1, <1>2, <1>6, <2>2, <2>4, <2>5, <2>6, <2>8, <2>9, OwnerInv
<1>7. CASE Collect(c) /\ InScope(Changed)
  <2>1. x.stage = "implementation" /\ x.evidence \in Evidence \cup {None}
        /\ Changed \subseteq Planned
    BY <1>2, <1>7 DEF Collect, At, InStep, Call, InScope
  <2>2. call' = [call EXCEPT ![c] = [x EXCEPT !.pc = "pause", !.files = Changed,
                                              !.evidence = x.evidence]]
    BY <1>2, <1>7 DEF Collect, Call, Inv
  <2> QED
    BY <1>6, <1>7, <2>1, <2>2 DEF Collect
<1>8. CASE /\ Review(c) /\ ~ (PersistFails(mem) /\ Raise(c))
           /\ ~ (Goto(c, "release") /\ (UNCHANGED <<mem, disk, faults>> \/ Persist(mem)))
  <2>1. x.stage = "verification" /\ x.files \subseteq Planned
    BY <1>2, <1>8 DEF Review, At, InStep, InStage
  <2>2. PICK e : e = Fingerprint(x.files)
    OBVIOUS
  <2>3. e \in Evidence
    <3>1. x.files \in SUBSET Files /\ tree \in [Files -> Content] /\ head \in Nat
      BY DEF Call, Inv, RepoInv
    <3>2. [f \in x.files |-> tree[f]] \in [x.files -> Content]
      BY <3>1
    <3>3. [f \in x.files |-> tree[f]] \in UNION {[F -> Content] : F \in SUBSET Files}
      BY <3>1, <3>2
    <3> QED
      BY <2>2, <3>1, <3>3 DEF Fingerprint, Evidence
  <2>4. e # None
    BY <2>3, EvidenceAssumption
  <2>5. call' = [call EXCEPT ![c] = [x EXCEPT !.pc = "pause", !.files = x.files,
                                              !.evidence = e]]
    BY <1>2, <1>8, <2>2 DEF Review, Call, Inv
  <2>6. Persist(mem)
    BY <1>8 DEF Review
  <2> QED
    BY <1>6, <2>1, <2>3, <2>4, <2>5, <2>6
<1> QED
  BY <1>5, <1>7, <1>8, <1>3 DEF Collect, Review

\* The report is published.
LEMMA ReportInv ==
    ASSUME Inv, UNCHANGED setting, NEW c \in Calls, Report(c)
    PROVE  Inv'
<1>1. call[c].pc = "report" /\ Owner(call[c]) /\ UNCHANGED world
  BY DEF Report, At, Owner, OwnerSteps
<1>2. PICK x \in Call : x = call[c] /\ InStep(x.pc, x)
  BY <1>1, OwnerHas
<1>3. CASE PersistFails(mem) /\ Raise(c)
  <2>1. StoreInv' /\ Advance(mem, mem') /\ faults' \in Nat /\ mem' = mem /\ faults' # 0
    BY <1>1, <1>3, MemLoads, WriteStep DEF world
  <2> QED
    BY <1>1, <1>3, <2>1, LeaveInv
<1>4. CASE Persist(mem) /\ Goto(c, "review")
  <2>1. StoreInv' /\ faults' \in Nat /\ mem' = mem /\ faults' = faults
    BY <1>1, <1>4, MemLoads, WriteStep DEF world
  <2>2. InStep("review", x) /\ Fresh("review", x) /\ "review" \in OwnerSteps
    BY <1>1, <1>2 DEF InStep, Fresh, OwnerSteps
  <2> QED
    BY <1>1, <1>2, <1>4, <2>1, <2>2, QuietStayInv
<1> QED
  BY <1>3, <1>4 DEF Report

\* What a pause writes: the session waits for the next stage, whose approval is
\* asked for.
LEMMA PausedLoads ==
    ASSUME Inv, NEW c \in Calls, call[c].pc = "pause", Owner(call[c]),
           NEW x \in Call, x = call[c],
           mem.approval[x.wf][After(x.stage)] = "none"
    PROVE  \E n : /\ n = Paused(c) /\ Loads(n) /\ Advance(mem, n)
                  /\ \A v \in Workflows : v # x.wf => n.session[v] = mem.session[v]
                  /\ n.session[x.wf].state = Waiting[After(x.stage)]
<1>1. /\ InStage(x) /\ InStep(x.pc, x) /\ Owns(x) /\ x.wf \in Workflows /\ x.stage \in Stage
  BY OwnerHas
<1>2. PICK w \in Workflows, s \in Stage : w = x.wf /\ s = x.stage
  BY <1>1
<1>3. /\ s \in {"implementation", "verification"}
      /\ s = "verification" => x.evidence # None
      /\ mem.session[w].state = Claimed[s]
  BY <1>1, <1>2 DEF InStep, Owns
<1>4. PICK g \in Stage : /\ g = After(s) /\ s # "commit" /\ g # "implementation"
                         /\ g = "commit" => s = "verification"
                         /\ Waiting[g] \in SessionState /\ Waiting[g] # "absent"
                         /\ Waiting[g] # "committing" /\ Waiting[g] # "completed"
                         /\ Waiting[g] = "awaiting_commit_approval" => g = "commit"
                         /\ \A h \in Stage : Waiting[h] = Waiting[g] => h = g
  <2>1. CASE s = "implementation"
    BY <2>1, StageNames, StageSets DEF After
  <2>2. CASE s = "verification"
    BY <2>2, StageNames, StageSets DEF After
  <2> QED
    BY <1>3, <2>1, <2>2
<1>5. Loads(mem) /\ mem \in Snapshot
  BY MemLoads DEF Loads
<1>6. "pending" \in ApprovalStatus
  BY DEF ApprovalStatus
<1>7. PICK m : m = WithApproval(mem, w, g, "pending")
  OBVIOUS
<1>8. /\ m \in Snapshot /\ m.session = mem.session /\ m.approval[w][g] = "pending"
      /\ \A v \in Workflows, h \in Stage :
            v # w \/ h # g => m.approval[v][h] = mem.approval[v][h]
  BY <1>5, <1>6, <1>7, ApprovalSet
<1>9. mem.session[w] \in Session
  BY <1>5 DEF Snapshot
<1> DEFINE y == [mem.session[w] EXCEPT !.state = Waiting[g], !.files = x.files,
                                       !.evidence = x.evidence]
<1>10. /\ y \in Session /\ y.state = Waiting[g] /\ y.files = x.files
       /\ y.evidence = x.evidence
  BY <1>4, <1>9 DEF Session, Call
<1>11. PICK n : n = WithSession(m, w, y)
  OBVIOUS
<1>12. n = Paused(c)
  BY <1>2, <1>3, <1>4, <1>7, <1>11 DEF Paused, Wf, Stg
<1> HIDE DEF y
<1>13. /\ n \in Snapshot /\ n.approval = m.approval /\ n.session[w] = y
       /\ \A v \in Workflows : v # w => n.session[v] = mem.session[v]
  BY <1>8, <1>10, <1>11, SessionSet
<1>14. SessionSound(w, y)
  BY <1>1, <1>3, <1>4, <1>10 DEF SessionSound, InStage
<1>15. \A v \in Workflows : SessionSound(v, n.session[v])
  BY <1>5, <1>13, <1>14 DEF Loads
<1>16. ValidAggregate(n)
  BY <1>4, <1>5, <1>8, <1>10, <1>13 DEF Loads, ValidAggregate
<1>17. Advance(mem, n)
  <2>1. ASSUME NEW v \in Workflows, NEW h \in Stage
        PROVE  /\ mem.session[v].state \notin Before(h) => n.session[v].state \notin Before(h)
               /\ mem.approval[v][h] = "approved" => n.approval[v][h] = "approved"
    <3>1. mem.approval[w][g] # "approved"
      BY <1>2, <1>4
    <3>2. mem.approval[v][h] = "approved" => n.approval[v][h] = "approved"
      BY <1>8, <1>13, <3>1
    <3>3. Claimed[s] \notin Before(h) => Waiting[g] \notin Before(h)
      BY <1>4, StageOrder
    <3> QED
      BY <1>3, <1>10, <1>13, <3>2, <3>3
  <2> QED
    BY <2>1 DEF Advance
<1> QED
  BY <1>2, <1>4, <1>10, <1>12, <1>13, <1>15, <1>16, <1>17 DEF Loads

\* A stage ends with the request for the next approval.
LEMMA PauseInv ==
    ASSUME Inv, UNCHANGED setting, NEW c \in Calls, Pause(c)
    PROVE  Inv'
<1>1. call[c].pc = "pause" /\ Owner(call[c]) /\ UNCHANGED world
  BY DEF Pause, At, Owner, OwnerSteps
<1>2. PICK x \in Call : x = call[c] /\ x.wf \in Workflows /\ x.stage \in Stage
  BY <1>1, OwnerHas
<1>3. InStep("release", x) /\ Fresh("release", x) /\ "release" \in OwnerSteps
  BY DEF InStep, Fresh, OwnerSteps
<1>4. CASE Goto(c, "release") /\ UNCHANGED <<mem, disk, faults>>
  BY <1>1, <1>2, <1>3, <1>4, SilentInv
<1>5. CASE mem.approval[x.wf][After(x.stage)] = "none"
  <2>1. PICK n : /\ n = Paused(c) /\ Loads(n) /\ Advance(mem, n)
                 /\ \A v \in Workflows : v # x.wf => n.session[v] = mem.session[v]
                 /\ n.session[x.wf].state = Waiting[After(x.stage)]
    BY <1>1, <1>2, <1>5, PausedLoads
  <2>2. \/ Persist(n) /\ Goto(c, "answer")
        \/ PersistFails(n) /\ Goto(c, "release")
    BY <1>2, <1>5, <2>1 DEF Pause, Wf, Stg
  <2>3. /\ StoreInv' /\ Advance(mem, mem') /\ faults' \in Nat
        /\ Persist(n) => mem' = n /\ faults' = faults
        /\ PersistFails(n) => mem' = mem /\ faults' # 0
    BY <1>1, <2>1, <2>2, MemLoads, WriteStep DEF world
  <2>4. CASE PersistFails(n) /\ Goto(c, "release")
    BY <1>1, <1>2, <1>3, <2>3, <2>4, QuietStayInv
  <2>5. CASE Persist(n) /\ Goto(c, "answer")
    <3>1. After(x.stage) \in Stage
      BY StageNames DEF After
    <3>2. mem'.session[x.wf].state \notin ClaimedStates
      BY <2>1, <2>3, <2>5, <3>1, StageOrder
    <3>3. \A v \in Workflows : v # x.wf => mem'.session[v].state = mem.session[v].state
      BY <2>1, <2>3, <2>5
    <3>4. faults' = 0 => faults = 0
      BY <2>3, <2>5
    <3> QED
      BY <1>1, <1>2, <2>3, <2>5, <3>2, <3>3, <3>4, LeaveInv
  <2> QED
    BY <2>2, <2>4, <2>5
<1> QED
  BY <1>2, <1>4, <1>5 DEF Pause, Wf, Stg

\* The commit holds reviewed paths only, and there is one once it is made.
LEMMA CommitStepInv ==
    ASSUME Inv, UNCHANGED setting, NEW c \in Calls, Commit(c)
    PROVE  Inv'
<1>1. /\ call[c].pc = "commit" /\ Owner(call[c]) /\ UNCHANGED <<mem, disk, faults>>
  BY DEF Commit, At, Owner, OwnerSteps
<1>2. PICK x \in Call : /\ x = call[c] /\ InStage(x) /\ InStep(x.pc, x)
                        /\ x.wf \in Workflows
  BY <1>1, OwnerHas
<1>3. PICK w \in Workflows : w = x.wf /\ x.stage = "commit" /\ x.files \subseteq Planned
                             /\ x.evidence # None
  BY <1>1, <1>2 DEF InStep, InStage
<1> DEFINE F == Staged(x.files)
           made == [parent |-> head, content |-> [f \in F |-> tree[f]]]
<1>4. runs' = [runs EXCEPT ![x.wf][x.stage] = @ + 1]
  BY <1>2, <1>3 DEF Commit, Wf
<1>5. RunsInv' /\ \A v \in Workflows : v # x.wf => runs'[v] = runs[v]
  BY <1>1, <1>2, <1>4, EffectRuns
<1>6. \A pc \in OwnerSteps \ {"publish", "inspect", "effect", "evidence",
                              "commit_check", "commit"} : Fresh(pc, x)'
  BY DEF Fresh
<1>7. CASE Goto(c, "release") /\ UNCHANGED <<tree, head, commits>>
  <2>1. StoreInv' /\ CommitsInv' /\ RepoInv'
    BY <1>1, <1>7, StoreStays DEF Inv, CommitsInv, RepoInv
  <2>2. InStep("release", x)' /\ Fresh("release", x)' /\ "release" \in OwnerSteps
    BY <1>6 DEF InStep, OwnerSteps
  <2> QED
    BY <1>1, <1>2, <1>5, <1>7, <2>1, <2>2, StayInv
<1>8. CASE /\ commits' = [commits EXCEPT ![w] = @ \cup {made}]
           /\ head' = head + 1
           /\ tree' = [f \in Files |-> IF f \in F THEN "head" ELSE tree[f]]
           /\ \/ Goto(c, "release")
              \/ call' = [call EXCEPT ![c].seen = head + 1,
                            ![c].pc = IF IsManual(c) THEN "complete" ELSE "check_result"]
  <2>1. F \subseteq Planned /\ F \subseteq Files
    BY <1>3, StagesAssumption DEF Staged
  <2>2. made \in [parent : Nat, content : UNION {[G -> Content] : G \in SUBSET Planned}]
    <3>1. tree \in [Files -> Content] /\ head \in Nat
      BY DEF Inv, RepoInv
    <3>2. [f \in F |-> tree[f]] \in [F -> Content]
      BY <2>1, <3>1
    <3>3. [f \in F |-> tree[f]] \in UNION {[G -> Content] : G \in SUBSET Planned}
      BY <2>1, <3>2
    <3> QED
      BY <3>1, <3>3
  <2>3. CommitsInv'
    BY <1>8, <2>2 DEF Inv, CommitsInv
  <2>4. /\ commits'[w] # {}
        /\ \A v \in Workflows : commits[v] # {} => commits'[v] # {}
    BY <1>8 DEF Inv, CommitsInv
  <2>5. RepoInv'
    BY <1>1, <1>8 DEF Inv, RepoInv, Content
  <2>6. StoreInv'
    BY <1>1, <2>4, StoreStays DEF Inv
  <2>7. CASE Goto(c, "release")
    <3>1. InStep("release", x)' /\ Fresh("release", x)' /\ "release" \in OwnerSteps
      BY <1>6 DEF InStep, OwnerSteps
    <3> QED
      BY <1>1, <1>2, <1>5, <2>3, <2>4, <2>5, <2>6, <2>7, <3>1, StayInv
  <2>8. CASE ~ Goto(c, "release")
    <3>1. PICK pc \in {"complete", "check_result"} :
             call' = [call EXCEPT ![c].seen = head + 1, ![c].pc = pc]
      BY <1>8, <2>8
    <3> DEFINE n == [x EXCEPT !.seen = head + 1, !.pc = pc]
    <3>6. head + 1 \in Nat
      BY DEF Inv, RepoInv
    <3>2. /\ n \in Call /\ n.pc = pc /\ n.files = x.files /\ n.evidence = x.evidence
          /\ n.wf = x.wf /\ n.stage = x.stage /\ n.granted = x.granted /\ n.read = x.read
      BY <3>6 DEF Call, Steps
    <3>3. call' = [call EXCEPT ![c] = n]
      BY <1>2, <3>1 DEF Inv
    <3> HIDE DEF n
    <3>4. PICK k \in Call : SetsCall(c, k) /\ k = n
      BY <3>2, <3>3 DEF Inv, SetsCall
    <3>5. InStep(k.pc, k)' /\ Fresh(k.pc, k)' /\ Owner(k)
      BY <1>3, <2>4, <3>2, <3>4 DEF InStep, Fresh, Owner, OwnerSteps
    <3> QED
      BY <1>1, <1>2, <1>3, <1>5, <2>3, <2>4, <2>5, <2>6, <3>2, <3>4, <3>5, OwnerInv
  <2> QED
    BY <2>7, <2>8
<1> HIDE DEF F, made
<1>9. \/ Goto(c, "release") /\ UNCHANGED <<tree, head, commits>>
      \/ /\ commits' = [commits EXCEPT ![w] = @ \cup {made}]
         /\ head' = head + 1
         /\ tree' = [f \in Files |-> IF f \in F THEN "head" ELSE tree[f]]
         /\ \/ Goto(c, "release")
            \/ call' = [call EXCEPT ![c].seen = head + 1,
                          ![c].pc = IF IsManual(c) THEN "complete" ELSE "check_result"]
  BY <1>2, <1>3 DEF Commit, Wf, F, made
<1> QED
  BY <1>7, <1>8, <1>9

\* The commit's result is compared with HEAD, or the session is completed: it was
\* committed.
LEMMA CommittedInv ==
    ASSUME Inv, UNCHANGED setting, NEW c \in Calls, CheckResult(c) \/ Complete(c)
    PROVE  Inv'
<1>1. call[c].pc \in {"check_result", "complete"} /\ Owner(call[c]) /\ UNCHANGED world
  BY DEF CheckResult, Complete, At, Owner, OwnerSteps
<1>2. PICK x \in Call : x = call[c] /\ InStep(x.pc, x) /\ Owns(x) /\ x.wf \in Workflows
  BY <1>1, OwnerHas
<1>3. PICK w \in Workflows : /\ w = x.wf /\ x.stage = "commit" /\ commits[w] # {}
                             /\ mem.session[w].state = "committing"
  BY <1>1, <1>2, StageNames DEF InStep, Owns
<1>4. CASE Goto(c, "complete") /\ x.pc = "check_result" /\ UNCHANGED <<mem, disk, faults>>
  <2>1. InStep("complete", x) /\ Fresh("complete", x) /\ "complete" \in OwnerSteps
    BY <1>3 DEF InStep, Fresh, OwnerSteps
  <2> QED
    BY <1>1, <1>2, <1>4, <2>1, SilentInv
<1>5. ASSUME NEW to \in {"blocked", "completed"},
             \/ Persist(Transition(w, "committing", to)) /\ (Raise(c) \/ Goto(c, "answer"))
             \/ PersistFails(Transition(w, "committing", to)) /\ Raise(c)
      PROVE  Inv'
  <2>1. /\ to \in SessionState /\ to # "absent" /\ to \notin ClaimedStates
        /\ to # "committing" /\ \A g \in Stage : to # Waiting[g]
    BY StageNames, StageSets
  <2>7. \A g \in Stage : to \notin Before(g)
    BY StageOrder
  <2>2. PICK n : /\ n = Transition(w, "committing", to) /\ Loads(n) /\ Advance(mem, n)
                 /\ \A v \in Workflows : v # w => n.session[v] = mem.session[v]
                 /\ \/ n = mem /\ mem.session[w].state # "committing"
                    \/ n.session[w].state = to
    BY <1>3, <2>1, <2>7, MemLoads, TransitionLoads
  <2>3. n.session[w].state \notin ClaimedStates
    BY <1>3, <2>1, <2>2
  <2>4. \/ Persist(n) /\ (Raise(c) \/ Goto(c, "answer"))
        \/ PersistFails(n) /\ Raise(c)
    BY <1>5, <2>2
  <2>5. /\ StoreInv' /\ Advance(mem, mem') /\ faults' \in Nat
        /\ Persist(n) => mem' = n /\ faults' = faults
        /\ PersistFails(n) => mem' = mem /\ faults' # 0
    BY <1>1, <2>2, <2>4, MemLoads, WriteStep DEF world
  <2>6. /\ \A v \in Workflows : v # w => mem'.session[v].state = mem.session[v].state
        /\ faults' = 0 => faults = 0 /\ mem'.session[w].state \notin ClaimedStates
    BY <2>2, <2>3, <2>4, <2>5
  <2> QED
    BY <1>1, <1>2, <1>3, <2>4, <2>5, <2>6, LeaveInv
<1>6. CASE Complete(c)
  BY <1>2, <1>3, <1>5, <1>6 DEF Complete, Wf
<1>7. CASE CheckResult(c)
  BY <1>2, <1>3, <1>4, <1>5, <1>7 DEF CheckResult, Wf, At
<1> QED
  BY <1>6, <1>7

----------------------------------------------------------------------------
(* Steps of nobody's call.                                                 *)

\* The invariant stays while calls rest, if no claim is taken or given up.
LEMMA EnvInv ==
    ASSUME Inv, UNCHANGED <<setting, call, runs, commits>>,
           StoreInv', Advance(mem, mem'), RepoInv',
           faults' = 0 => faults = 0,
           \A v \in Workflows : \/ mem'.session[v].state = mem.session[v].state
                                \/ /\ mem.session[v].state \notin ClaimedStates
                                   /\ mem'.session[v].state \notin ClaimedStates
    PROVE  Inv'
<1>1. RunsInv' /\ CommitsInv'
  BY RunsStays DEF Inv, CommitsInv
<1>2. ASSUME NEW d \in Calls PROVE CallInv(call[d])'
  <2>1. PICK x \in Call : x = call[d] /\ CallInv(x)
    BY DEF Inv
  <2>2. Owner(x) => mem'.session[x.wf].state = mem.session[x.wf].state
    BY <2>1, OwnerClaimed
  <2>3. CallInv(x)'
    BY <2>1, <2>2, CallStays
  <2> QED
    BY <2>1, <2>3 DEF CallInv, InStage, InStep, Owns, Fresh
<1>3. OwnersInv'
  <2>1. \A c, d \in Calls : call[c].pc \in OwnerSteps /\ call[d].pc \in OwnerSteps
                           /\ call[c].wf = call[d].wf => c = d
    BY DEF Inv, OwnersInv
  <2>2. ASSUME faults' = 0, NEW w \in Workflows, mem'.session[w].state \in ClaimedStates
        PROVE  \E c \in Calls : call[c].pc \in OwnerSteps /\ call[c].wf = w
    <3>1. faults = 0 /\ mem.session[w].state \in ClaimedStates
      BY <2>2
    <3> QED
      BY <3>1 DEF Inv, OwnersInv
  <2> QED
    BY <2>1, <2>2 DEF OwnersInv
<1> QED
  BY <1>1, <1>2, <1>3 DEF Inv

\* A decision or a request for an approval.
LEMMA ApprovalInv ==
    ASSUME Inv, UNCHANGED setting, NEW w \in Workflows, NEW s \in Stage,
           \/ RequestApproval(w, s)
           \/ \E d \in {"approved", "rejected"} : Decide(w, s, d)
    PROVE  Inv'
<1>1. PICK a \in ApprovalStatus :
         /\ a # "none" /\ mem.session[w].state # "absent" /\ mem.approval[w][s] # "approved"
         /\ LET n == WithApproval(mem, w, s, a) IN Persist(n) \/ PersistFails(n)
         /\ UNCHANGED <<call, world>>
  <2>1. CASE RequestApproval(w, s)
    <3>1. "pending" \in ApprovalStatus
      BY DEF ApprovalStatus
    <3> QED
      BY <2>1, <3>1 DEF RequestApproval
  <2>2. CASE \E d \in {"approved", "rejected"} : Decide(w, s, d)
    <3>1. PICK d \in {"approved", "rejected"} : Decide(w, s, d)
      BY <2>2
    <3>2. d \in ApprovalStatus /\ d # "none" /\ mem.approval[w][s] = "pending"
      BY <3>1 DEF ApprovalStatus, Decide, MayDecide
    <3>3. mem.session[w].state # "absent"
      BY <3>2, MemLoads DEF Loads, ValidAggregate
    <3> QED
      BY <3>1, <3>2, <3>3 DEF Decide
  <2> QED
    BY <2>1, <2>2
<1>2. PICK n : n = WithApproval(mem, w, s, a)
  OBVIOUS
<1>3. Loads(n) /\ Advance(mem, n) /\ n.session = mem.session
  BY <1>1, <1>2, MemLoads, ApprovalLoads
<1>4. /\ StoreInv' /\ Advance(mem, mem') /\ faults' \in Nat /\ mem'.session = mem.session
      /\ faults' = 0 => faults = 0
  BY <1>1, <1>2, <1>3, MemLoads, WriteStep DEF world
<1>5. RepoInv' /\ UNCHANGED <<call, runs, commits>>
  BY <1>1, <1>4 DEF world, Inv, RepoInv
<1> QED
  BY <1>4, <1>5, EnvInv

\* A manual workflow is planned.
LEMMA RunInv ==
    ASSUME Inv, UNCHANGED setting, NEW w \in Workflows, Run(w)
    PROVE  Inv'
<1>1. Loads(mem) /\ mem \in Snapshot /\ mem.session[w].state = "absent"
      /\ UNCHANGED <<call, world>>
  BY MemLoads DEF Run, Loads
<1> DEFINE y == [mem.session[w] EXCEPT !.state = "awaiting_approval", !.base = head]
<1>2. /\ y \in Session /\ y.state = "awaiting_approval" /\ y.files = mem.session[w].files
  <2>1. mem.session[w] \in Session /\ head \in Nat
    BY <1>1 DEF Snapshot, Inv, RepoInv
  <2>2. "awaiting_approval" \in SessionState
    BY StageSets
  <2> QED
    BY <2>1, <2>2 DEF Session
<1>3. PICK m : m = WithSession(mem, w, y)
  OBVIOUS
<1>4. PICK n : n = WithApproval(m, w, "implementation", "pending")
  OBVIOUS
<1>5. Persist(n) \/ PersistFails(n)
  BY <1>3, <1>4 DEF Run
<1> HIDE DEF y
<1>6. /\ m \in Snapshot /\ m.approval = mem.approval /\ m.session[w] = y
      /\ \A v \in Workflows : v # w => m.session[v] = mem.session[v]
  BY <1>1, <1>2, <1>3, SessionSet
<1>7. "implementation" \in Stage /\ "pending" \in ApprovalStatus
  BY DEF Stage, ApprovalStatus
<1>8. /\ n \in Snapshot /\ n.session = m.session
      /\ n.approval[w]["implementation"] = "pending"
      /\ \A v \in Workflows, g \in Stage :
            v # w \/ g # "implementation" => n.approval[v][g] = m.approval[v][g]
  BY <1>4, <1>6, <1>7, ApprovalSet
<1>9. \A v \in Workflows : SessionSound(v, n.session[v])
  BY <1>1, <1>2, <1>6, <1>8 DEF Loads, SessionSound
<1>10. ValidAggregate(n)
  <2>1. \A g \in Stage : Waiting[g] = "awaiting_approval" => g = "implementation"
    BY StageNames
  <2> QED
    BY <1>1, <1>2, <1>6, <1>8, <2>1 DEF Loads, ValidAggregate
<1>11. Advance(mem, n)
  <2>1. \A g \in Stage : mem.session[w].state \in Before(g)
                         /\ mem.approval[w][g] # "approved"
    BY <1>1, StageNames, StageSets DEF Loads, ValidAggregate
  <2> QED
    BY <1>6, <1>8, <2>1 DEF Advance
<1>12. /\ StoreInv' /\ Advance(mem, mem') /\ faults' \in Nat /\ mem' \in {mem, n}
       /\ faults' = 0 => faults = 0
  BY <1>1, <1>5, <1>8, <1>9, <1>10, <1>11, MemLoads, WriteStep DEF world, Loads
<1>13. \A v \in Workflows : \/ mem'.session[v].state = mem.session[v].state
                            \/ /\ mem.session[v].state \notin ClaimedStates
                               /\ mem'.session[v].state \notin ClaimedStates
  BY <1>1, <1>2, <1>6, <1>8, <1>12, StageSets
<1>14. RepoInv' /\ UNCHANGED <<runs, commits>>
  BY <1>1, <1>12 DEF world, Inv, RepoInv
<1> QED
  BY <1>1, <1>12, <1>13, <1>14, EnvInv

\* Others change the repository.
LEMMA OutsideInv ==
    ASSUME Inv, UNCHANGED setting, OutsideChange
    PROVE  Inv'
<1>1. UNCHANGED <<mem, disk, call, runs, commits, faults>>
  BY DEF OutsideChange
<1>2. StoreInv' /\ Advance(mem, mem')
  BY <1>1, StoreStays DEF Inv
<1>3. RepoInv'
  BY <1>1 DEF OutsideChange, Inv, RepoInv, Content
<1> QED
  BY <1>1, <1>2, <1>3, EnvInv

\* What a restart finds loads, and what it makes of it too.
LEMMA RecoveredLoads ==
    ASSUME NEW n, Loads(n), NEW m, m = Recovered(n)
    PROVE  /\ Loads(m) /\ Advance(n, m)
           /\ \A w \in Workflows : m.session[w].state \notin ClaimedStates
<1>1. /\ n \in Snapshot /\ n.session \in [Workflows -> Session]
      /\ n.approval \in [Workflows -> [Stage -> ApprovalStatus]]
  BY DEF Loads, Snapshot
<1>2. "blocked" \in SessionState /\ "blocked" \notin ClaimedStates
      /\ "blocked" \notin {"absent", "completed", "awaiting_commit_approval", "committing"}
  BY StageSets
<1>3. PICK f : f = [w \in Workflows |->
        LET s == n.session[w] IN
        IF s.state \in ClaimedStates THEN [s EXCEPT !.state = "blocked"] ELSE s]
  OBVIOUS
<1>4. m = [n EXCEPT !.session = f]
  BY <1>3 DEF Recovered
<1>5. /\ m.session = f /\ m.approval = n.approval
      /\ m = [session |-> m.session, approval |-> m.approval]
  BY <1>1, <1>4 DEF Snapshot
<1>6. ASSUME NEW w \in Workflows
      PROVE  /\ f[w] \in Session /\ f[w].files = n.session[w].files
             /\ f[w].evidence = n.session[w].evidence
             /\ f[w].state \notin ClaimedStates
             /\ f[w].state = n.session[w].state \/ f[w].state = "blocked"
  <2>1. PICK s \in Session : s = n.session[w]
    BY <1>1
  <2>2. f[w] = IF s.state \in ClaimedStates THEN [s EXCEPT !.state = "blocked"] ELSE s
    BY <1>3, <2>1
  <2>3. CASE s.state \in ClaimedStates
    <3>1. f[w] = [s EXCEPT !.state = "blocked"]
      BY <2>2, <2>3
    <3> QED
      BY <1>2, <2>1, <3>1 DEF Session
  <2>4. CASE s.state \notin ClaimedStates
    BY <2>1, <2>2, <2>4
  <2> QED
    BY <2>3, <2>4
<1>7. f \in [Workflows -> Session]
  BY <1>3, <1>6
<1>8. m \in Snapshot
  BY <1>1, <1>5, <1>7 DEF Snapshot
<1>9. \A w \in Workflows : SessionSound(w, m.session[w])
  BY <1>2, <1>5, <1>6 DEF Loads, SessionSound
<1>10. ValidAggregate(m)
  <2>1. \A s \in Stage : Waiting[s] # "blocked"
    BY StageNames
  <2> QED
    BY <1>2, <1>5, <1>6, <2>1 DEF Loads, ValidAggregate
<1>11. Advance(n, m)
  <2>1. \A s \in Stage : "blocked" \notin Before(s)
    BY StageOrder
  <2> QED
    BY <1>5, <1>6, <2>1 DEF Advance
<1> QED
  BY <1>5, <1>6, <1>8, <1>9, <1>10, <1>11 DEF Loads

\* The Agent stops and starts.
LEMMA RestartInv ==
    ASSUME Inv, UNCHANGED setting, Restart
    PROVE  Inv'
<1>1. PICK m : m = Recovered(disk)
  OBVIOUS
<1>2. /\ mem' = m /\ disk' = m /\ call' = [c \in Calls |-> Idle]
      /\ UNCHANGED <<tree, head, runs, commits, faults>>
  BY <1>1 DEF Restart
<1>3. Loads(disk) /\ Advance(mem, disk)
  BY DEF Inv, StoreInv
<1>4. /\ Loads(m) /\ Advance(disk, m)
      /\ \A w \in Workflows : m.session[w].state \notin ClaimedStates
  BY <1>1, <1>3, RecoveredLoads
<1>5. Advance(mem, m)
  BY <1>3, <1>4 DEF Advance
<1>6. StoreInv'
  <2>1. Advance(m, m)
    BY AdvanceSame
  <2> QED
    BY <1>2, <1>4, <2>1 DEF StoreInv, Loads, SessionSound, Advance
<1>7. RunsInv' /\ CommitsInv' /\ RepoInv'
  BY <1>2, <1>5, RunsStays DEF Inv, CommitsInv, RepoInv
<1>8. Idle \in Call /\ Idle.pc = "idle"
  BY DEF Idle, Call, Steps, Outcome
<1>9. call' \in [Calls -> Call] /\ \A c \in Calls : call'[c] = Idle
  BY <1>2, <1>8
<1>10. ASSUME NEW c \in Calls PROVE CallInv(call[c])'
  BY <1>8, <1>9 DEF CallInv, OwnerSteps
<1>11. OwnersInv'
  BY <1>2, <1>4, <1>8, <1>9 DEF OwnersInv, OwnerSteps
<1> QED
  BY <1>6, <1>7, <1>9, <1>10, <1>11 DEF Inv

----------------------------------------------------------------------------
(* The specification.                                                      *)

\* Nothing is claimed at first, and a candidate waits for its verification.
LEMMA InitInv == ASSUME Init PROVE Inv
<1>1. PICK n : n = InitialSnapshot
  OBVIOUS
<1>2. /\ setting \in Settings /\ mem = n /\ disk = n /\ call = [c \in Calls |-> Idle]
      /\ tree \in [Files -> {"head"} \cup Patched] /\ head = 0 /\ faults = 0
      /\ runs = [w \in Workflows |-> [s \in Stage |-> 0]]
      /\ commits = [w \in Workflows |-> {}]
  BY <1>1 DEF Init
<1>3. ASSUME NEW w \in Workflows
      PROVE  /\ n.session[w] = [state |-> IF w \in Patched THEN "awaiting_verification_approval"
                                          ELSE "absent",
                                base |-> 0, files |-> IF w \in Patched THEN Planned ELSE {},
                                evidence |-> None]
             /\ n.approval[w] = [s \in Stage |->
                   IF w \notin Patched THEN "none"
                   ELSE CASE s = "implementation" -> "approved"
                          [] s = "verification" -> "pending"
                          [] s = "commit" -> "none"]
  BY <1>1 DEF InitialSnapshot
<1>4. ASSUME NEW w \in Workflows
      PROVE  /\ n.session[w] \in Session /\ n.session[w].files \subseteq Planned
             /\ n.session[w].state = IF w \in Patched THEN "awaiting_verification_approval"
                                     ELSE "absent"
  <2>1. {"absent", "awaiting_verification_approval"} \subseteq SessionState
    BY StageSets
  <2>2. PICK st, fs : /\ st = IF w \in Patched THEN "awaiting_verification_approval" ELSE "absent"
                     /\ fs = IF w \in Patched THEN Planned ELSE {}
    OBVIOUS
  <2>3. n.session[w] = [state |-> st, base |-> 0, files |-> fs, evidence |-> None]
    BY <1>3, <2>2
  <2>4. st \in SessionState
    BY <2>1, <2>2
  <2>5. fs \subseteq Planned /\ fs \subseteq Files
    BY <2>2, StagesAssumption
  <2>6. n.session[w] \in Session
    BY <2>3, <2>4, <2>5 DEF Session
  <2> QED
    BY <2>2, <2>3, <2>5, <2>6
<1>5. ASSUME NEW w \in Workflows
      PROVE  /\ n.approval[w] \in [Stage -> ApprovalStatus]
             /\ w \in Patched => n.approval[w]["verification"] = "pending"
             /\ w \notin Patched => \A s \in Stage : n.approval[w][s] = "none"
  BY <1>3 DEF Stage, ApprovalStatus
<1>6. n = [session |-> n.session, approval |-> n.approval]
      /\ n.session = [w \in Workflows |-> n.session[w]]
      /\ n.approval = [w \in Workflows |-> n.approval[w]]
  BY <1>1 DEF InitialSnapshot
<1>7. n \in Snapshot
  <2>1. n.session \in [Workflows -> Session]
    BY <1>4, <1>6
  <2>2. n.approval \in [Workflows -> [Stage -> ApprovalStatus]]
    BY <1>5, <1>6
  <2> QED
    BY <1>6, <2>1, <2>2 DEF Snapshot
<1>8. ValidAggregate(n)
  <2>1. \A s \in Stage : /\ Waiting[s] = "awaiting_verification_approval" => s = "verification"
                         /\ Waiting[s] # "absent"
    BY StageNames
  <2> QED
    BY <1>4, <1>5, <2>1 DEF ValidAggregate
<1>9. Loads(n)
  BY <1>4, <1>7, <1>8 DEF Loads, SessionSound
<1>10. StoreInv
  BY <1>2, <1>9, AdvanceSame DEF StoreInv
<1>11. RunsInv /\ CommitsInv
  BY <1>2 DEF RunsInv, CommitsInv
<1>12. RepoInv
  BY <1>2 DEF RepoInv, Content, Patched, Workflows
<1>13. Idle \in Call /\ Idle.pc = "idle"
  BY DEF Idle, Call, Steps, Outcome
<1>14. call \in [Calls -> Call] /\ \A c \in Calls : call[c].pc = "idle"
  BY <1>2, <1>13
<1>15. \A c \in Calls : CallInv(call[c])
  BY <1>14 DEF CallInv, OwnerSteps
<1>16. OwnersInv
  BY <1>2, <1>4, <1>14, StageSets DEF OwnersInv, OwnerSteps
<1> QED
  BY <1>2, <1>10, <1>11, <1>12, <1>14, <1>15, <1>16 DEF Inv

\* No step breaks the invariant.
LEMMA NextInv == ASSUME Inv, [Next]_vars PROVE Inv'
<1>1. CASE UNCHANGED vars
  <2>1. UNCHANGED <<mem, disk, call, tree, head, runs, commits, faults, setting>>
    BY <1>1 DEF vars
  <2>2. StoreInv' /\ Advance(mem, mem') /\ RepoInv'
    BY <2>1, StoreStays DEF Inv, RepoInv
  <2> QED
    BY <2>1, <2>2, EnvInv
<1>2. ASSUME NEW c \in Calls, CallStep(c), UNCHANGED setting PROVE Inv'
  BY <1>2, CheckApprovalInv, ValidateInv, RefuseInv, ClaimInv, PublishInv, ReleaseInv,
     AnswerInv, LookInv, RunEffectInv, CollectReviewInv, ReportInv, PauseInv, CommitStepInv,
     CommittedInv DEF CallStep
<1>3. CASE Next
  BY <1>2, <1>3, ResumeInv, RunInv, ApprovalInv, RestartInv, OutsideInv DEF Next
<1> QED
  BY <1>1, <1>3

\* Every reachable state satisfies the invariant.
LEMMA SpecInv == Spec => []Inv
<1>1. Init => Inv
  BY InitInv
<1>2. Inv /\ [Next]_vars => Inv'
  BY NextInv
<1> QED
  BY <1>1, <1>2, PTL DEF Spec

\* A started side effect is claimed and approved in the file too.
LEMMA EffectRecorded ==
    ASSUME Inv, NEW w \in Workflows, NEW s \in Stage, runs[w][s] > 0
    PROVE  /\ mem.approval[w][s] = "approved" /\ disk.approval[w][s] = "approved"
           /\ disk.session[w].state \notin Before(s)
  BY DEF Inv, RunsInv, StoreInv, Advance

\* However resumes race, writes of the state file fail and restarts happen, the
\* command, the checks and the commit of a workflow are started at most once,
\* and only on an approval that a restart would find too.
THEOREM EffectSafety == Spec => []EffectSound
<1>1. Inv => EffectSound
  BY EffectRecorded DEF EffectSound, EffectAtMostOnce, EffectApproved, Inv, RunsInv
<1> QED
  BY <1>1, SpecInv, PTL

\* A workflow recorded as completed was committed, and a commit holds planned
\* paths only, whatever others leave in the repository.
THEOREM CommitSafety == Spec => []CommitIsTrue
<1>1. ASSUME Inv PROVE CompletedWasCommitted
  BY <1>1 DEF Inv, StoreInv, Loads, SessionSound, CompletedWasCommitted
<1>2. ASSUME Inv, NEW w \in Workflows, NEW k \in commits[w]
      PROVE  DOMAIN k.content \subseteq Planned
  <2>1. k \in [parent : Nat, content : UNION {[F -> Content] : F \in SUBSET Planned}]
    BY <1>2 DEF Inv, CommitsInv
  <2>2. PICK F \in SUBSET Planned : k.content \in [F -> Content]
    BY <2>1
  <2> QED
    BY <2>2
<1>3. Inv => CommitIsTrue
  BY <1>1, <1>2 DEF CommitIsTrue, CommitWithinPlan
<1> QED
  BY <1>3, SpecInv, PTL

\* A restart at any moment finds a file that loads, replays no stage, and a claim
\* is never the work of two calls; while the file can be written and the
\* repository opened, it is the work of exactly one.
THEOREM RecoverySafety == Spec => []RecoverySound
<1>1. ASSUME Inv PROVE TypeOK
  <2>1. mem \in Snapshot /\ disk \in Snapshot
    BY <1>1 DEF Inv, StoreInv, Loads
  <2>2. ASSUME NEW c \in Calls
        PROVE  /\ call[c].pc \notin {"idle", "answer"} =>
                      Wf(c) \in Workflows /\ Stg(c) \in Stage
               /\ call[c].pc \in {"evidence", "commit_check", "commit", "check_result"}
                      => call[c].evidence # None
    BY <1>1 DEF Inv, CallInv, InStage, InStep, Wf, Stg
  <2> QED
    BY <1>1, <2>1, <2>2 DEF TypeOK, Inv, RepoInv, RunsInv
<1>2. ASSUME Inv PROVE NotReplayable
  <2>1. {Waiting[s] : s \in Stage} =
          {"awaiting_approval", "awaiting_verification_approval", "awaiting_commit_approval"}
    BY StageNames
  <2>2. \A w \in Workflows, s \in Stage : runs[w][s] > 0 => disk.session[w].state \notin Before(s)
    BY <1>2, EffectRecorded
  <2> QED
    BY <2>1, <2>2, StageNames, StageSets DEF NotReplayable
<1>3. ASSUME Inv PROVE SnapshotLoads
  BY <1>3 DEF Inv, StoreInv, Loads, SnapshotLoads
<1>4. ASSUME Inv PROVE ClaimHasOneOwner
  <2>1. ASSUME NEW w \in Workflows, NEW s \in Stage, mem.session[w].state = Claimed[s]
        PROVE  LET owners == {c \in Calls : Wf(c) = w /\ Stg(c) = s
                                            /\ call[c].pc \in OwnerSteps}
               IN  /\ \A c, d \in owners : c = d
                   /\ faults = 0 => owners # {}
    <3>1. ASSUME NEW c \in Calls, NEW d \in Calls, call[c].pc \in OwnerSteps,
                 call[d].pc \in OwnerSteps, call[c].wf = w, call[d].wf = w
          PROVE  c = d
      BY <1>4, <3>1 DEF Inv, OwnersInv
    <3>2. ASSUME faults = 0
          PROVE  \E c \in Calls : call[c].wf = w /\ call[c].stage = s
                                  /\ call[c].pc \in OwnerSteps
      <4>1. mem.session[w].state \in ClaimedStates
        BY <2>1, StageOrder
      <4>2. PICK c \in Calls : call[c].pc \in OwnerSteps /\ call[c].wf = w
        BY <1>4, <3>2, <4>1 DEF Inv, OwnersInv
      <4>3. Claimed[call[c].stage] = Claimed[s] /\ call[c].stage \in Stage
        BY <1>4, <2>1, <4>2, OwnerClaimed DEF Owner
      <4> QED
        BY <4>2, <4>3, StageOrder
    <3> QED
      BY <3>1, <3>2 DEF Wf, Stg
  <2> QED
    BY <2>1 DEF ClaimHasOneOwner
<1>5. Inv => RecoverySound
  BY <1>1, <1>2, <1>3, <1>4 DEF RecoverySound
<1> QED
  BY <1>5, SpecInv, PTL

============================================================================
