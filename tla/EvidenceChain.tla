---------------------------- MODULE EvidenceChain ----------------------------
(***************************************************************************)
(* The append-only evidence stores of the installation chain, v0.35 to     *)
(* v0.41.  Each package is a service and a SQLite store: create resolves   *)
(* the idempotency key, takes the server's second, reads the record of the *)
(* stage before it, validates and builds its own, and appends it in one    *)
(* write transaction.  Requests run on the server's thread pool, so calls  *)
(* interleave between those three store accesses.                          *)
(*                                                                         *)
(* A fingerprint is a digest of the record it stands for, and stored       *)
(* records never change: a record is identified by its id, and a           *)
(* fingerprint comparison is a comparison of the fields it digests.  All   *)
(* queries are scoped to one operator and candidate: there is one of each. *)
(***************************************************************************)
EXTENDS Naturals, FiniteSets, FiniteSetsExt

CONSTANTS
    Calls,     \* requests that may be under way together
    Keys,      \* idempotency keys
    Refs,      \* runner, worker and intake references
    RefFrom,   \* the second each reference becomes valid
    RefUntil,  \* the second each reference expires
    TTL,       \* 30 seconds, in the units of the clock
    Parts      \* the parts of the chain under study, and their bounds

(* v0.35 looks a grant up by its key or by its review, fences on the       *)
(* review, and takes a row with the same request for the same grant.       *)
GrantStage ==
    [of |-> "review", resolvesSubject |-> TRUE, fence |-> {"parent"},
     same |-> {"key", "parent", "ref", "item"}]

(* v0.36 does the same with an admission of a grant.                       *)
AdmissionStage ==
    [of |-> "grant", resolvesSubject |-> TRUE, fence |-> {"parent"},
     same |-> {"key", "parent", "ref", "item"}]

(* v0.37 fences on the admission and the runner reference, and accepts     *)
(* only a byte-identical plan.                                             *)
PlanStage ==
    [of |-> "admission", resolvesSubject |-> FALSE,
     fence |-> {"parent", "ref"},
     same |-> {"key", "parent", "ref", "item", "mint", "recorded"}]

(* v0.38 puts the fingerprint of the intent, minted by this very call, in  *)
(* its subject.                                                            *)
StubStage ==
    [of |-> "plan", resolvesSubject |-> FALSE,
     fence |-> {"parent", "ref", "mint"},
     same |-> {"key", "parent", "ref", "item", "mint", "recorded"}]

(* v0.39 fences on the stub, the intake reference and the queue item, an   *)
(* item that carries the second the client said it would be created.       *)
QueueStage ==
    [of |-> "stub", resolvesSubject |-> FALSE,
     fence |-> {"parent", "ref", "item"},
     same |-> {"key", "parent", "ref", "item", "mint", "recorded"}]

(* v0.40 puts the fingerprint of the decision, minted by this call, in its *)
(* subject.                                                                *)
IntakeStage ==
    [of |-> "queue", resolvesSubject |-> FALSE,
     fence |-> {"parent", "ref", "mint"},
     same |-> {"key", "parent", "ref", "item", "mint", "recorded"}]

(* v0.41 derives its id from its subject, the intake admission, and        *)
(* compares only key and subject.                                          *)
LiveStage ==
    [of |-> "intake", resolvesSubject |-> FALSE, fence |-> {"parent"},
     same |-> {"key", "parent"}]

Stages == {"grant", "admission", "plan", "stub", "queue", "intake", "live"}

StageOf ==
    [s \in Stages |->
        CASE s = "grant"     -> GrantStage
          [] s = "admission" -> AdmissionStage
          [] s = "plan"      -> PlanStage
          [] s = "stub"      -> StubStage
          [] s = "queue"     -> QueueStage
          [] s = "intake"    -> IntakeStage
          [] s = "live"      -> LiveStage]

(* A part: the stage whose one record exists at the start, the stages      *)
(* behind it, the references the readers know, MAX_RECORDS_PER_OPERATOR and *)
(* the last second of the clock.  v0.41 reads two records back, so a part  *)
(* with it begins two stages before it.                                    *)
PartsAssumption ==
    /\ TTL \in Nat \ {0}
    /\ RefFrom \in [Refs -> Nat] /\ RefUntil \in [Refs -> Nat]
    /\ Parts \subseteq [root : Stages \cup {"review"}, chain : SUBSET Stages,
                        refs : (SUBSET Refs) \ {{}}, quota : Nat, end : Nat]
    /\ \A p \in Parts : /\ p.root \notin p.chain
                        /\ "live" \in p.chain => p.root # "intake"

VARIABLES
    clock,   \* the server's clock, in whole seconds
    rows,    \* the rows of all the stores
    calls,   \* what each request is doing, or the last answer it got
    part     \* the part of the chain this behaviour is about: never changes

vars == <<clock, rows, calls, part>>

Times == 0 .. part.end
(* Ids: one per record a store may hold and one per call under way.        *)
Mints == 1 .. 1 + part.quota * Cardinality(part.chain) + Cardinality(Calls)

Phases == {"idle", "reading", "appending"}
Answers == {"none", "recorded", "exact_duplicate", "conflict",
            "quota_exceeded", "refused", "unavailable"}

Row == [stage : Stages \cup {"review"}, mint : Mints, key : Keys \cup {"none"},
        parent : Mints \cup {0}, ref : part.refs, item : Times,
        recorded : Times, until : Nat]

IdleCall ==
    [phase |-> "idle", stage |-> part.root, key |-> "none", parent |-> 0,
     ref |-> CHOOSE r \in part.refs : TRUE, item |-> 0, mint |-> 0,
     recorded |-> 0, until |-> 0, answer |-> "none", got |-> 0]

(* The record of the stage before the chain, evidence this module takes as *)
(* given.                                                                  *)
RootRow(ref) ==
    [stage |-> part.root, mint |-> 1, key |-> "none", parent |-> 0, ref |-> ref,
     item |-> 0, recorded |-> 0, until |-> TTL]

Init ==
    /\ part \in Parts
    /\ clock = 0
    /\ \E ref \in part.refs : rows = {RootRow(ref)}
    /\ calls = [c \in Calls |-> IdleCall]

RowOf(m) == CHOOSE r \in rows : r.mint = m
Agree(r, q, fields) == \A f \in fields : r[f] = q[f]
Answer(c, code, m) ==
    calls' = [calls EXCEPT ![c].phase = "idle", ![c].answer = code, ![c].got = m,
                           ![c].mint = 0, ![c].recorded = 0, ![c].until = 0]
Refuse(c, code) == calls' = [calls EXCEPT ![c] = [IdleCall EXCEPT !.answer = code]]

-----------------------------------------------------------------------------
(* Evidence.  Each validation input lists the windows its evidence gives:  *)
(* every one must have opened at most TTL ago and must not have closed.    *)

Window(from, until) == [from |-> from, until |-> until]
RefWindow(ref) == Window(RefFrom[ref], RefUntil[ref])
ParentWindow(q) == Window(RowOf(q.parent).recorded, RowOf(q.parent).until)

(* v0.35: the review was observed at most TTL ago, and a grant outlives    *)
(* neither its evidence nor that limit.                                    *)
GrantWindows(q, now) ==
    {ParentWindow(q),
     Window(RowOf(q.parent).recorded, RowOf(q.parent).recorded + TTL)}

(* v0.36: only the grant's status, observed by this read, must be fresh.   *)
AdmissionWindows(q, now) == {Window(now, RowOf(q.parent).until)}

PlanWindows(q, now) == {ParentWindow(q), RefWindow(q.ref)}

StubWindows(q, now) == {ParentWindow(q), RefWindow(q.ref)}

(* v0.39: the item named by the client was created at this second.         *)
QueueWindows(q, now) ==
    {ParentWindow(q), RefWindow(q.ref),
     Window(now, IF q.item = now THEN now + TTL ELSE now)}

IntakeWindows(q, now) == {ParentWindow(q), RefWindow(q.ref)}

(* v0.41 validates the queue reservation behind the admission once more.   *)
LiveWindows(q, now) ==
    {ParentWindow(q), RefWindow(q.ref), ParentWindow(RowOf(q.parent))}

Windows(q, now) ==
    CASE q.stage = "grant"     -> GrantWindows(q, now)
      [] q.stage = "admission" -> AdmissionWindows(q, now)
      [] q.stage = "plan"      -> PlanWindows(q, now)
      [] q.stage = "stub"      -> StubWindows(q, now)
      [] q.stage = "queue"     -> QueueWindows(q, now)
      [] q.stage = "intake"    -> IntakeWindows(q, now)
      [] q.stage = "live"      -> LiveWindows(q, now)

Current(w, now) == w.from <= now /\ now - w.from <= TTL /\ now < w.until

ValidUntil(q, now) == Min({now + TTL} \cup {w.until : w \in Windows(q, now)})

-----------------------------------------------------------------------------
(* The three store accesses of create.                                     *)

(* Resolve: an idempotency key already recorded answers at once, with no   *)
(* evidence read; v0.35 and v0.36 also find the row of another key.        *)
Resolved(s, q) ==
    {r \in rows : r.stage = s /\ \/ r.key = q.key
                                 \/ StageOf[s].resolvesSubject /\ r.parent = q.parent}

\* Mutant: a found row is returned to whoever asks.
SameRequestAny(r, q) == TRUE

SameRequest(r, q) == Agree(r, q, {"key", "parent", "ref", "item"})

(* What a client sends: a record of the stage before as parent, and, where *)
(* the stage takes one, a reference or an item of its own choice.          *)
Requests(s) ==
    {q \in [key : Keys, parent : {r.mint : r \in {x \in rows : x.stage = StageOf[s].of}},
            ref : part.refs, item : Times] :
        /\ s # "plan" => q.ref = RowOf(q.parent).ref
        /\ s # "queue" => q.item = 0}

Begin(c, s, q) ==
    /\ calls[c].phase = "idle"
    /\ LET found == Resolved(s, q)
           asked == [IdleCall EXCEPT !.stage = s, !.key = q.key, !.ref = q.ref,
                                     !.parent = q.parent, !.item = q.item]
       IN  \/ /\ found = {}
              /\ calls' = [calls EXCEPT ![c] = [asked EXCEPT !.phase = "reading"]]
           \/ \E r \in found :
                 /\ Cardinality(found) = 1 /\ SameRequest(r, q)
                 /\ calls' = [calls EXCEPT ![c] =
                        [asked EXCEPT !.answer = "exact_duplicate", !.got = r.mint]]
           \/ /\ found # {}
              /\ ~ (Cardinality(found) = 1 /\ \A r \in found : SameRequest(r, q))
              /\ calls' = [calls EXCEPT ![c] = [asked EXCEPT !.answer = "conflict"]]
    /\ UNCHANGED <<clock, rows>>

(* Ids taken by a row or by a call under way: a minted id is a fresh uuid. *)
Used == {r.mint : r \in rows} \cup {calls[d].mint : d \in Calls}

(* Read, validate and build, at one second of the server's clock.          *)
Validate(c) ==
    /\ calls[c].phase = "reading"
    /\ LET q == calls[c]
           ok == \A w \in Windows(q, clock) : Current(w, clock)
       IN  \/ /\ ok
              /\ calls' = [calls EXCEPT ![c].phase = "appending",
                              ![c].mint = Min(Mints \ Used),
                              ![c].recorded = clock,
                              ![c].until = ValidUntil(q, clock)]
           \/ ~ ok /\ Refuse(c, "refused")
    /\ UNCHANGED <<clock, rows>>

\* Mutant: the transaction looks for the key alone.
ClashesByKey(q) == {r \in rows : r.stage = q.stage /\ r.key = q.key}

(* Append, one BEGIN IMMEDIATE transaction.                                *)
Clashes(q) ==
    {r \in rows : r.stage = q.stage /\ \/ r.key = q.key
                                       \/ Agree(r, q, StageOf[q.stage].fence)
                                       \/ r.mint = q.mint}

QuotaLeft(s) == Cardinality({r \in rows : r.stage = s}) < part.quota

Append(c) ==
    /\ calls[c].phase = "appending"
    /\ LET q == calls[c]
           hits == Clashes(q)
           same == Cardinality(hits) = 1
                   /\ \A r \in hits : Agree(r, q, StageOf[q.stage].same)
       IN  \/ /\ hits = {} /\ QuotaLeft(q.stage)
              /\ rows' = rows \cup
                    {[stage |-> q.stage, mint |-> q.mint, key |-> q.key,
                      parent |-> q.parent, ref |-> q.ref, item |-> q.item,
                      recorded |-> q.recorded, until |-> q.until]}
              /\ Answer(c, "recorded", q.mint)
           \/ /\ hits = {} /\ ~ QuotaLeft(q.stage)
              /\ Refuse(c, "quota_exceeded")
              /\ UNCHANGED rows
           \/ /\ hits # {} /\ same
              /\ \E r \in hits : Answer(c, "exact_duplicate", r.mint)
              /\ UNCHANGED rows
           \/ /\ hits # {} /\ ~ same
              /\ Answer(c, "conflict", 0)
              /\ UNCHANGED rows
    /\ UNCHANGED clock

(* A SQLite error or a failing reader ends the call; nothing was written.  *)
Fail(c) ==
    /\ calls[c].phase # "idle"
    /\ Refuse(c, "unavailable")
    /\ UNCHANGED <<clock, rows>>

(* Core restarts: the calls under way and the answers not yet delivered    *)
(* are gone, the rows are not.                                             *)
Crash ==
    /\ calls # [c \in Calls |-> IdleCall]
    /\ calls' = [c \in Calls |-> IdleCall]
    /\ UNCHANGED <<clock, rows>>

Tick ==
    /\ clock < part.end
    /\ clock' = clock + 1
    /\ UNCHANGED <<rows, calls>>

Next ==
    /\ \/ \E c \in Calls :
             \/ \E s \in part.chain : \E q \in Requests(s) : Begin(c, s, q)
             \/ Validate(c)
             \/ Append(c)
             \/ Fail(c)
       \/ Crash
       \/ Tick
    /\ UNCHANGED part

Spec == Init /\ [][Next]_vars

-----------------------------------------------------------------------------
(* Every row and every call is well formed, and ids are unique.            *)
TypeOK ==
    /\ part \in Parts
    /\ clock \in Times
    /\ rows \subseteq Row
    /\ \A r, q \in rows : r.mint = q.mint => r = q
    /\ calls \in [Calls ->
          [phase : Phases, stage : Stages \cup {part.root}, key : Keys \cup {"none"},
           parent : Mints \cup {0}, ref : part.refs, item : Times,
           mint : Mints \cup {0}, recorded : Times, until : Nat,
           answer : Answers, got : Mints \cup {0}]]

Ancestors(r) ==
    LET up[n \in 0 .. Cardinality(part.chain)] ==
            IF n = 0 THEN {r}
            ELSE up[n - 1] \cup {q \in rows : \E x \in up[n - 1] : q.mint = x.parent}
    IN  up[Cardinality(part.chain)]

(* However far back, a record was made while every ancestor was valid, and *)
(* outlives none of them, although each stage checks only its own parent   *)
(* and a write may land long after the check.                              *)
LineageSound ==
    \A r \in rows : \A a \in Ancestors(r) :
        /\ a.recorded <= r.recorded
        /\ r.recorded < a.until
        /\ r.until <= a.until

(* One record of a stage per parent record, reference and item, whatever   *)
(* the keys, however concurrent, and after the first one has expired or    *)
(* Core has restarted.  The stub and the intake stage have no such fence:  *)
(* their subject contains what the call itself mints.                      *)
OneChildPerParent ==
    \A r, q \in rows :
        /\ r.stage = q.stage
        /\ r.stage \notin {"stub", "intake"}
        /\ Agree(r, q, {"parent", "ref", "item"})
        => r = q

(* A success names a stored row that records this very request, and the    *)
(* key names no other.                                                     *)
AnswerIsTheRecord ==
    /\ \A c \in Calls :
          calls[c].answer \in {"recorded", "exact_duplicate"} =>
             \E r \in rows : r.mint = calls[c].got /\ r.stage = calls[c].stage
                             /\ Agree(r, calls[c], {"key", "parent", "ref", "item"})
    /\ \A r, q \in rows :
          r.stage = q.stage /\ r.key = q.key /\ r.key # "none" => r = q

(* Where a store compares requests and not whole records, the repeat of a  *)
(* request that is on record is never told it conflicts.                   *)
DuplicateReturnsOriginal ==
    \A c \in Calls :
        /\ calls[c].answer = "conflict"
        /\ calls[c].stage \in {"grant", "admission", "live"}
        => ~ \E r \in rows : r.stage = calls[c].stage
                              /\ Agree(r, calls[c], {"key", "parent", "ref", "item"})

\* What a caller is told of its request, a success or a conflict, is what the
\* table says about it.
AnswersSound ==
    /\ AnswerIsTheRecord
    /\ DuplicateReturnsOriginal

(* No store holds more than the operator's quota, however many calls found *)
(* room before they wrote.                                                 *)
QuotaHolds ==
    \A s \in part.chain : Cardinality({r \in rows : r.stage = s}) <= part.quota

\* The chain of records at any moment, whoever wrote concurrently: each follows
\* from its parents and within their windows, none has two children of a stage
\* and no stage exceeds its quota.
ChainSound ==
    /\ TypeOK
    /\ LineageSound
    /\ OneChildPerParent
    /\ QuotaHolds
=============================================================================
