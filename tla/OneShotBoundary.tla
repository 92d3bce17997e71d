--------------------------- MODULE OneShotBoundary ---------------------------
(***************************************************************************)
(* The one-shot boundaries of the installation chain, v0.42 onward: a     *)
(* create commits a permanent reservation of its subject in one SQLite     *)
(* transaction and its record in a second one, so that a crash between the *)
(* two leaves a reservation that may never be used again.  v0.45 calls the *)
(* queue adapter in between.  From v0.52 on the predecessor is read again  *)
(* under each of the two write locks.                                      *)
(*                                                                         *)
(* The packages are one protocol with a few variations, which Protocol     *)
(* tabulates; stage is the one under study.  A subject is its parent       *)
(* record (with the status the evidence reader gives for it): ids and      *)
(* fingerprints are functions of it.                                       *)
(***************************************************************************)
EXTENDS Naturals, FiniteSets

CONSTANTS
    Calls,        \* requests that may be under way together
    Keys,         \* idempotency keys
    Parents,      \* records of the stage before
    ParentUntil,  \* the second they all expire
    Studied,      \* the boundaries a run looks at
    Quota,        \* boundary -> reservations an operator may hold
    MaxTime       \* bound on the clock

\* Mutant: a reservation found without a record is taken up again.
EnqueueProtocolResumes ==
    [guard |-> "none", clockFirst |-> FALSE, exactSecond |-> TRUE,
     orphanStops |-> FALSE, effect |-> FALSE]

(* guard: what append checks again under its locks: nothing, that the      *)
(* predecessor is still valid, or only that it still reads the same.       *)
(* clockFirst: the server's second is taken before the key is resolved.    *)
(* exactSecond: a reservation is "the same" only if it was made in the     *)
(* same second.  orphanStops: reserving finds a reservation that has no    *)
(* record and goes no further.  effect: an adapter is called in between.   *)
EnqueueProtocol ==
    [guard |-> "none", clockFirst |-> FALSE, exactSecond |-> TRUE,
     orphanStops |-> TRUE, effect |-> FALSE]

ObservationProtocol ==
    [guard |-> "none", clockFirst |-> FALSE, exactSecond |-> TRUE,
     orphanStops |-> TRUE, effect |-> FALSE]

DequeueAdmissionProtocol ==
    [guard |-> "none", clockFirst |-> FALSE, exactSecond |-> TRUE,
     orphanStops |-> TRUE, effect |-> FALSE]

DequeueProtocol ==
    [guard |-> "none", clockFirst |-> TRUE, exactSecond |-> TRUE,
     orphanStops |-> FALSE, effect |-> TRUE]

BindingProtocol ==
    [guard |-> "none", clockFirst |-> TRUE, exactSecond |-> TRUE,
     orphanStops |-> TRUE, effect |-> FALSE]

PreflightProtocol ==
    [guard |-> "none", clockFirst |-> TRUE, exactSecond |-> TRUE,
     orphanStops |-> TRUE, effect |-> FALSE]

ActivationEvidenceProtocol ==
    [guard |-> "none", clockFirst |-> TRUE, exactSecond |-> TRUE,
     orphanStops |-> TRUE, effect |-> FALSE]

ClaimProtocol ==
    [guard |-> "none", clockFirst |-> TRUE, exactSecond |-> TRUE,
     orphanStops |-> TRUE, effect |-> FALSE]

LeasePrerequisiteProtocol ==
    [guard |-> "none", clockFirst |-> TRUE, exactSecond |-> TRUE,
     orphanStops |-> TRUE, effect |-> FALSE]

LeaseAdmissionProtocol ==
    [guard |-> "none", clockFirst |-> TRUE, exactSecond |-> TRUE,
     orphanStops |-> TRUE, effect |-> FALSE]

AcknowledgementProtocol ==
    [guard |-> "valid", clockFirst |-> TRUE, exactSecond |-> FALSE,
     orphanStops |-> TRUE, effect |-> FALSE]

RuntimePrerequisiteProtocol ==
    [guard |-> "valid", clockFirst |-> FALSE, exactSecond |-> FALSE,
     orphanStops |-> TRUE, effect |-> FALSE]

RuntimeAdmissionProtocol ==
    [guard |-> "valid", clockFirst |-> FALSE, exactSecond |-> FALSE,
     orphanStops |-> TRUE, effect |-> FALSE]

RuntimePlanProtocol ==
    [guard |-> "valid", clockFirst |-> FALSE, exactSecond |-> FALSE,
     orphanStops |-> TRUE, effect |-> FALSE]

PlanReviewProtocol ==
    [guard |-> "valid", clockFirst |-> FALSE, exactSecond |-> FALSE,
     orphanStops |-> TRUE, effect |-> FALSE]

InterfaceProtocol ==
    [guard |-> "valid", clockFirst |-> FALSE, exactSecond |-> FALSE,
     orphanStops |-> TRUE, effect |-> FALSE]

(* The definition is evaluated at the second create began, and its         *)
(* revalidation compares it without looking at the clock.                  *)
DefinitionProtocol ==
    [guard |-> "unchanged", clockFirst |-> FALSE, exactSecond |-> FALSE,
     orphanStops |-> TRUE, effect |-> FALSE]

Protocol ==
    [enqueue |-> EnqueueProtocol, observation |-> ObservationProtocol,
     dequeueAdmission |-> DequeueAdmissionProtocol, dequeue |-> DequeueProtocol,
     binding |-> BindingProtocol, preflight |-> PreflightProtocol,
     activationEvidence |-> ActivationEvidenceProtocol, claim |-> ClaimProtocol,
     leasePrerequisite |-> LeasePrerequisiteProtocol,
     leaseAdmission |-> LeaseAdmissionProtocol,
     acknowledgement |-> AcknowledgementProtocol,
     runtimePrerequisite |-> RuntimePrerequisiteProtocol,
     runtimeAdmission |-> RuntimeAdmissionProtocol,
     runtimePlan |-> RuntimePlanProtocol, planReview |-> PlanReviewProtocol,
     interface |-> InterfaceProtocol, definition |-> DefinitionProtocol]

ASSUME BoundaryAssumption ==
    /\ Studied \subseteq DOMAIN Protocol
    /\ ParentUntil \in Nat /\ Quota \in [Studied -> Nat] /\ MaxTime \in Nat
    /\ Keys # {} /\ Parents # {} /\ IsFiniteSet(Calls)

Times == 0 .. MaxTime

VARIABLES
    stage,         \* the boundary under study; never changes
    clock,
    reservations,  \* durable: [parent, key, at]
    records,       \* durable: [parent, key, at]
    failures,      \* durable: parents whose append is known to have failed
    effects,       \* how often the adapter was asked for each parent's item
    calls          \* what each request is doing, or the last answer it got

vars == <<stage, clock, reservations, records, failures, effects, calls>>

Item == [parent : Parents, key : Keys, at : Times]
Phases == {"idle", "reading", "reserving", "effect", "recording"}
Answers == {"none", "success", "conflict", "quota_exceeded", "refused",
            "indeterminate", "unavailable"}
NoItem == [parent |-> CHOOSE p \in Parents : TRUE, key |-> CHOOSE k \in Keys : TRUE, at |-> 0]
IdleCall == [phase |-> "idle", item |-> NoItem, answer |-> "none"]

P == Protocol[stage]

Init ==
    /\ stage \in Studied
    /\ clock = 0
    /\ reservations = {} /\ records = {} /\ failures = {}
    /\ effects = [p \in Parents |-> 0]
    /\ calls = [c \in Calls |-> IdleCall]

GoOn(c, phase) == calls' = [calls EXCEPT ![c].phase = phase]
Answer(c, code) == calls' = [calls EXCEPT ![c].phase = "idle", ![c].answer = code]
Refuse(c, code) == calls' = [calls EXCEPT ![c] = [IdleCall EXCEPT !.answer = code]]

\* Mutant: a reservation is taken for its record.
RecordOfReservation(p) == {r \in reservations : r.parent = p}

RecordOf(p) == {r \in records : r.parent = p}

ReceivedAt == IF P.clockFirst THEN clock ELSE 0

\* Mutant: a reservation without a record lets its request try again.
BeginAgain(c, k, p) ==
    /\ calls[c].phase = "idle"
    /\ \A r \in reservations : r.key = k => r.parent = p
    /\ calls' = [calls EXCEPT ![c] =
           [phase |-> "reading", answer |-> "none",
            item |-> [parent |-> p, key |-> k, at |-> ReceivedAt]]]
    /\ UNCHANGED <<stage, clock, reservations, records, failures, effects>>

(* resolve_idempotency: the reservation of this key, by another request a  *)
(* conflict, without a record an indeterminate outcome.                    *)
Begin(c, k, p) ==
    /\ calls[c].phase = "idle"
    /\ LET item == [parent |-> p, key |-> k, at |-> ReceivedAt]
           call(phase, code) == calls' = [calls EXCEPT ![c] =
               [phase |-> phase, item |-> item, answer |-> code]]
           held == {r \in reservations : r.key = k}
       IN  \/ held = {} /\ call("reading", "none")
           \/ \E r \in held :
                 \/ r.parent # p /\ call("idle", "conflict")
                 \/ r.parent = p /\ RecordOf(p) = {} /\ call("idle", "indeterminate")
                 \/ r.parent = p /\ RecordOf(p) # {} /\ call("idle", "success")
    /\ UNCHANGED <<stage, clock, reservations, records, failures, effects>>

(* Read the predecessor and validate it; v0.53 on leave that to the lock.  *)
Read(c) ==
    /\ calls[c].phase = "reading"
    /\ LET at == IF P.clockFirst THEN calls[c].item.at ELSE clock
       IN  \/ /\ at < ParentUntil
              /\ calls' = [calls EXCEPT ![c].phase = "reserving", ![c].item.at = at]
           \/ at >= ParentUntil /\ Refuse(c, "refused")
    /\ UNCHANGED <<stage, clock, reservations, records, failures, effects>>

\* Mutant: only the predecessor's fields are compared, not the time.
RevalidatedFields == TRUE

Revalidated == P.guard = "valid" => clock < ParentUntil

Same(r, item) ==
    r.key = item.key /\ r.parent = item.parent /\ (P.exactSecond => r.at = item.at)

QuotaLeft == Cardinality(reservations) < Quota[stage]

(* The first transaction.                                                  *)
Clashes(item) == {r \in reservations : r.key = item.key \/ r.parent = item.parent}

Reserve(c) ==
    /\ calls[c].phase = "reserving"
    /\ LET item == calls[c].item
           held == Clashes(item)
           same == {r \in held : Same(r, item)}
           onward == IF P.effect THEN "effect" ELSE "recording"
           goOn == GoOn(c, onward)
       IN  \/ /\ held = {} /\ Revalidated /\ QuotaLeft
              /\ reservations' = reservations \cup {item}
              /\ goOn
           \/ /\ held = {} /\ ~ (Revalidated /\ QuotaLeft)
              /\ Refuse(c, IF Revalidated THEN "quota_exceeded" ELSE "refused")
              /\ UNCHANGED reservations
           \/ /\ held # {}
              /\ \/ ~ held \subseteq same /\ Answer(c, "conflict")
                 \/ /\ held \subseteq same
                    /\ \/ RecordOf(item.parent) # {} /\ ~ P.effect /\ Answer(c, "success")
                       \/ RecordOf(item.parent) # {} /\ P.effect /\ goOn
                       \/ /\ RecordOf(item.parent) = {} /\ P.orphanStops
                          /\ Answer(c, "indeterminate")
                       \/ RecordOf(item.parent) = {} /\ ~ P.orphanStops /\ goOn
              /\ UNCHANGED reservations
    /\ UNCHANGED <<stage, clock, records, failures, effects>>

(* The adapter is asked to take the item off the queue.  It answers, or    *)
(* fails and leaves the outcome unknown.                                   *)
Effect(c) ==
    /\ calls[c].phase = "effect"
    /\ effects' = [effects EXCEPT ![calls[c].item.parent] = @ + 1]
    /\ \/ GoOn(c, "recording")
       \/ Answer(c, "indeterminate")
    /\ UNCHANGED <<stage, clock, reservations, records, failures>>

(* The second transaction.  A guarded stage that fails here leaves a       *)
(* failure row, if it can, and an outcome that stays indeterminate.  A     *)
(* second receipt of v0.45 is accepted only if the adapter gave it the     *)
(* same content.                                                           *)
Record(c) ==
    /\ calls[c].phase = "recording"
    /\ LET item == calls[c].item
           free == RecordOf(item.parent) = {} /\ item.parent \notin failures
       IN  \/ /\ free /\ Revalidated
              /\ records' = records \cup {item}
              /\ Answer(c, "success")
              /\ UNCHANGED failures
           \/ /\ free /\ ~ Revalidated
              /\ failures' \in {failures, failures \cup {item.parent}}
              /\ Answer(c, "indeterminate")
              /\ UNCHANGED records
           \/ /\ ~ free
              /\ \/ item \in records /\ Answer(c, "success")
                 \/ Answer(c, "conflict")
              /\ UNCHANGED <<records, failures>>
    /\ UNCHANGED <<stage, clock, reservations, effects>>

(* A SQLite or reader error.  Before the reservation nothing has happened; *)
(* after it the guarded stages answer that the outcome is unknown.         *)
Fail(c) ==
    /\ calls[c].phase \in {"reading", "reserving", "recording"}
    /\ \/ /\ calls[c].phase # "recording" \/ P.guard = "none"
          /\ Refuse(c, "unavailable")
          /\ UNCHANGED failures
       \/ /\ calls[c].phase = "recording" /\ P.guard # "none"
          /\ failures' \in {failures, failures \cup {calls[c].item.parent}}
          /\ Answer(c, "indeterminate")
    /\ UNCHANGED <<stage, clock, reservations, records, effects>>

Crash ==
    /\ calls # [c \in Calls |-> IdleCall]
    /\ calls' = [c \in Calls |-> IdleCall]
    /\ UNCHANGED <<stage, clock, reservations, records, failures, effects>>

Tick ==
    /\ clock < MaxTime
    /\ clock' = clock + 1
    /\ UNCHANGED <<stage, reservations, records, failures, effects, calls>>

Next ==
    \/ \E c \in Calls :
          \/ \E k \in Keys, p \in Parents : Begin(c, k, p)
          \/ Read(c)
          \/ Reserve(c)
          \/ Effect(c)
          \/ Record(c)
          \/ Fail(c)
    \/ Crash
    \/ Tick

Spec == Init /\ [][Next]_vars

-----------------------------------------------------------------------------
(* The rows, the calls and the counts are what the code can store.         *)
TypeOK ==
    /\ stage \in Studied
    /\ clock \in Times
    /\ reservations \subseteq Item /\ records \subseteq Item
    /\ failures \subseteq Parents
    /\ effects \in [Parents -> Nat]
    /\ calls \in [Calls -> [phase : Phases, item : Item, answer : Answers]]

(* A record is the fulfilment of a reservation of the same key, made for   *)
(* the same subject, and neither a subject nor a key is reserved twice,    *)
(* whoever races whom.                                                     *)
RecordFulfilsReservation ==
    /\ \A r \in records : \E v \in reservations :
          v.parent = r.parent /\ v.key = r.key /\ v.at <= r.at
    /\ \A v, w \in reservations : v.parent = w.parent \/ v.key = w.key => v = w

(* A reservation without a record and without the call that made it, left  *)
(* by a crash or an error, stays so for ever: no retry completes it.  (A   *)
(* send of the dequeue that was under way beside the one that died may.)   *)
Orphan(p) ==
    /\ \E v \in reservations : v.parent = p
    /\ RecordOf(p) = {}
    /\ \A c \in Calls : calls[c].phase \in {"effect", "recording"} =>
                            calls[c].item.parent # p
OrphanStaysOrphan ==
    [][~ P.effect => \A p \in Parents : Orphan(p) => Orphan(p)']_vars

(* Reservations count against the operator's quota, completed or not.      *)
QuotaHolds == Cardinality(reservations) <= Quota[stage]

(* A success is on record and readable, under the caller's key.            *)
SuccessIsDurable ==
    \A c \in Calls : calls[c].answer = "success" =>
        \E r \in records : r.parent = calls[c].item.parent /\ r.key = calls[c].item.key

\* The tables of a boundary at any moment, between its transactions included.
BoundarySound ==
    /\ TypeOK
    /\ RecordFulfilsReservation
    /\ QuotaHolds
    /\ SuccessIsDurable

(* A guarded record enters its store while its predecessor is still valid, *)
(* however long the call waited for the write lock.                        *)
RecordedWhileValid ==
    [][P.guard = "valid" /\ records' # records => clock < ParentUntil]_vars

(* Only sends that were under way together when an item was reserved ever  *)
(* ask the adapter for it: no retry, restart, expiry or other key adds a   *)
(* call to it.  (Two sends in the same second may both ask.)               *)
RetryNeverDequeues == \A p \in Parents : effects[p] <= Cardinality(Calls)
=============================================================================
