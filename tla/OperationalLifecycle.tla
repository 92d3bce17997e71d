------------------------ MODULE OperationalLifecycle ------------------------
(***************************************************************************)
(* What Core promises about an operational request, as far as the Agent    *)
(* can see it: one row per request that only moves forward, at most one    *)
(* dispatch result, and which answers a POST may get.  OperationalDispatch *)
(* implements this specification; OperationalExecution builds on it.       *)
(***************************************************************************)
EXTENDS Naturals

CONSTANT Requests   \* request IDs

VARIABLES
    state,    \* request ID -> state of its ledger row
    result,   \* request ID -> status of its stored dispatch result
    answers   \* history: request ID -> answers given to POSTs

lifecycle == <<state, result, answers>>

Undecided == {"claimed", "revalidated", "dispatching"}
Concluded == {"verified", "verification_failed", "target_replaced"}
LifecycleState == Undecided \cup Concluded
                    \cup {"absent", "succeeded", "failed", "outcome_unknown",
                          "verifying"}
ResultStatus == {"succeeded", "failed", "outcome_unknown"}

LifecycleInit ==
    /\ state = [r \in Requests |-> "absent"]
    /\ result = [r \in Requests |-> "none"]
    /\ answers = [r \in Requests |-> {}]

\* The answers Core may give now: the stored result; that the row is being
\* dispatched; that its target is temporarily unavailable; an HTTP error.
Answers(r) ==
    ({result[r]} \ {"none"})
      \cup (IF state[r] = "dispatching" THEN {"outcome_unknown"} ELSE {})
      \cup {"failed", "error"}

Move(r, to) == state' = [state EXCEPT ![r] = to]

Claim(r) ==
    /\ state[r] = "absent"
    /\ Move(r, "claimed")
    /\ UNCHANGED <<result, answers>>

Advance(r) ==
    /\ \/ state[r] = "claimed" /\ Move(r, "revalidated")
       \/ state[r] = "revalidated" /\ Move(r, "dispatching")
    /\ UNCHANGED <<result, answers>>

\* A replaced target is answered as a failure and gets a state of its own.
Decide(r, status) ==
    /\ state[r] \in Undecided
    /\ result[r] = "none"
    /\ \/ Move(r, status)
       \/ status = "failed" /\ Move(r, "target_replaced")
    /\ result' = [result EXCEPT ![r] = status]
    /\ UNCHANGED answers

\* Startup: the interrupted dispatches get an unknown result, all at once.
Reconcile ==
    LET rows == {r \in Requests : state[r] = "dispatching"} IN
    /\ state' = [r \in Requests |-> IF r \in rows THEN "outcome_unknown"
                                    ELSE state[r]]
    /\ result' = [r \in Requests |-> IF r \in rows THEN "outcome_unknown"
                                     ELSE result[r]]
    /\ UNCHANGED answers

BeginVerification(r) ==
    /\ state[r] \in {"succeeded", "outcome_unknown"}
    /\ Move(r, "verifying")
    /\ UNCHANGED <<result, answers>>

Conclude(r) ==
    /\ state[r] = "verifying"
    /\ \E to \in Concluded \cup {"outcome_unknown"} : Move(r, to)
    /\ UNCHANGED <<result, answers>>

Answer(r, a) ==
    /\ a \in Answers(r)
    /\ answers' = [answers EXCEPT ![r] = @ \cup {a}]
    /\ UNCHANGED <<state, result>>

LifecycleNext ==
    \/ Reconcile
    \/ \E r \in Requests :
          \/ Claim(r) \/ Advance(r) \/ BeginVerification(r) \/ Conclude(r)
          \/ \E status \in ResultStatus : Decide(r, status)
          \/ \E a \in ResultStatus \cup {"error"} : Answer(r, a)

LifecycleSpec == LifecycleInit /\ [][LifecycleNext]_lifecycle
=============================================================================
