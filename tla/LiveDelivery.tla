---------------------------- MODULE LiveDelivery ----------------------------
(***************************************************************************)
(* One delivery of an installation handoff from Core to the Agent over a   *)
(* single HTTPS POST, never sent twice.  Core reserves the delivery for    *)
(* good before it sends; the Agent admits each at most once.               *)
(*                                                                         *)
(* The code has two of these.  "coordinator" is Core's v0.31 send_once     *)
(* with the Agent's v0.27 intake, "composition" Core's v0.33 compose_once  *)
(* with the Agent's v0.32 intake; setting.path says which one a behaviour  *)
(* is about.  A subject is what is delivered: an enablement, preparation   *)
(* and intake request, whose ids and fingerprints are functions of it.     *)
(*                                                                         *)
(* A call runs in a thread of Core, with one step per SQLite transaction.  *)
(* The Agent handles a POST without an await once it has its body, so      *)
(* that is one step.                                                       *)
(***************************************************************************)
EXTENDS Naturals, FiniteSets

CONSTANTS
    Calls,      \* calls of Core that may be under way together
    Subjects,   \* what may be delivered
    Keys,       \* idempotency keys
    NoItem,     \* no subject, no key
    Settings    \* path, quotas, and whether the network delivers POSTs twice

ASSUME NoItemAssumption == NoItem \notin Subjects \cup Keys

ASSUME DeliverySettingsAssumption ==
    \A s \in Settings :
        /\ s.path \in {"coordinator", "composition"}
        /\ s.coreQuota \in Nat /\ s.agentQuota \in Nat
        /\ s.twice \in BOOLEAN

VARIABLES
    setting,       \* of this behaviour; never changes
    expired,       \* the freshness window of the deliveries is over
    reservations,  \* Core, durable: [subject, key] of the attempts
    receipts,      \* Core, durable: subject -> its v0.31 receipt's lifecycle
    verified,      \* Core, durable: subjects with a v0.33 receipt
    calls,         \* Core: what each call is doing, or the answer it gave
    requests,      \* POSTs that the Agent has not got or not answered yet
    agentKeys,     \* Agent, durable: [subject, key] of its reservations
    admissions,    \* Agent, durable: [subject, key] of its admissions
    posted         \* history: subject -> how often transmit_once was called

coreVars == <<reservations, receipts, verified, calls>>
agentVars == <<agentKeys, admissions>>
vars == <<setting, expired, coreVars, requests, agentVars, posted>>

-----------------------------------------------------------------------------
(* Values.                                                                 *)

Lifecycle == {"none", "admitted", "rejected", "ambiguous"}

Phase == {"idle", "reserving", "stored", "posting", "waiting", "closing",
          "failed", "closing_failure", "recording", "verifying"}

Answers == Lifecycle \cup
    {"verified", "conflict", "quota_exceeded", "refused", "unavailable"}

Item == [subject : Subjects, key : Keys]

\* replay: the attempt was reserved by another call; n: the POST waited for;
\* outcome: the lifecycle of the receipt being written.
Call == [phase : Phase, subject : Subjects \cup {NoItem}, key : Keys \cup {NoItem},
         replay : BOOLEAN, n : Nat, outcome : Lifecycle, answer : Answers]

IdleCall == [phase |-> "idle", subject |-> NoItem, key |-> NoItem,
             replay |-> FALSE, n |-> 0, outcome |-> "none", answer |-> "none"]

\* n is 0 for a second copy of a POST, whose answer nobody reads.
Request == [subject : Subjects, key : Keys, n : Nat,
            answer : {"none", "admitted", "rejected"}]

Coordinator == setting.path = "coordinator"

ItemOf(x) == [subject |-> x.subject, key |-> x.key]

Goto(c, phase) == calls' = [calls EXCEPT ![c].phase = phase]

Closing(c, phase, outcome) ==
    calls' = [calls EXCEPT ![c].phase = phase, ![c].outcome = outcome]

\* The call returns an outcome of its delivery, or an error without one.
Answer(c, answer) ==
    calls' = [calls EXCEPT ![c] = [IdleCall EXCEPT
        !.subject = calls[c].subject, !.key = calls[c].key, !.answer = answer]]

Refuse(c, code) == calls' = [calls EXCEPT ![c] = [IdleCall EXCEPT !.answer = code]]

-----------------------------------------------------------------------------
(* Core: reserving the attempt.                                            *)

\* The coordinator reserves the key with the subject; the composition's key is
\* part of its request, and its table is keyed by the attempt only.
Held(s, k) == {r \in reservations : r.subject = s \/ (Coordinator /\ r.key = k)}

Started(c, s, k, phase, replay) ==
    calls' = [calls EXCEPT ![c] = [IdleCall EXCEPT
        !.phase = phase, !.subject = s, !.key = k, !.replay = replay]]

(* create looks for a reservation of this delivery, and if there is none   *)
(* reads the evidence and its freshness.  compose_once reserves at once.   *)
Create(c, s, k) ==
    /\ calls[c].phase = "idle"
    /\ LET held == Held(s, k)
           exact == held = {[subject |-> s, key |-> k]}
       IN  \/ ~Coordinator /\ Started(c, s, k, "reserving", FALSE)
           \/ Coordinator /\ exact /\ Started(c, s, k, "stored", TRUE)
           \/ Coordinator /\ held # {} /\ ~exact /\ Refuse(c, "conflict")
           \/ Coordinator /\ held = {} /\ expired /\ Refuse(c, "refused")
           \/ Coordinator /\ held = {} /\ ~expired /\ Started(c, s, k, "reserving", FALSE)
    /\ UNCHANGED <<setting, expired, reservations, receipts, verified, requests,
                   agentVars, posted>>

\* v0.31 counts its attempts, v0.33 its receipts.
CoreQuotaLeft ==
    Cardinality(IF Coordinator THEN reservations ELSE verified) < setting.coreQuota

(* The reserving transaction.  An attempt of v0.31 has a fresh identifier, *)
(* so whoever comes second, even with the same request, conflicts.  v0.33  *)
(* answers an exact duplicate with the receipt, and says that a            *)
(* reservation without one is unavailable.                                 *)
Reserve(c) ==
    /\ calls[c].phase = "reserving"
    /\ LET item == ItemOf(calls[c])
           held == Held(item.subject, item.key)
       IN  \/ /\ held = {} /\ CoreQuotaLeft
              /\ reservations' = reservations \cup {item}
              /\ Goto(c, "stored")
           \/ /\ held = {} /\ ~CoreQuotaLeft
              /\ Refuse(c, "quota_exceeded")
              /\ UNCHANGED reservations
           \/ /\ held # {} /\ (Coordinator \/ held # {item})
              /\ Refuse(c, "conflict")
              /\ UNCHANGED reservations
           \/ /\ ~Coordinator /\ held = {item}
              /\ IF item.subject \in verified THEN Answer(c, "verified")
                 ELSE Refuse(c, "unavailable")
              /\ UNCHANGED reservations
    /\ UNCHANGED <<setting, expired, receipts, verified, requests, agentVars, posted>>

-----------------------------------------------------------------------------
(* Core: the POST and its answer.                                          *)

\* Mutant: an attempt without a receipt is sent again.
StoredOrSent(c) ==
    /\ calls[c].phase = "stored"
    /\ IF receipts[calls[c].subject] # "none"
       THEN Answer(c, receipts[calls[c].subject])
       ELSE Goto(c, "posting")
    /\ UNCHANGED <<setting, expired, reservations, receipts, verified, requests,
                   agentVars, posted>>

(* send_once reads the attempt again: a receipt is the answer; an attempt  *)
(* that somebody else reserved and nobody closed is closed as ambiguous,   *)
(* whether or not that call still runs.  compose_once checks freshness.    *)
Stored(c) ==
    /\ calls[c].phase = "stored"
    /\ LET receipt == receipts[calls[c].subject]
       IN  \/ Coordinator /\ receipt # "none" /\ Answer(c, receipt)
           \/ /\ Coordinator /\ receipt = "none" /\ calls[c].replay
              /\ Closing(c, "closing", "ambiguous")
           \/ Coordinator /\ receipt = "none" /\ ~calls[c].replay /\ Goto(c, "posting")
           \/ ~Coordinator /\ expired /\ Refuse(c, "refused")
           \/ ~Coordinator /\ ~expired /\ Goto(c, "posting")
    /\ UNCHANGED <<setting, expired, reservations, receipts, verified, requests,
                   agentVars, posted>>

TransmitOnce(c) ==
    /\ calls[c].phase = "posting"
    /\ LET s == calls[c].subject
           n == posted[s] + 1
       IN  /\ posted' = [posted EXCEPT ![s] = n]
           /\ requests' = requests \cup
                {[subject |-> s, key |-> calls[c].key, n |-> n, answer |-> "none"]}
           /\ calls' = [calls EXCEPT ![c].phase = "waiting", ![c].n = n]
    /\ UNCHANGED <<setting, expired, reservations, receipts, verified, agentVars>>

IsOf(r, c) == r.subject = calls[c].subject /\ r.n = calls[c].n

(* A valid answer with a 2xx status.  (Other answers below 500 come from   *)
(* an Agent that did not handle the request, and count as a rejection.)    *)
Receive(c) ==
    /\ calls[c].phase = "waiting"
    /\ \E r \in requests :
         /\ IsOf(r, c) /\ r.answer # "none"
         /\ requests' = requests \ {r}
         /\ \/ Coordinator /\ Closing(c, "closing", r.answer)
            \/ ~Coordinator /\ r.answer = "admitted" /\ Goto(c, "recording")
            \/ ~Coordinator /\ r.answer = "rejected" /\ Answer(c, "rejected")
    /\ UNCHANGED <<setting, expired, reservations, receipts, verified, agentVars,
                   posted>>

Abandon(c) == requests' = {r \in requests : IsOf(r, c) => r.answer = "none"}

\* Mutant: a request that was not answered is taken for one that was refused.
RejectUncertain(c) ==
    /\ calls[c].phase = "waiting"
    /\ IF Coordinator THEN Closing(c, "closing", "rejected") ELSE Answer(c, "rejected")
    /\ Abandon(c)
    /\ UNCHANGED <<setting, expired, reservations, receipts, verified, agentVars,
                   posted>>

(* A timeout, a broken connection, a 5xx, or an answer that is not valid.  *)
(* The request itself may still be on its way.                             *)
Uncertain(c) ==
    /\ calls[c].phase = "waiting"
    /\ IF Coordinator THEN Goto(c, "failed") ELSE Refuse(c, "ambiguous")
    /\ Abandon(c)
    /\ UNCHANGED <<setting, expired, reservations, receipts, verified, agentVars,
                   posted>>

-----------------------------------------------------------------------------
(* Core: closing the attempt.                                              *)

\* Mutant: a definite outcome may replace an ambiguous one.
MayCloseAgain(s) == receipts[s] \in {"none", "ambiguous"}

\* append_outcome writes the receipt of an attempt that has none.
MayClose(s) == receipts[s] = "none"

(* append_outcome.  A receipt that is there is left alone: another one     *)
(* conflicts with it, and after a conflict the stored one is the answer.   *)
AppendOutcome(c) ==
    /\ calls[c].phase \in {"closing", "closing_failure"}
    /\ LET s == calls[c].subject
       IN  \/ /\ MayClose(s)
              /\ receipts' = [receipts EXCEPT ![s] = calls[c].outcome]
              /\ Answer(c, calls[c].outcome)
           \/ /\ ~MayClose(s)
              /\ \/ receipts[s] = calls[c].outcome /\ Answer(c, receipts[s])
                 \/ calls[c].phase = "closing" /\ Goto(c, "failed")
                 \/ calls[c].phase = "closing_failure" /\ Refuse(c, "unavailable")
              /\ UNCHANGED receipts
    /\ UNCHANGED <<setting, expired, reservations, verified, requests, agentVars,
                   posted>>

CloseAfterFailure(c) ==
    /\ calls[c].phase = "failed"
    /\ LET receipt == receipts[calls[c].subject]
       IN  IF receipt # "none" THEN Answer(c, receipt)
           ELSE Closing(c, "closing_failure", "ambiguous")
    /\ UNCHANGED <<setting, expired, reservations, receipts, verified, requests,
                   agentVars, posted>>

(* v0.33: the receipt writer appends the attempt's v0.31 receipt.          *)
RecordAdmitted(c) ==
    /\ calls[c].phase = "recording"
    /\ LET s == calls[c].subject
       IN  \/ /\ receipts[s] = "none"
              /\ receipts' = [receipts EXCEPT ![s] = "admitted"]
              /\ Goto(c, "verifying")
           \/ receipts[s] # "none" /\ Refuse(c, "ambiguous") /\ UNCHANGED receipts
    /\ UNCHANGED <<setting, expired, reservations, verified, requests, agentVars,
                   posted>>

\* The v0.33 receipt is appended while the evidence is fresh, or not at all.
AppendReceipt(c) ==
    /\ calls[c].phase = "verifying"
    /\ \/ expired /\ Refuse(c, "refused") /\ UNCHANGED verified
       \/ /\ ~expired
          /\ verified' = verified \cup {calls[c].subject}
          /\ Answer(c, "verified")
    /\ UNCHANGED <<setting, expired, reservations, receipts, requests, agentVars,
                   posted>>

(* A store, reader, credential or clock error.  Once an attempt is         *)
(* reserved, send_once tries to close it as ambiguous.                     *)
Fail(c) ==
    /\ \/ /\ calls[c].phase \in {"reserving", "failed", "closing_failure"}
          /\ Refuse(c, "unavailable")
       \/ /\ Coordinator /\ calls[c].phase \in {"stored", "posting", "closing"}
          /\ Goto(c, "failed")
       \/ /\ ~Coordinator /\ calls[c].phase \in {"stored", "posting", "verifying"}
          /\ Refuse(c, "unavailable")
       \/ calls[c].phase = "recording" /\ Refuse(c, "ambiguous")
    /\ UNCHANGED <<setting, expired, reservations, receipts, verified, requests,
                   agentVars, posted>>

-----------------------------------------------------------------------------
(* The Agent: one POST, handled in one go.                                 *)

\* The answer travels back if a call still waits for it.
Reply(r, answer) ==
    requests' = (requests \ {r}) \cup
        (IF \E c \in Calls : calls[c].phase = "waiting" /\ IsOf(r, c)
         THEN {[r EXCEPT !.answer = answer]} ELSE {})

KeyHolders(r) == {x \in agentKeys : x.key = r.key}

\* Neither the key nor anything of the subject has been used before.
Unused(r) == KeyHolders(r) = {} /\ \A a \in admissions : a.subject # r.subject

AgentQuotaLeft == Cardinality(admissions) < setting.agentQuota

Admit(r) ==
    /\ r.answer = "none"
    /\ Unused(r) /\ ~expired /\ AgentQuotaLeft
    /\ agentKeys' = agentKeys \cup {ItemOf(r)}
    /\ admissions' = admissions \cup {ItemOf(r)}
    /\ Reply(r, "admitted")
    /\ UNCHANGED <<setting, expired, coreVars, posted>>

\* The same request under the same key gets the stored result.
ReplayAdmission(r) ==
    /\ r.answer = "none"
    /\ KeyHolders(r) = {ItemOf(r)} /\ ItemOf(r) \in admissions
    /\ Reply(r, "admitted")
    /\ UNCHANGED <<setting, expired, coreVars, agentVars, posted>>

\* v0.32 keeps the key of a request that its quota refused; v0.27 does not.
ReserveKeyOnly(r) ==
    /\ ~Coordinator
    /\ r.answer = "none"
    /\ Unused(r) /\ ~expired /\ ~AgentQuotaLeft
    /\ agentKeys' = agentKeys \cup {ItemOf(r)}
    /\ Reply(r, "rejected")
    /\ UNCHANGED <<setting, expired, coreVars, admissions, posted>>

(* Anything else is rejected and nothing stored: not authenticated, not    *)
(* current, another use of the key or the subject, a store error.          *)
RejectIntake(r) ==
    /\ r.answer = "none"
    /\ Reply(r, "rejected")
    /\ UNCHANGED <<setting, expired, coreVars, agentVars, posted>>

-----------------------------------------------------------------------------
(* The network, the clock and crashes.                                     *)

\* The POST or its answer is lost, or the Agent stops while it handles it.
LoseRequest(r) ==
    /\ requests' = requests \ {r}
    /\ UNCHANGED <<setting, expired, coreVars, agentVars, posted>>

\* Something between the two sends the POST again.
DeliverTwice(r) ==
    /\ setting.twice /\ r.answer = "none"
    /\ requests' = requests \cup {[r EXCEPT !.n = 0]}
    /\ UNCHANGED <<setting, expired, coreVars, agentVars, posted>>

CoreCrash ==
    /\ calls # [c \in Calls |-> IdleCall]
    /\ calls' = [c \in Calls |-> IdleCall]
    /\ requests' = {r \in requests : r.answer = "none"}
    /\ UNCHANGED <<setting, expired, reservations, receipts, verified, agentVars,
                   posted>>

Expire ==
    /\ ~expired /\ expired' = TRUE
    /\ UNCHANGED <<setting, coreVars, requests, agentVars, posted>>

Init ==
    /\ setting \in Settings
    /\ expired = FALSE
    /\ reservations = {} /\ verified = {} /\ requests = {}
    /\ receipts = [s \in Subjects |-> "none"]
    /\ calls = [c \in Calls |-> IdleCall]
    /\ agentKeys = {} /\ admissions = {}
    /\ posted = [s \in Subjects |-> 0]

CoreStep(c) ==
    \/ \E s \in Subjects, k \in Keys : Create(c, s, k)
    \/ Reserve(c) \/ Stored(c) \/ TransmitOnce(c) \/ Receive(c) \/ Uncertain(c)
    \/ AppendOutcome(c) \/ CloseAfterFailure(c)
    \/ RecordAdmitted(c) \/ AppendReceipt(c)
    \/ Fail(c)

Next ==
    \/ \E c \in Calls : CoreStep(c)
    \/ \E r \in requests :
          \/ Admit(r) \/ ReplayAdmission(r) \/ ReserveKeyOnly(r) \/ RejectIntake(r)
          \/ LoseRequest(r) \/ DeliverTwice(r)
    \/ CoreCrash
    \/ Expire

Spec == Init /\ [][Next]_vars

-----------------------------------------------------------------------------
(* Properties.                                                             *)

TypeOK ==
    /\ setting \in Settings
    /\ expired \in BOOLEAN
    /\ reservations \subseteq Item /\ agentKeys \subseteq Item /\ admissions \subseteq Item
    /\ receipts \in [Subjects -> Lifecycle]
    /\ verified \subseteq Subjects
    /\ calls \in [Calls -> Call]
    /\ requests \subseteq Request
    /\ posted \in [Subjects -> Nat]

\* However many calls ask for a delivery, under whichever keys, and whatever
\* crashes or is lost, Core offers it to the transport at most once, and only
\* when its reservation is on disk.
SentAtMostOnce ==
    \A s \in Subjects :
        /\ posted[s] <= 1
        /\ posted[s] > 0 => \E r \in reservations : r.subject = s

\* The Agent admits a delivery at most once, and a key for one delivery only,
\* also when the network repeats a POST.
AdmittedOnce ==
    \A a, b \in admissions : a.subject = b.subject \/ a.key = b.key => a = b

Answered(s, answer) ==
    \E c \in Calls : calls[c].answer = answer /\ calls[c].subject = s

\* Core records, or tells a caller, an admission only if the Agent has it on
\* disk, and a rejection only if the Agent has not admitted the delivery and,
\* with nothing left of it on the way, never will.  What a caller of the
\* coordinator is told is the receipt on record.
OutcomeIsTrue ==
    \A s \in Subjects :
        /\ receipts[s] = "admitted" => \E a \in admissions : a.subject = s
        /\ (receipts[s] = "rejected" \/ Answered(s, "rejected")) /\ ~setting.twice =>
               /\ \A a \in admissions : a.subject # s
               /\ \A r \in requests : r.subject # s
        /\ s \in verified \/ Answered(s, "verified") =>
               s \in verified /\ receipts[s] = "admitted"
        /\ Coordinator =>
               \A l \in Lifecycle \ {"none"} : Answered(s, l) => receipts[s] = l

\* What Core and the Agent have on record of their deliveries agrees.
DeliverySound ==
    /\ TypeOK
    /\ AdmittedOnce
    /\ OutcomeIsTrue

\* A reservation, a receipt and an admission are for ever; a late answer never
\* changes an attempt that a duplicate call or a failure closed as ambiguous.
OutcomeFinal ==
    [][/\ reservations \subseteq reservations' /\ verified \subseteq verified'
       /\ agentKeys \subseteq agentKeys' /\ admissions \subseteq admissions'
       /\ \A s \in Subjects : receipts[s] # "none" => receipts'[s] = receipts[s]]_vars
=============================================================================
