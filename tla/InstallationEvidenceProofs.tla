---------------------- MODULE InstallationEvidenceProofs ----------------------
(***************************************************************************)
(* Safety of both halves of the installation chain: of the one-shot        *)
(* boundaries, for every set of calls, keys and predecessors, every quota  *)
(* and expiry and every one of the boundaries that Protocol tabulates; and *)
(* of the append-only stores, for every part of the chain, every quota and *)
(* set of references and any number of calls and keys.                     *)
(***************************************************************************)
EXTENDS InstallationEvidence, FiniteSetTheorems, WellFoundedInduction, TLAPS

-----------------------------------------------------------------------------
(* What the two tables, the adapter's count and the calls say together.    *)

Call == [phase : Phases, item : Item, answer : Answers]

\* A call that is past the first transaction is about a reserved subject.
PastReservation(k) ==
    k.phase \in {"effect", "recording"} =>
        \E v \in reservations :
           v.parent = k.item.parent /\ v.key = k.item.key /\ v.at <= k.item.at

\* What a success was about is on record.
SuccessOnRecord(k) ==
    k.answer = "success" =>
        \E r \in records : r.parent = k.item.parent /\ r.key = k.item.key

\* The calls that began with a key before it was reserved and may yet ask the
\* adapter for its subject.
Asking(v) == {c \in Calls : /\ calls[c].phase \in {"reading", "reserving", "effect"}
                            /\ calls[c].item.parent = v.parent
                            /\ calls[c].item.key = v.key}

\* Each call asks once, and none begins for what is reserved.
AskedOnce ==
    /\ \A p \in Parents : (\A v \in reservations : v.parent # p) => effects[p] = 0
    /\ \A v \in reservations :
          effects[v.parent] + Cardinality(Asking(v)) <= Cardinality(Calls)

Inv ==
    /\ TypeOK
    /\ RecordFulfilsReservation
    /\ IsFiniteSet(reservations) /\ QuotaHolds
    /\ \A c \in Calls : PastReservation(calls[c])
    /\ \A c \in Calls : SuccessOnRecord(calls[c])
    /\ AskedOnce

-----------------------------------------------------------------------------
(* Lemmas about the table of protocols and about a step of one call.       *)

\* Only the boundary with an adapter takes up a reservation without a record,
\* and only one that was made in the same second.
LEMMA ProtocolFacts ==
    ASSUME stage \in Studied
    PROVE  /\ ~ P.orphanStops => P.effect
           /\ P.effect => P.exactSecond
<1>1. stage \in DOMAIN Protocol
  BY BoundaryAssumption
<1>2. P \in {EnqueueProtocol, ObservationProtocol, DequeueAdmissionProtocol,
             DequeueProtocol, BindingProtocol, PreflightProtocol,
             ActivationEvidenceProtocol, ClaimProtocol, LeasePrerequisiteProtocol,
             LeaseAdmissionProtocol, AcknowledgementProtocol,
             RuntimePrerequisiteProtocol, RuntimeAdmissionProtocol,
             RuntimePlanProtocol, PlanReviewProtocol, InterfaceProtocol,
             DefinitionProtocol}
  BY <1>1 DEF P, Protocol
<1>3. \A x \in {EnqueueProtocol, ObservationProtocol, DequeueAdmissionProtocol,
                DequeueProtocol, BindingProtocol, PreflightProtocol} :
         (~ x.orphanStops => x.effect) /\ (x.effect => x.exactSecond)
  BY DEF EnqueueProtocol, ObservationProtocol, DequeueAdmissionProtocol,
     DequeueProtocol, BindingProtocol, PreflightProtocol
<1>4. \A x \in {ActivationEvidenceProtocol, ClaimProtocol, LeasePrerequisiteProtocol,
                LeaseAdmissionProtocol, AcknowledgementProtocol,
                RuntimePrerequisiteProtocol} :
         (~ x.orphanStops => x.effect) /\ (x.effect => x.exactSecond)
  BY DEF ActivationEvidenceProtocol, ClaimProtocol, LeasePrerequisiteProtocol,
     LeaseAdmissionProtocol, AcknowledgementProtocol, RuntimePrerequisiteProtocol
<1>5. \A x \in {RuntimeAdmissionProtocol, RuntimePlanProtocol, PlanReviewProtocol,
                InterfaceProtocol, DefinitionProtocol} :
         (~ x.orphanStops => x.effect) /\ (x.effect => x.exactSecond)
  BY DEF RuntimeAdmissionProtocol, RuntimePlanProtocol, PlanReviewProtocol,
     InterfaceProtocol, DefinitionProtocol
<1> QED
  BY <1>2, <1>3, <1>4, <1>5

\* A call that rests is one the code can have.
LEMMA IdleTyped ==
    /\ IdleCall \in Call /\ IdleCall.phase = "idle" /\ IdleCall.answer = "none"
    /\ NoItem \in Item
<1>1. (CHOOSE p \in Parents : TRUE) \in Parents /\ (CHOOSE k \in Keys : TRUE) \in Keys
      /\ 0 \in Times
  BY BoundaryAssumption DEF Times
<1>2. NoItem \in Item
  BY <1>1 DEF NoItem, Item
<1> QED
  BY <1>2 DEF IdleCall, Call, Phases, Answers

\* Only the phase of a call changes.
LEMMA GoesTo ==
    ASSUME TypeOK, NEW c \in Calls, NEW phase \in Phases,
           GoOn(c, phase)
    PROVE  \E k \in Call : /\ calls' = [calls EXCEPT ![c] = k]
                           /\ k.phase = phase
                           /\ k.item = calls[c].item /\ k.answer = calls[c].answer
<1>1. calls \in [Calls -> Call] /\ calls[c] \in Call
  BY DEF TypeOK, Call
<1> DEFINE k == [calls[c] EXCEPT !.phase = phase]
<1>2. /\ k \in Call /\ k.phase = phase
      /\ k.item = calls[c].item /\ k.answer = calls[c].answer
  BY <1>1 DEF Call
<1>3. calls' = [calls EXCEPT ![c] = k]
  BY <1>1 DEF GoOn
<1> HIDE DEF k
<1> QED
  BY <1>2, <1>3

\* A call is answered and remembers what it was about.
LEMMA AnsweredWith ==
    ASSUME TypeOK, NEW c \in Calls, NEW code \in Answers, Answer(c, code)
    PROVE  \E k \in Call : /\ calls' = [calls EXCEPT ![c] = k]
                           /\ k.phase = "idle" /\ k.answer = code
                           /\ k.item = calls[c].item
<1>1. calls \in [Calls -> Call] /\ calls[c] \in Call /\ "idle" \in Phases
  BY DEF TypeOK, Call, Phases
<1> DEFINE k == [calls[c] EXCEPT !.phase = "idle", !.answer = code]
<1>2. k \in Call /\ k.phase = "idle" /\ k.answer = code /\ k.item = calls[c].item
  BY <1>1 DEF Call
<1>3. calls' = [calls EXCEPT ![c] = k]
  BY <1>1 DEF Answer
<1> HIDE DEF k
<1> QED
  BY <1>2, <1>3

\* A call is refused and forgets what it was about.
LEMMA RefusedWith ==
    ASSUME TypeOK, NEW c \in Calls, NEW code \in Answers, Refuse(c, code)
    PROVE  \E k \in Call : /\ calls' = [calls EXCEPT ![c] = k]
                           /\ k.phase = "idle" /\ k.answer = code
<1> DEFINE k == [IdleCall EXCEPT !.answer = code]
<1>1. k \in Call /\ k.phase = "idle" /\ k.answer = code
  BY IdleTyped DEF Call
<1>2. calls' = [calls EXCEPT ![c] = k]
  BY DEF Refuse
<1> HIDE DEF k
<1> QED
  BY <1>1, <1>2

\* A call moves on or is answered; the reservations and the adapter's count
\* stay, and records are only added.  It may come to ask the adapter only if
\* it could before, or its key is not reserved.
LEMMA CallInv ==
    ASSUME Inv, NEW c \in Calls, NEW k \in Call, calls' = [calls EXCEPT ![c] = k],
           UNCHANGED <<stage, clock, reservations, effects>>,
           records \subseteq records', records' \subseteq Item,
           failures' \subseteq Parents,
           RecordFulfilsReservation',
           PastReservation(k), SuccessOnRecord(k)',
           k.phase \in {"reading", "reserving", "effect"} =>
              \/ /\ calls[c].phase \in {"reading", "reserving", "effect"}
                 /\ k.item.parent = calls[c].item.parent
                 /\ k.item.key = calls[c].item.key
              \/ \A v \in reservations : v.key # k.item.key
    PROVE  Inv'
<1>1. /\ calls \in [Calls -> Call] /\ calls' \in [Calls -> Call] /\ calls'[c] = k
      /\ \A d \in Calls \ {c} : calls'[d] = calls[d]
      /\ TypeOK
  BY DEF Inv, TypeOK, Call
<1>2. TypeOK'
  BY <1>1 DEF TypeOK, Call
<1>3. IsFiniteSet(reservations)' /\ QuotaHolds'
  BY DEF Inv, QuotaHolds
<1>4. ASSUME NEW d \in Calls PROVE PastReservation(calls[d])' /\ SuccessOnRecord(calls[d])'
  <2>1. CASE d = c
    BY <1>1, <2>1 DEF PastReservation
  <2>2. CASE d # c
    BY <1>1, <2>2 DEF Inv, PastReservation, SuccessOnRecord
  <2> QED
    BY <2>1, <2>2
<1>5. ASSUME NEW v \in reservations PROVE Asking(v)' \subseteq Asking(v)
  BY <1>1 DEF Asking
<1>6. ASSUME NEW v \in reservations
      PROVE  effects[v.parent] + Cardinality(Asking(v)') <= Cardinality(Calls)
  <2>1. IsFiniteSet(Asking(v)) /\ IsFiniteSet(Calls)
    BY BoundaryAssumption, FS_Subset DEF Asking
  <2>2. Cardinality(Asking(v)') <= Cardinality(Asking(v))
    BY <1>5, <2>1, FS_Subset
  <2>3. /\ Cardinality(Asking(v)) \in Nat /\ Cardinality(Asking(v)') \in Nat
        /\ Cardinality(Calls) \in Nat
    BY <1>5, <2>1, FS_Subset, FS_CardinalityType
  <2>4. effects[v.parent] \in Nat
    BY <1>1 DEF TypeOK, Item
  <2>5. effects[v.parent] + Cardinality(Asking(v)) <= Cardinality(Calls)
    BY DEF Inv, AskedOnce
  <2> QED
    BY <2>2, <2>3, <2>4, <2>5
<1>7. AskedOnce'
  BY <1>6 DEF Inv, AskedOnce
<1> QED
  BY <1>2, <1>3, <1>4, <1>7 DEF Inv

-----------------------------------------------------------------------------
(* The steps.                                                              *)

\* What is reserved and on record is reserved under the key of the record.
LEMMA RecordHasKey ==
    ASSUME Inv, NEW v \in reservations, RecordOf(v.parent) # {}
    PROVE  \E r \in records : r.parent = v.parent /\ r.key = v.key
<1>1. PICK r \in records : r.parent = v.parent
  BY DEF RecordOf
<1>2. PICK w \in reservations : w.parent = r.parent /\ w.key = r.key
  BY DEF Inv, RecordFulfilsReservation
<1>3. w = v
  BY <1>1, <1>2 DEF Inv, RecordFulfilsReservation
<1> QED
  BY <1>1, <1>2, <1>3

\* A request begins only if its key is not reserved, and is told it succeeded
\* only if its record is there.
LEMMA BeginInv ==
    ASSUME Inv, NEW c \in Calls, NEW k \in Keys, NEW p \in Parents, Begin(c, k, p)
    PROVE  Inv'
<1> DEFINE item == [parent |-> p, key |-> k, at |-> ReceivedAt]
<1>1. /\ item \in Item /\ item.parent = p /\ item.key = k
      /\ UNCHANGED <<stage, clock, reservations, records, failures, effects>>
  BY BoundaryAssumption DEF Item, ReceivedAt, Begin, Inv, TypeOK, Times
<1>2. ASSUME NEW phase \in {"idle", "reading"},
             NEW code \in {"none", "conflict", "indeterminate", "success"},
             calls' = [calls EXCEPT ![c] = [phase |-> phase, item |-> item, answer |-> code]],
             phase = "reading" => \A v \in reservations : v.key # k,
             code = "success" => \E r \in records : r.parent = p /\ r.key = k
      PROVE  Inv'
  <2> DEFINE n == [phase |-> phase, item |-> item, answer |-> code]
  <2>1. n \in Call /\ n.phase = phase /\ n.item = item /\ n.answer = code
    BY <1>1 DEF Call, Phases, Answers
  <2>2. calls' = [calls EXCEPT ![c] = n]
    BY <1>2
  <2> HIDE DEF item
  <2>3. PICK m \in Call : /\ m.phase = phase /\ m.item = item /\ m.answer = code
                          /\ calls' = [calls EXCEPT ![c] = m]
    BY <2>1, <2>2
  <2>4. RecordFulfilsReservation' /\ PastReservation(m) /\ SuccessOnRecord(m)'
    BY <1>1, <1>2, <2>3 DEF Inv, RecordFulfilsReservation, PastReservation,
       SuccessOnRecord
  <2>5. records' \subseteq Item /\ records \subseteq records' /\ failures' \subseteq Parents
    BY <1>1 DEF Inv, TypeOK
  <2>6. m.phase \in {"reading", "reserving", "effect"} =>
           \A v \in reservations : v.key # m.item.key
    BY <1>1, <1>2, <2>3
  <2> QED
    BY <1>1, <2>3, <2>4, <2>5, <2>6, CallInv
<1>3. \/ /\ \A v \in reservations : v.key # k
         /\ calls' = [calls EXCEPT ![c] =
               [phase |-> "reading", item |-> item, answer |-> "none"]]
      \/ calls' = [calls EXCEPT ![c] =
               [phase |-> "idle", item |-> item, answer |-> "conflict"]]
      \/ calls' = [calls EXCEPT ![c] =
               [phase |-> "idle", item |-> item, answer |-> "indeterminate"]]
      \/ /\ \E v \in reservations : v.key = k /\ v.parent = p /\ RecordOf(p) # {}
         /\ calls' = [calls EXCEPT ![c] =
               [phase |-> "idle", item |-> item, answer |-> "success"]]
  BY DEF Begin
<1> HIDE DEF item
<1> QED
  BY <1>2, <1>3, RecordHasKey

\* The predecessor is read, or the request refused.
LEMMA ReadInv ==
    ASSUME Inv, NEW c \in Calls, Read(c)
    PROVE  Inv'
<1>1. /\ UNCHANGED <<stage, clock, reservations, records, failures, effects>>
      /\ records' \subseteq Item /\ failures' \subseteq Parents
      /\ RecordFulfilsReservation' /\ TypeOK
      /\ calls[c] \in Call /\ calls[c].phase = "reading"
      /\ calls[c].item \in Item /\ clock \in Times /\ SuccessOnRecord(calls[c])
  BY DEF Read, Inv, TypeOK, RecordFulfilsReservation, Call
<1>2. CASE Refuse(c, "refused")
  <2>1. PICK k \in Call : /\ calls' = [calls EXCEPT ![c] = k]
                          /\ k.phase = "idle" /\ k.answer = "refused"
    BY <1>1, <1>2, RefusedWith DEF Answers
  <2>2. PastReservation(k) /\ SuccessOnRecord(k)'
    BY <2>1 DEF PastReservation, SuccessOnRecord
  <2> QED
    BY <1>1, <2>1, <2>2, CallInv
<1>3. ASSUME NEW at \in Times,
             calls' = [calls EXCEPT ![c].phase = "reserving", ![c].item.at = at]
      PROVE  Inv'
  <2> DEFINE i == [calls[c].item EXCEPT !.at = at]
             n == [calls[c] EXCEPT !.phase = "reserving", !.item = i]
  <2>1. i \in Item /\ i.parent = calls[c].item.parent /\ i.key = calls[c].item.key
    BY <1>1, <1>3 DEF Item
  <2> HIDE DEF i
  <2>2. n \in Call /\ n.phase = "reserving" /\ n.item = i /\ n.answer = calls[c].answer
    BY <1>1, <2>1 DEF Call, Phases
  <2>3. calls' = [calls EXCEPT ![c] = n]
    BY <1>1, <1>3 DEF i, Inv, TypeOK
  <2> HIDE DEF n
  <2>4. PICK k \in Call : /\ calls' = [calls EXCEPT ![c] = k] /\ k.phase = "reserving"
                          /\ k.item = i /\ k.answer = calls[c].answer
    BY <2>2, <2>3
  <2>5. PastReservation(k)
    BY <2>4 DEF PastReservation
  <2>6. SuccessOnRecord(k)'
    BY <1>1, <2>1, <2>4 DEF SuccessOnRecord
  <2> QED
    BY <1>1, <2>1, <2>4, <2>5, <2>6, CallInv
<1> QED
  <2> DEFINE seen == IF P.clockFirst THEN calls[c].item.at ELSE clock
  <2>1. seen \in Times
    BY <1>1 DEF Item
  <2>2. \/ Refuse(c, "refused")
        \/ calls' = [calls EXCEPT ![c].phase = "reserving", ![c].item.at = seen]
    BY DEF Read
  <2> HIDE DEF seen
  <2>3. PICK at \in Times : at = seen
    BY <2>1
  <2> QED
    BY <1>2, <1>3, <2>2, <2>3

\* A first reservation is of a free subject and key; a found one lets only a
\* request go on that is the same.
LEMMA ReserveInv ==
    ASSUME Inv, NEW c \in Calls, Reserve(c)
    PROVE  Inv'
<1> DEFINE item == calls[c].item
           held == Clashes(item)
<1>1. /\ calls[c].phase = "reserving" /\ TypeOK /\ calls[c] \in Call
      /\ UNCHANGED <<stage, clock, records, failures, effects>>
      /\ records' \subseteq Item /\ failures' \subseteq Parents
      /\ item \in Item /\ stage \in Studied
      /\ calls \in [Calls -> Call] /\ SuccessOnRecord(calls[c])
  BY DEF Reserve, Inv, TypeOK, Call
<1>2. PICK onward \in Phases : /\ onward = IF P.effect THEN "effect" ELSE "recording"
                               /\ onward \in {"effect", "recording"}
  BY DEF Phases
\* The answers.
<1>3. ASSUME NEW code \in {"quota_exceeded", "refused"}, Refuse(c, code),
             UNCHANGED reservations
      PROVE  Inv'
  <2>1. PICK k \in Call : /\ calls' = [calls EXCEPT ![c] = k]
                          /\ k.phase = "idle" /\ k.answer = code
    BY <1>1, <1>3, RefusedWith DEF Answers
  <2>2. PastReservation(k) /\ SuccessOnRecord(k)' /\ RecordFulfilsReservation'
    BY <1>1, <1>3, <2>1
       DEF PastReservation, SuccessOnRecord, Inv, RecordFulfilsReservation
  <2> QED
    BY <1>1, <1>3, <2>1, <2>2, CallInv
<1>4. ASSUME NEW code \in {"conflict", "success", "indeterminate"}, Answer(c, code),
             UNCHANGED reservations,
             code = "success" =>
                \E r \in records : r.parent = item.parent /\ r.key = item.key
      PROVE  Inv'
  <2>1. PICK k \in Call : /\ calls' = [calls EXCEPT ![c] = k]
                          /\ k.phase = "idle" /\ k.answer = code /\ k.item = item
    BY <1>1, <1>4, AnsweredWith DEF Answers
  <2>2. PastReservation(k) /\ SuccessOnRecord(k)' /\ RecordFulfilsReservation'
    BY <1>1, <1>4, <2>1
       DEF PastReservation, SuccessOnRecord, Inv, RecordFulfilsReservation
  <2> QED
    BY <1>1, <1>4, <2>1, <2>2, CallInv
\* A request that takes up what it finds.
<1>5. ASSUME NEW v \in reservations, v.parent = item.parent, v.key = item.key,
             v.at <= item.at, UNCHANGED reservations,
             GoOn(c, onward)
      PROVE  Inv'
  <2>1. PICK k \in Call : /\ calls' = [calls EXCEPT ![c] = k] /\ k.phase = onward
                          /\ k.item = item /\ k.answer = calls[c].answer
    BY <1>1, <1>2, <1>5, GoesTo
  <2>2. PastReservation(k) /\ SuccessOnRecord(k)' /\ RecordFulfilsReservation'
    BY <1>1, <1>5, <2>1
       DEF PastReservation, SuccessOnRecord, Inv, RecordFulfilsReservation
  <2> QED
    BY <1>1, <1>5, <2>1, <2>2, CallInv
\* A new reservation.
<1>6. ASSUME held = {}, QuotaLeft, reservations' = reservations \cup {item},
             GoOn(c, onward)
      PROVE  Inv'
  <2>1. PICK k \in Call : /\ calls' = [calls EXCEPT ![c] = k] /\ k.phase = onward
                          /\ k.item = item /\ k.answer = calls[c].answer
    BY <1>1, <1>2, <1>6, GoesTo
  <2>2. /\ calls' \in [Calls -> Call] /\ calls'[c] = k
        /\ \A d \in Calls \ {c} : calls'[d] = calls[d]
    BY <1>1, <2>1
  <2>3. \A v \in reservations : v.key # item.key /\ v.parent # item.parent
    BY <1>6 DEF Clashes
  <2>4. TypeOK'
    BY <1>1, <1>6, <2>2 DEF TypeOK, Call
  <2>5. RecordFulfilsReservation'
    BY <1>1, <1>6, <2>3 DEF Inv, RecordFulfilsReservation
  <2>6. IsFiniteSet(reservations)' /\ QuotaHolds'
    <3>1. IsFiniteSet(reservations)
      BY DEF Inv
    <3>2. /\ IsFiniteSet(reservations')
          /\ Cardinality(reservations') \in {Cardinality(reservations),
                                             Cardinality(reservations) + 1}
      BY <1>6, <3>1, FS_AddElement
    <3>3. Cardinality(reservations) \in Nat /\ Quota[stage] \in Nat
      BY <1>1, <3>1, FS_CardinalityType, BoundaryAssumption
    <3> QED
      BY <1>1, <1>6, <3>2, <3>3 DEF QuotaLeft, QuotaHolds
  <2>7. ASSUME NEW d \in Calls
        PROVE  PastReservation(calls[d])' /\ SuccessOnRecord(calls[d])'
    <3>1. CASE d = c
      <4>1. item.at <= item.at
        BY <1>1, BoundaryAssumption DEF Item, Times
      <4> QED
        BY <1>1, <1>6, <2>1, <2>2, <3>1, <4>1 DEF PastReservation, SuccessOnRecord
    <3>2. CASE d # c
      BY <1>1, <1>6, <2>2, <3>2 DEF Inv, PastReservation, SuccessOnRecord
    <3> QED
      BY <3>1, <3>2
  <2>8. ASSUME NEW v \in reservations'
        PROVE  effects'[v.parent] + Cardinality(Asking(v)') <= Cardinality(Calls)
    <3>1. CASE v = item
      <4>1. effects'[item.parent] = 0
        BY <1>1, <2>3 DEF Inv, AskedOnce, Item
      <4>2. IsFiniteSet(Calls) /\ Asking(v)' \subseteq Calls
        BY BoundaryAssumption DEF Asking
      <4>3. /\ Cardinality(Asking(v)') <= Cardinality(Calls)
            /\ Cardinality(Asking(v)') \in Nat /\ Cardinality(Calls) \in Nat
        BY <4>2, FS_Subset, FS_CardinalityType
      <4> QED
        BY <3>1, <4>1, <4>3
    <3>2. CASE v \in reservations
      <4>1. Asking(v)' \subseteq Asking(v)
        BY <2>1, <2>2, <2>3, <3>2 DEF Asking
      <4>2. IsFiniteSet(Asking(v)) /\ IsFiniteSet(Calls)
        BY BoundaryAssumption, FS_Subset DEF Asking
      <4>3. Cardinality(Asking(v)') <= Cardinality(Asking(v))
        BY <4>1, <4>2, FS_Subset
      <4>4. /\ Cardinality(Asking(v)) \in Nat /\ Cardinality(Asking(v)') \in Nat
            /\ Cardinality(Calls) \in Nat
        BY <4>1, <4>2, FS_Subset, FS_CardinalityType
      <4>5. effects'[v.parent] \in Nat /\ effects' = effects
        BY <1>1, <3>2 DEF TypeOK, Item
      <4>6. effects[v.parent] + Cardinality(Asking(v)) <= Cardinality(Calls)
        BY <3>2 DEF Inv, AskedOnce
      <4> QED
        BY <4>3, <4>4, <4>5, <4>6
    <3> QED
      BY <1>6, <3>1, <3>2
  <2>9. ASSUME NEW p \in Parents, \A v \in reservations' : v.parent # p
        PROVE  effects'[p] = 0
    BY <1>1, <1>6, <2>9 DEF Inv, AskedOnce
  <2>10. AskedOnce'
    BY <2>8, <2>9 DEF AskedOnce
  <2> QED
    BY <2>4, <2>5, <2>6, <2>7, <2>10 DEF Inv
\* The same, found: of one parent, one key and, if it matters, one second.
<1>7. ASSUME held # {}, held \subseteq {r \in held : Same(r, item)}
      PROVE  \E v \in reservations : /\ v.parent = item.parent /\ v.key = item.key
                                     /\ P.exactSecond => v.at = item.at
  BY <1>7 DEF Clashes, Same
<1>8. CASE /\ held # {} /\ held \subseteq {r \in held : Same(r, item)}
           /\ RecordOf(item.parent) # {} /\ Answer(c, "success")
           /\ UNCHANGED reservations
  BY <1>4, <1>7, <1>8, RecordHasKey
<1>9. CASE /\ held # {} /\ held \subseteq {r \in held : Same(r, item)}
           /\ P.effect \/ ~ P.orphanStops
           /\ GoOn(c, onward)
           /\ UNCHANGED reservations
  <2>1. P.exactSecond
    BY <1>1, <1>9, ProtocolFacts
  <2>2. PICK v \in reservations : /\ v.parent = item.parent /\ v.key = item.key
                                  /\ v.at = item.at
    BY <1>7, <1>9, <2>1
  <2>3. v.at <= item.at
    BY <1>1, <2>2, BoundaryAssumption DEF Item, Times
  <2> QED
    BY <1>5, <1>9, <2>2, <2>3
<1> QED
  <2>1. \/ /\ held = {} /\ QuotaLeft /\ reservations' = reservations \cup {item}
           /\ GoOn(c, onward)
        \/ /\ Refuse(c, "quota_exceeded") \/ Refuse(c, "refused")
           /\ UNCHANGED reservations
        \/ /\ Answer(c, "conflict") \/ Answer(c, "indeterminate")
           /\ UNCHANGED reservations
        \/ /\ held # {} /\ held \subseteq {r \in held : Same(r, item)}
           /\ RecordOf(item.parent) # {} /\ Answer(c, "success")
           /\ UNCHANGED reservations
        \/ /\ held # {} /\ held \subseteq {r \in held : Same(r, item)}
           /\ P.effect \/ ~ P.orphanStops
           /\ GoOn(c, onward)
           /\ UNCHANGED reservations
    BY <1>2, ZenonT(60) DEF Reserve
  <2> QED
    BY <1>3, <1>4, <1>6, <1>8, <1>9, <2>1

\* The adapter is asked by a call that has not asked before.
LEMMA EffectInv ==
    ASSUME Inv, NEW c \in Calls, Effect(c)
    PROVE  Inv'
<1> DEFINE item == calls[c].item
<1>1. /\ calls[c].phase = "effect" /\ TypeOK /\ calls[c] \in Call
      /\ UNCHANGED <<stage, clock, reservations, records, failures>>
      /\ calls \in [Calls -> Call] /\ item \in Item /\ item.parent \in Parents
      /\ PastReservation(calls[c]) /\ SuccessOnRecord(calls[c])
      /\ effects' = [effects EXCEPT ![item.parent] = @ + 1]
      /\ effects \in [Parents -> Nat]
  BY DEF Effect, Inv, TypeOK, Call, Item
<1>2. PICK k \in Call : /\ calls' = [calls EXCEPT ![c] = k]
                        /\ k.phase \in {"recording", "idle"} /\ k.item = item
                        /\ k.answer \in {calls[c].answer, "indeterminate"}
  <2>1. CASE GoOn(c, "recording")
    BY <1>1, <2>1, GoesTo DEF Phases
  <2>2. CASE Answer(c, "indeterminate")
    BY <1>1, <2>2, AnsweredWith DEF Answers
  <2> QED
    BY <2>1, <2>2 DEF Effect
<1>3. /\ calls' \in [Calls -> Call] /\ calls'[c] = k
      /\ \A d \in Calls \ {c} : calls'[d] = calls[d]
  BY <1>1, <1>2
<1>4. TypeOK'
  BY <1>1, <1>3 DEF TypeOK, Call
<1>5. RecordFulfilsReservation' /\ IsFiniteSet(reservations)' /\ QuotaHolds'
  BY <1>1 DEF Inv, RecordFulfilsReservation, QuotaHolds
<1>6. ASSUME NEW d \in Calls PROVE PastReservation(calls[d])' /\ SuccessOnRecord(calls[d])'
  <2>1. CASE d = c
    BY <1>1, <1>2, <1>3, <2>1 DEF PastReservation, SuccessOnRecord
  <2>2. CASE d # c
    BY <1>1, <1>3, <2>2 DEF Inv, PastReservation, SuccessOnRecord
  <2> QED
    BY <2>1, <2>2
<1>7. PICK w \in reservations : w.parent = item.parent /\ w.key = item.key
  BY <1>1 DEF PastReservation
<1>8. ASSUME NEW v \in reservations
      PROVE  effects'[v.parent] + Cardinality(Asking(v)') <= Cardinality(Calls)
  <2>1. IsFiniteSet(Asking(v)) /\ IsFiniteSet(Calls)
    BY BoundaryAssumption, FS_Subset DEF Asking
  <2>2. effects[v.parent] + Cardinality(Asking(v)) <= Cardinality(Calls)
    BY DEF Inv, AskedOnce
  <2>3. v.parent \in Parents /\ effects[v.parent] \in Nat
    BY <1>1 DEF TypeOK, Item
  <2>4. CASE v.parent = item.parent
    <3>1. v = w
      BY <1>7, <2>4 DEF Inv, RecordFulfilsReservation
    <3>2. c \in Asking(v) /\ Asking(v)' \subseteq Asking(v) \ {c}
      BY <1>1, <1>2, <1>3, <1>7, <3>1 DEF Asking
    <3>3. IsFiniteSet(Asking(v) \ {c})
          /\ Cardinality(Asking(v) \ {c}) = Cardinality(Asking(v)) - 1
      BY <2>1, <3>2, FS_RemoveElement
    <3>4. /\ Cardinality(Asking(v)') <= Cardinality(Asking(v) \ {c})
          /\ IsFiniteSet(Asking(v)')
      BY <3>2, <3>3, FS_Subset
    <3>5. /\ Cardinality(Asking(v)) \in Nat /\ Cardinality(Asking(v)') \in Nat
          /\ Cardinality(Calls) \in Nat
      BY <2>1, <3>4, FS_CardinalityType
    <3>6. effects'[v.parent] = effects[v.parent] + 1
      BY <1>1, <2>3, <2>4
    <3> QED
      BY <2>2, <2>3, <3>3, <3>4, <3>5, <3>6
  <2>5. CASE v.parent # item.parent
    <3>1. Asking(v)' \subseteq Asking(v)
      BY <1>1, <1>2, <1>3 DEF Asking
    <3>2. Cardinality(Asking(v)') <= Cardinality(Asking(v)) /\ IsFiniteSet(Asking(v)')
      BY <2>1, <3>1, FS_Subset
    <3>3. /\ Cardinality(Asking(v)) \in Nat /\ Cardinality(Asking(v)') \in Nat
          /\ Cardinality(Calls) \in Nat
      BY <2>1, <3>2, FS_CardinalityType
    <3>4. effects'[v.parent] = effects[v.parent]
      BY <1>1, <2>3, <2>5
    <3> QED
      BY <2>2, <2>3, <3>2, <3>3, <3>4
  <2> QED
    BY <2>4, <2>5
<1>9. ASSUME NEW p \in Parents, \A v \in reservations' : v.parent # p
      PROVE  effects'[p] = 0
  <2>1. p # item.parent
    BY <1>1, <1>7, <1>9
  <2> QED
    BY <1>1, <1>9, <2>1 DEF Inv, AskedOnce
<1>10. AskedOnce'
  BY <1>1, <1>8, <1>9 DEF AskedOnce
<1> QED
  BY <1>4, <1>5, <1>6, <1>10 DEF Inv

\* A record is written for what its call reserved or found reserved.
LEMMA RecordInv ==
    ASSUME Inv, NEW c \in Calls, Record(c) \/ Fail(c)
    PROVE  Inv'
<1> DEFINE item == calls[c].item
<1>1. /\ TypeOK /\ calls[c] \in Call /\ item \in Item /\ item.parent \in Parents
      /\ UNCHANGED <<stage, clock, reservations, effects>>
      /\ PastReservation(calls[c]) /\ RecordFulfilsReservation
      /\ records \subseteq Item /\ failures \subseteq Parents
  BY DEF Record, Fail, Inv, TypeOK, Call, Item
<1>2. failures' \subseteq Parents
  BY <1>1 DEF Record, Fail
\* An answer, with a record for it if it is a success.
<1>3. ASSUME NEW code \in {"success", "conflict", "indeterminate"}, Answer(c, code),
             \/ UNCHANGED records
             \/ records' = records \cup {item} /\ calls[c].phase = "recording",
             code = "success" => item \in records'
      PROVE  Inv'
  <2>1. PICK k \in Call : /\ calls' = [calls EXCEPT ![c] = k]
                          /\ k.phase = "idle" /\ k.answer = code /\ k.item = item
    BY <1>1, <1>3, AnsweredWith DEF Answers
  <2>2. records \subseteq records' /\ records' \subseteq Item
    BY <1>1, <1>3
  <2>3. RecordFulfilsReservation'
    BY <1>1, <1>3 DEF RecordFulfilsReservation, PastReservation
  <2>4. PastReservation(k) /\ SuccessOnRecord(k)'
    BY <1>3, <2>1 DEF PastReservation, SuccessOnRecord
  <2> QED
    BY <1>1, <1>2, <2>1, <2>2, <2>3, <2>4, CallInv
<1>4. CASE Refuse(c, "unavailable") /\ UNCHANGED records
  <2>1. PICK k \in Call : /\ calls' = [calls EXCEPT ![c] = k]
                          /\ k.phase = "idle" /\ k.answer = "unavailable"
    BY <1>1, <1>4, RefusedWith DEF Answers
  <2>2. PastReservation(k) /\ SuccessOnRecord(k)' /\ RecordFulfilsReservation'
    BY <1>1, <1>4, <2>1
       DEF PastReservation, SuccessOnRecord, RecordFulfilsReservation
  <2> QED
    BY <1>1, <1>2, <1>4, <2>1, <2>2, CallInv
<1> QED
  BY <1>3, <1>4 DEF Record, Fail

\* A crash forgets the calls, and time passes.
LEMMA WorldInv ==
    ASSUME Inv, Crash \/ Tick \/ UNCHANGED vars
    PROVE  Inv'
<1>1. UNCHANGED <<stage, reservations, records, failures, effects>>
  BY DEF Crash, Tick, vars
<1>2. RecordFulfilsReservation' /\ IsFiniteSet(reservations)' /\ QuotaHolds'
  BY <1>1 DEF Inv, RecordFulfilsReservation, QuotaHolds
<1>3. CASE Crash
  <2>1. /\ calls' \in [Calls -> Call] /\ UNCHANGED clock
        /\ \A d \in Calls : calls'[d] = IdleCall
        /\ IdleCall.phase = "idle" /\ IdleCall.answer = "none"
    BY <1>3, IdleTyped DEF Crash
  <2>2. TypeOK'
    BY <1>1, <2>1 DEF Inv, TypeOK, Call
  <2>3. ASSUME NEW d \in Calls
        PROVE  PastReservation(calls[d])' /\ SuccessOnRecord(calls[d])'
    BY <2>1 DEF PastReservation, SuccessOnRecord
  <2>4. ASSUME NEW v \in reservations
        PROVE  effects[v.parent] + Cardinality(Asking(v)') <= Cardinality(Calls)
    <3>1. Asking(v)' = {}
      BY <2>1 DEF Asking
    <3>2. IsFiniteSet(Asking(v)) /\ IsFiniteSet(Calls)
      BY BoundaryAssumption, FS_Subset DEF Asking
    <3>3. Cardinality(Asking(v)) \in Nat /\ Cardinality(Calls) \in Nat
      BY <3>2, FS_CardinalityType
    <3>4. Cardinality(Asking(v)') = 0
      BY <3>1, FS_EmptySet
    <3>5. /\ effects[v.parent] + Cardinality(Asking(v)) <= Cardinality(Calls)
          /\ effects[v.parent] \in Nat
      BY DEF Inv, AskedOnce, TypeOK, Item
    <3> QED
      BY <3>3, <3>4, <3>5
  <2>5. AskedOnce'
    BY <1>1, <2>4 DEF Inv, AskedOnce
  <2> QED
    BY <1>2, <2>2, <2>3, <2>5 DEF Inv
<1>4. CASE Tick \/ UNCHANGED vars
  <2>1. calls' = calls /\ clock' \in Times
    BY <1>4, BoundaryAssumption DEF Tick, vars, Inv, TypeOK, Times
  <2>2. TypeOK'
    BY <1>1, <2>1 DEF Inv, TypeOK
  <2>3. AskedOnce'
    BY <1>1, <2>1 DEF Inv, AskedOnce, Asking
  <2>4. ASSUME NEW d \in Calls
        PROVE  PastReservation(calls[d])' /\ SuccessOnRecord(calls[d])'
    BY <1>1, <2>1 DEF Inv, PastReservation, SuccessOnRecord
  <2> QED
    BY <1>2, <2>2, <2>3, <2>4 DEF Inv
<1> QED
  BY <1>3, <1>4

-----------------------------------------------------------------------------
(* The invariant of the specification, and what follows.                   *)

\* It holds at the start.
LEMMA InitInv == Init => Inv
<1> SUFFICES ASSUME Init PROVE Inv
  OBVIOUS
<1>1. TypeOK
  BY IdleTyped, BoundaryAssumption DEF Init, TypeOK, Times, Call
<1>2. \A c \in Calls : PastReservation(calls[c]) /\ SuccessOnRecord(calls[c])
  BY IdleTyped DEF Init, PastReservation, SuccessOnRecord
<1>3. IsFiniteSet(reservations) /\ Cardinality(reservations) = 0
  BY FS_EmptySet DEF Init
<1>4. QuotaHolds
  BY <1>1, <1>3, BoundaryAssumption DEF TypeOK, QuotaHolds
<1> QED
  BY <1>1, <1>2, <1>3, <1>4 DEF Init, Inv, RecordFulfilsReservation, AskedOnce

\* Every step preserves it.
LEMMA NextInv == Inv /\ [Next]_vars => Inv'
  BY BeginInv, ReadInv, ReserveInv, EffectInv, RecordInv, WorldInv DEF Next

\* It holds in every behaviour.
LEMMA SpecInv == Spec => []Inv
  BY InitInv, NextInv, PTL DEF Spec

\* A record fulfils one reservation of its subject and key, no subject and no
\* key is reserved twice, the quota holds and a success is on record.
THEOREM BoundarySafety == Spec => []BoundarySound
<1>1. Inv => BoundarySound
  BY DEF Inv, BoundarySound, SuccessIsDurable, SuccessOnRecord
<1> QED
  BY <1>1, SpecInv, PTL

\* The adapter is asked for an item at most once by each call there can be.
THEOREM DequeueSafety == Spec => []RetryNeverDequeues
<1>1. Inv => RetryNeverDequeues
  <2> SUFFICES ASSUME Inv, NEW p \in Parents PROVE effects[p] <= Cardinality(Calls)
    BY DEF RetryNeverDequeues
  <2>1. IsFiniteSet(Calls) /\ Cardinality(Calls) \in Nat /\ effects[p] \in Nat
    BY BoundaryAssumption, FS_CardinalityType DEF Inv, TypeOK
  <2>2. CASE \A v \in reservations : v.parent # p
    BY <2>1, <2>2 DEF Inv, AskedOnce
  <2>3. ASSUME NEW v \in reservations, v.parent = p
        PROVE  effects[p] <= Cardinality(Calls)
    <3>1. IsFiniteSet(Asking(v))
      BY <2>1, FS_Subset DEF Asking
    <3>2. Cardinality(Asking(v)) \in Nat
      BY <3>1, FS_CardinalityType
    <3> QED
      BY <2>1, <2>3, <3>2 DEF Inv, AskedOnce
  <2> QED
    BY <2>2, <2>3
<1> QED
  BY <1>1, SpecInv, PTL

\* No request takes up a reservation that was left behind.
LEMMA OrphanStays ==
    ASSUME Inv, [Next]_vars, ~ P.effect, NEW p \in Parents, Orphan(p)
    PROVE  Orphan(p)'
<1>1. /\ TypeOK /\ calls \in [Calls -> Call] /\ stage \in Studied /\ P.orphanStops
      /\ \A r \in records : r.parent # p
      /\ \A c \in Calls : calls[c].phase \in {"effect", "recording"} =>
                             calls[c].item.parent # p
  BY ProtocolFacts DEF Inv, TypeOK, Call, Orphan, RecordOf
<1>2. PICK v \in reservations : v.parent = p
  BY DEF Orphan
\* Calls that are past the first transaction are about others.
<1>3. ASSUME v \in reservations', \A r \in records' : r.parent # p,
             \A c \in Calls : calls'[c].phase \in {"effect", "recording"} =>
                                 calls'[c].item.parent # p
      PROVE  Orphan(p)'
  BY <1>2, <1>3 DEF Orphan, RecordOf
<1>4. ASSUME NEW c \in Calls, NEW k \in Call, calls' = [calls EXCEPT ![c] = k],
             k.phase \in {"effect", "recording"} => k.item.parent # p,
             v \in reservations', \A r \in records' : r.parent # p
      PROVE  Orphan(p)'
  <2>1. \A d \in Calls : calls'[d] = IF d = c THEN k ELSE calls[d]
    BY <1>1, <1>4
  <2> QED
    BY <1>1, <1>3, <1>4, <2>1
<1>5. ASSUME NEW c \in Calls, NEW code \in Answers, Answer(c, code),
             v \in reservations', \A r \in records' : r.parent # p
      PROVE  Orphan(p)'
  <2>1. PICK k \in Call : calls' = [calls EXCEPT ![c] = k] /\ k.phase = "idle"
    BY <1>1, <1>5, AnsweredWith
  <2> QED
    BY <1>4, <1>5, <2>1
<1>6. ASSUME NEW c \in Calls, NEW code \in Answers, Refuse(c, code),
             v \in reservations', \A r \in records' : r.parent # p
      PROVE  Orphan(p)'
  <2>1. PICK k \in Call : calls' = [calls EXCEPT ![c] = k] /\ k.phase = "idle"
    BY <1>1, <1>6, RefusedWith
  <2> QED
    BY <1>4, <1>6, <2>1
<1>7. ASSUME NEW c \in Calls, NEW k \in Keys, NEW q \in Parents, Begin(c, k, q)
      PROVE  Orphan(p)'
  <2>1. \A d \in Calls : \/ calls'[d] = calls[d]
                         \/ calls'[d].phase \in {"idle", "reading"}
    BY <1>1, <1>7 DEF Begin
  <2> QED
    BY <1>1, <1>2, <1>3, <1>7, <2>1 DEF Begin
<1>8. ASSUME NEW c \in Calls, Read(c) PROVE Orphan(p)'
  <2>1. \A d \in Calls \ {c} : calls'[d] = calls[d]
    BY <1>1, <1>8 DEF Read, Refuse
  <2>2. calls'[c].phase \in {"idle", "reserving"}
    <3>1. CASE Refuse(c, "refused")
      BY <1>1, <3>1, RefusedWith DEF Answers
    <3>2. CASE ~ Refuse(c, "refused")
      BY <1>1, <1>8, <3>2 DEF Read, Call
    <3> QED
      BY <3>1, <3>2
  <2> QED
    BY <1>1, <1>2, <1>3, <1>8, <2>1, <2>2 DEF Read
<1>9. ASSUME NEW c \in Calls, Reserve(c) PROVE Orphan(p)'
  <2>1. /\ v \in reservations' /\ \A r \in records' : r.parent # p
        /\ calls[c].item \in Item
    BY <1>1, <1>2, <1>9 DEF Reserve, Call
  <2>2. CASE calls[c].item.parent # p
    <3>1. ASSUME NEW phase \in {"effect", "recording"}, GoOn(c, phase)
          PROVE  Orphan(p)'
      <4>1. PICK k \in Call : /\ calls' = [calls EXCEPT ![c] = k]
                              /\ k.item = calls[c].item
        BY <1>1, <3>1, GoesTo DEF Phases
      <4> QED
        BY <1>4, <2>1, <2>2, <4>1
    <3>2. \/ \E phase \in {"effect", "recording"} : GoOn(c, phase)
          \/ \E code \in {"quota_exceeded", "refused"} : Refuse(c, code)
          \/ \E code \in {"conflict", "success", "indeterminate"} : Answer(c, code)
      BY <1>9, ZenonT(30) DEF Reserve
    <3> QED
      BY <1>5, <1>6, <2>1, <3>1, <3>2 DEF Answers
  <2>3. CASE calls[c].item.parent = p
    <3>1. v \in Clashes(calls[c].item) /\ RecordOf(calls[c].item.parent) = {}
      BY <1>1, <1>2, <2>3 DEF Clashes, RecordOf
    <3>2. \E code \in {"conflict", "success", "indeterminate"} : Answer(c, code)
      BY <1>1, <1>9, <3>1, ZenonT(30) DEF Reserve
    <3> QED
      BY <1>5, <2>1, <3>2 DEF Answers
  <2> QED
    BY <2>2, <2>3
<1>10. ASSUME NEW c \in Calls, Effect(c) PROVE Orphan(p)'
  <2>1. /\ v \in reservations' /\ \A r \in records' : r.parent # p
        /\ calls[c].item.parent # p
    BY <1>1, <1>2, <1>10 DEF Effect
  <2>2. CASE GoOn(c, "recording")
    <3>1. PICK k \in Call : /\ calls' = [calls EXCEPT ![c] = k]
                            /\ k.item = calls[c].item
      BY <1>1, <2>2, GoesTo DEF Phases
    <3> QED
      BY <1>4, <2>1, <3>1
  <2> QED
    BY <1>5, <1>10, <2>1, <2>2 DEF Effect, Answers
<1>11. ASSUME NEW c \in Calls, Record(c) \/ Fail(c) PROVE Orphan(p)'
  <2>1. v \in reservations' /\ \A r \in records' : r.parent # p
    BY <1>1, <1>2, <1>11 DEF Record, Fail
  <2>2. \/ \E code \in {"success", "conflict", "indeterminate"} : Answer(c, code)
        \/ Refuse(c, "unavailable")
    BY <1>11, ZenonT(30) DEF Record, Fail
  <2> QED
    BY <1>5, <1>6, <2>1, <2>2 DEF Answers
<1>12. CASE Crash
  BY <1>1, <1>2, <1>3, <1>12, IdleTyped DEF Crash
<1>13. CASE Tick \/ UNCHANGED vars
  BY <1>1, <1>2, <1>3, <1>13 DEF Tick, vars
<1> QED
  BY <1>7, <1>8, <1>9, <1>10, <1>11, <1>12, <1>13 DEF Next

\* A reservation that a crash or an error left without its record stays so.
THEOREM OrphansStay == Spec => OrphanStaysOrphan
<1>1. Inv /\ [Next]_vars =>
         (~ P.effect => \A p \in Parents : Orphan(p) => Orphan(p)')
  BY OrphanStays
<1> QED
  BY <1>1, SpecInv, PTL DEF Spec, OrphanStaysOrphan

\* A guarded record enters its store while its predecessor is valid.
THEOREM GuardHolds == Spec => RecordedWhileValid
<1>1. Next => (P.guard = "valid" /\ records' # records => clock < ParentUntil)
  BY ZenonT(60) DEF Next, Begin, Read, Reserve, Effect, Record, Revalidated, Fail, Crash, Tick
<1>2. UNCHANGED vars => records' = records
  BY DEF vars
<1> QED
  BY <1>1, <1>2, PTL DEF Spec, RecordedWhileValid

-----------------------------------------------------------------------------
(***************************************************************************)
(* The append-only stores.                                                 *)
(***************************************************************************)

\* Every set of naturals has a least element.
LEMMA LeastNumber ==
    ASSUME NEW T, T \subseteq Nat, T # {}
    PROVE  \E n \in T : \A m \in T : n <= m
<1> DEFINE Down == {0 .. n : n \in T}
<1>1. Down \subseteq FiniteSubsetsOf(Nat) /\ Down # {}
  <2>1. ASSUME NEW n \in T PROVE 0 .. n \in FiniteSubsetsOf(Nat)
    BY FS_Interval DEF FiniteSubsetsOf
  <2> QED
    BY <2>1
<1>2. PICK x \in Down : \A y \in Down : ~ (<<y, x>> \in StrictSubsetOrdering(Nat))
  <2> HIDE DEF Down
  <2> QED
    BY <1>1, WFMin, FS_StrictSubsetOrderingWellFounded
<1>3. PICK n \in T : x = 0 .. n
  OBVIOUS
<1>4. ASSUME NEW m \in T, m < n PROVE FALSE
  <2>1. 0 .. m \in Down /\ 0 .. m \subseteq Nat /\ 0 .. n \subseteq Nat
    OBVIOUS
  <2>2. 0 .. m \subseteq 0 .. n /\ n \in 0 .. n /\ n \notin 0 .. m
    BY <1>4
  <2> QED
    BY <1>2, <1>3, <2>1, <2>2 DEF StrictSubsetOrdering
<1> QED
  BY <1>4

\* The counting operator of EvidenceChain is the one of this module.
LEMMA SameCount ==
    ASSUME NEW S
    PROVE  Chain!Cardinality(S) = Cardinality(S)
BY DEF Cardinality, Chain!Cardinality

\* A least number is what Min chooses.
LEMMA MinOf ==
    ASSUME NEW T, T \subseteq Nat, T # {}
    PROVE  Chain!Min(T) \in T /\ \A m \in T : Chain!Min(T) <= m
<1>1. PICK n \in T : \A m \in T : n <= m
  BY LeastNumber
<1> QED
  BY <1>1, Zenon DEF Chain!Min

\* The stages of a part are finitely many.
LEMMA StagesFinite ==
    ASSUME NEW T, T \subseteq Chain!Stages
    PROVE  IsFiniteSet(T)
<1>1. IsFiniteSet({}) /\ \A S, x : IsFiniteSet(S) => IsFiniteSet(S \cup {x})
  BY FS_EmptySet, FS_AddElement
<1>2. Chain!Stages = {} \cup {"grant"} \cup {"admission"} \cup {"plan"}
         \cup {"stub"} \cup {"queue"} \cup {"intake"} \cup {"live"}
  BY DEF Chain!Stages
<1>3. IsFiniteSet(Chain!Stages)
  BY <1>1, <1>2, Zenon
<1> QED
  BY <1>3, FS_Subset

\* Where no stage holds more than its quota, the stages of a set together
\* hold no more than the quota for each.
LEMMA SumOfQuotas ==
    ASSUME NEW n \in Nat, NEW R, IsFiniteSet(R), NEW C, IsFiniteSet(C),
           \A s \in C : Cardinality({r \in R : r.stage = s}) <= n
    PROVE  Cardinality({r \in R : r.stage \in C}) <= n * Cardinality(C)
<1> DEFINE In(T) == {r \in R : r.stage \in T}
           Bad == {T \in SUBSET C : ~ (Cardinality(In(T)) <= n * Cardinality(T))}
<1>1. SUFFICES ASSUME Bad # {} PROVE FALSE
  OBVIOUS
<1>2. Bad \subseteq FiniteSubsetsOf(C)
  BY FS_Subset DEF FiniteSubsetsOf
<1>3. PICK T \in Bad : \A U \in Bad : ~ (<<U, T>> \in StrictSubsetOrdering(C))
  <2> HIDE DEF Bad
  <2> QED
    BY <1>1, <1>2, WFMin, FS_StrictSubsetOrderingWellFounded
<1>4. T \in SUBSET C /\ IsFiniteSet(T)
  BY FS_Subset
<1>5. CASE T = {}
  <2>1. Cardinality(T) = 0 /\ Cardinality({}) = 0
    BY <1>5, FS_EmptySet
  <2>2. In(T) = {}
    BY <1>5
  <2> HIDE DEF In
  <2>3. Cardinality(In(T)) <= n * Cardinality(T)
    BY <2>1, <2>2
  <2> QED
    BY <2>3, <1>3 DEF In
<1>6. CASE T # {}
  <2>1. PICK s \in T : TRUE
    BY <1>6
  <2> DEFINE U == T \ {s}
             E == {r \in R : r.stage = s}
  <2>2. U \notin Bad /\ U \in SUBSET C
    BY <1>3, <1>4 DEF StrictSubsetOrdering
  <2>3. Cardinality(In(U)) <= n * Cardinality(U)
    BY <2>2
  <2>4. /\ Cardinality(U) = Cardinality(T) - 1
        /\ Cardinality(T) \in Nat /\ Cardinality(U) \in Nat
    BY <1>4, FS_RemoveElement, FS_CardinalityType
  <2>5. In(T) = In(U) \cup E
    OBVIOUS
  <2>6. IsFiniteSet(In(U)) /\ IsFiniteSet(E) /\ IsFiniteSet(In(T))
    BY FS_Subset
  <2>7. /\ Cardinality(In(T)) <= Cardinality(In(U)) + Cardinality(E)
        /\ Cardinality(In(T)) \in Nat /\ Cardinality(In(U)) \in Nat
        /\ Cardinality(E) \in Nat
    <3> HIDE DEF In, E
    <3>1. /\ Cardinality(In(U) \cup E) =
             Cardinality(In(U)) + Cardinality(E) - Cardinality(In(U) \cap E)
          /\ IsFiniteSet(In(U) \cap E)
      BY <2>6, FS_Union, FS_Intersection
    <3> QED
      BY <2>5, <2>6, <3>1, FS_CardinalityType
  <2>8. Cardinality(E) <= n
    BY <1>4, <2>1
  <2>9. \A a \in Nat : n * (a - 1) + n = n * a
    OBVIOUS
  <2>10. Cardinality(In(T)) <= n * Cardinality(T)
    <3> HIDE DEF In, E, U
    <3>1. n * Cardinality(U) + n = n * Cardinality(T)
      BY <2>4, <2>9
    <3> QED
      BY <2>3, <2>7, <2>8, <2>4, <3>1
  <2> QED
    BY <2>10, <1>3
<1> QED
  BY <1>5, <1>6

-----------------------------------------------------------------------------
(* What the rows and the calls say together, for a part p, the rows R and  *)
(* the second now.                                                         *)

MintsOf(p) == 1 .. 1 + p.quota * Cardinality(p.chain) + Cardinality(Calls)

RowType(p) ==
    [stage : Chain!Stages \cup {"review"}, mint : MintsOf(p),
     key : Keys \cup {"none"}, parent : MintsOf(p) \cup {0}, ref : p.refs,
     item : 0 .. p.end, recorded : 0 .. p.end, until : Nat]

CallType(p) ==
    [phase : Chain!Phases, stage : Chain!Stages \cup {p.root},
     key : Keys \cup {"none"}, parent : MintsOf(p) \cup {0}, ref : p.refs,
     item : 0 .. p.end, mint : MintsOf(p) \cup {0}, recorded : 0 .. p.end,
     until : Nat, answer : Chain!Answers, got : MintsOf(p) \cup {0}]

\* A request of a stage of the chain names a row of the stage before, and
\* only a plan its own reference, only a queue item its own second.
Requested(p, R, x) ==
    /\ x.stage \in p.chain
    /\ \E q \in R : /\ q.mint = x.parent /\ q.stage = Chain!StageOf[x.stage].of
                    /\ x.stage # "plan" => x.ref = q.ref
    /\ x.stage # "queue" => x.item = 0

\* What is recorded lies within the window of the row it names.
Within(R, x, now) ==
    /\ x.recorded <= now /\ x.recorded < x.until
    /\ \E q \in R : /\ q.mint = x.parent /\ q.recorded <= x.recorded
                    /\ x.recorded < q.until /\ x.until <= q.until

\* The row records this very request.
SameRequests(r, x) ==
    /\ r.stage = x.stage /\ r.key = x.key /\ r.parent = x.parent
    /\ r.ref = x.ref /\ r.item = x.item

\* The record the part begins with, and a record of its chain.
RootSound(p, r, now) ==
    /\ r.stage = p.root /\ r.parent = 0 /\ r.key = "none"
    /\ r.recorded <= now /\ r.recorded < r.until

RowSound(p, R, r, now) ==
    \/ RootSound(p, r, now)
    \/ Requested(p, R, r) /\ Within(R, r, now)

\* What the fence and the key of a store keep apart.
OneChild(R) ==
    \A r, q \in R :
        /\ r.stage = q.stage /\ r.stage \notin {"stub", "intake"}
        /\ r.parent = q.parent /\ r.ref = q.ref /\ r.item = q.item
        => r = q

OneKey(R) ==
    \A r, q \in R : r.stage = q.stage /\ r.key = q.key => r = q

OfStage(R, s) == {r \in R : r.stage = s}

RowsSound(p, R, now) ==
    /\ R \subseteq RowType(p) /\ IsFiniteSet(R)
    /\ \A r, q \in R : r.mint = q.mint => r = q
    /\ \A r \in R : RowSound(p, R, r, now)
    /\ OneChild(R)
    /\ OneKey(R)
    /\ \A s \in p.chain : Cardinality(OfStage(R, s)) <= p.quota

\* The stages whose duplicates are recognised by the request alone.
ByRequest == {"grant", "admission", "live"}

CallSound(p, R, k, now) ==
    /\ k.phase # "idle" => Requested(p, R, k) /\ k.key \in Keys
    /\ k.phase # "appending" => k.mint = 0
    /\ k.phase = "appending" =>
          k.mint # 0 /\ Within(R, k, now) /\ \A r \in R : r.mint # k.mint
    /\ k.answer \in {"recorded", "exact_duplicate"} =>
          \E r \in R : r.mint = k.got /\ SameRequests(r, k)
    /\ k.answer = "conflict" /\ k.stage \in ByRequest =>
          /\ \E r \in R : r.stage = k.stage /\ (r.key = k.key \/ r.parent = k.parent)
          /\ ~ \E r \in R : SameRequests(r, k)

ChainInv ==
    /\ part \in Parts
    /\ chainClock \in 0 .. part.end
    /\ RowsSound(part, rows, chainClock)
    /\ chainCalls \in [Calls -> CallType(part)]
    /\ \A c \in Calls : CallSound(part, rows, chainCalls[c], chainClock)
    /\ \A c, d \in Calls : chainCalls[c].mint = chainCalls[d].mint
                           /\ chainCalls[c].mint # 0 => c = d

-----------------------------------------------------------------------------
(* What a part and a stage are.                                            *)

\* A part begins at a stage that is not of its chain, which is finite.
LEMMA PartFacts ==
    ASSUME NEW p \in Parts
    PROVE  /\ p.root \in Chain!Stages \cup {"review"}
           /\ p.chain \subseteq Chain!Stages /\ IsFiniteSet(p.chain)
           /\ Cardinality(p.chain) \in Nat
           /\ p.refs \subseteq Refs /\ p.refs # {}
           /\ p.quota \in Nat /\ p.end \in Nat
           /\ p.root \notin p.chain
           /\ "live" \in p.chain => p.root # "intake"
<1>1. /\ p \in [root : Chain!Stages \cup {"review"}, chain : SUBSET Chain!Stages,
                refs : (SUBSET Refs) \ {{}}, quota : Nat, end : Nat]
      /\ p.root \notin p.chain
      /\ "live" \in p.chain => p.root # "intake"
  BY ChainAssumption DEF Chain!PartsAssumption
<1>2. IsFiniteSet(p.chain)
  BY <1>1, StagesFinite
<1> QED
  BY <1>1, <1>2, FS_CardinalityType

\* The windows of the references are seconds; the calls can be counted.
LEMMA TimesTyped ==
    /\ TTL \in Nat /\ TTL > 0
    /\ \A r \in Refs : RefFrom[r] \in Nat /\ RefUntil[r] \in Nat
    /\ IsFiniteSet(Calls) /\ Cardinality(Calls) \in Nat
BY ChainAssumption, BoundaryAssumption, FS_CardinalityType DEF Chain!PartsAssumption

\* How the stages resolve, fence and compare, as the proofs below use it.
LEMMA StageFacts ==
    ASSUME NEW s \in Chain!Stages
    PROVE  LET t == Chain!StageOf[s]
           IN  /\ s \notin {"stub", "intake"} => t.fence \subseteq {"parent", "ref", "item"}
               /\ s \in ByRequest => t.fence = {"parent"}
               /\ s \in ByRequest => t.same \subseteq {"key", "parent", "ref", "item"}
               /\ s \notin ByRequest => {"key", "parent", "ref", "item"} \subseteq t.same
               /\ {"key", "parent"} \subseteq t.same
               /\ t.resolvesSubject => s \in ByRequest
               /\ t.resolvesSubject \in BOOLEAN
               /\ s = "live" => t.of = "intake"
               /\ s = "grant" \/ s = "admission" \/ s = "live" => s # "plan" /\ s # "queue"
               /\ s = "live" => {"ref", "item"} \cap t.same = {}
               /\ s \in {"grant", "admission"} => t.same = {"key", "parent", "ref", "item"}
<1> DEFINE t == Chain!StageOf[s]
<1>1. CASE s = "grant"
  <2>1. t = Chain!GrantStage
    BY <1>1 DEF Chain!StageOf, Chain!Stages
  <2> QED
    BY <1>1, <2>1 DEF Chain!GrantStage, ByRequest
<1>2. CASE s = "admission"
  <2>1. t = Chain!AdmissionStage
    BY <1>2 DEF Chain!StageOf, Chain!Stages
  <2> QED
    BY <1>2, <2>1 DEF Chain!AdmissionStage, ByRequest
<1>3. CASE s = "plan"
  <2>1. t = Chain!PlanStage
    BY <1>3 DEF Chain!StageOf, Chain!Stages
  <2> QED
    BY <1>3, <2>1 DEF Chain!PlanStage, ByRequest
<1>4. CASE s = "stub"
  <2>1. t = Chain!StubStage
    BY <1>4 DEF Chain!StageOf, Chain!Stages
  <2> QED
    BY <1>4, <2>1 DEF Chain!StubStage, ByRequest
<1>5. CASE s = "queue"
  <2>1. t = Chain!QueueStage
    BY <1>5 DEF Chain!StageOf, Chain!Stages
  <2> QED
    BY <1>5, <2>1 DEF Chain!QueueStage, ByRequest
<1>6. CASE s = "intake"
  <2>1. t = Chain!IntakeStage
    BY <1>6 DEF Chain!StageOf, Chain!Stages
  <2> QED
    BY <1>6, <2>1 DEF Chain!IntakeStage, ByRequest
<1>7. CASE s = "live"
  <2>1. t = Chain!LiveStage
    BY <1>7 DEF Chain!StageOf, Chain!Stages
  <2> QED
    BY <1>7, <2>1 DEF Chain!LiveStage, ByRequest
<1> QED
  BY <1>1, <1>2, <1>3, <1>4, <1>5, <1>6, <1>7 DEF Chain!Stages

\* The sets of the model are those of the part.
LEMMA TypesOfPart ==
    /\ Chain!Mints = MintsOf(part) /\ Chain!Times = 0 .. part.end
    /\ Chain!Row = RowType(part)
BY SameCount DEF Chain!Mints, MintsOf, Chain!Times, Chain!Row, RowType

\* An id names its row.
LEMMA RowNamed ==
    ASSUME NEW r \in rows, \A x, y \in rows : x.mint = y.mint => x = y
    PROVE  Chain!RowOf(r.mint) = r
<1>1. Chain!RowOf(r.mint) \in rows /\ Chain!RowOf(r.mint).mint = r.mint
  BY Zenon DEF Chain!RowOf
<1> QED
  BY <1>1

\* A map onto a set has at least as many arguments.
LEMMA ImageCount ==
    ASSUME NEW S, IsFiniteSet(S), NEW f, DOMAIN f = S, NEW T,
           T = {f[x] : x \in S}
    PROVE  IsFiniteSet(T) /\ Cardinality(T) <= Cardinality(S)
<1> DEFINE g == [x \in S |-> f[x]]
<1>2. g \in [S -> T] /\ \A t \in T : \E x \in S : g[x] = t
  OBVIOUS
<1>3. g \in Surjection(S, T)
  <2> HIDE DEF g
  <2> QED
    BY <1>2 DEF Surjection
<1> QED
  BY <1>3, FS_Surjection

\* There are more ids than rows and calls under way: one is always left.
LEMMA FreshMint ==
    ASSUME ChainInv, NEW c \in Calls, chainCalls[c].mint = 0
    PROVE  /\ Chain!Min(Chain!Mints \ Chain!Used) \in MintsOf(part)
           /\ Chain!Min(Chain!Mints \ Chain!Used) \notin Chain!Used
<1> DEFINE M == MintsOf(part)
           A == {r.mint : r \in rows}
           Others == Calls \ {c}
           B == {chainCalls[d].mint : d \in Others}
           Chained == {r \in rows : r.stage \in part.chain}
           Root == {r \in rows : r.stage = part.root}
<1>1. /\ part \in Parts /\ RowsSound(part, rows, chainClock)
      /\ part.quota \in Nat /\ IsFiniteSet(part.chain) /\ Cardinality(part.chain) \in Nat
  BY PartFacts DEF ChainInv
<1>2. /\ IsFiniteSet(Chained) /\ Cardinality(Chained) \in Nat
      /\ Cardinality(Chained) <= part.quota * Cardinality(part.chain)
  <2>1. IsFiniteSet(rows)
        /\ \A s \in part.chain : Cardinality({r \in rows : r.stage = s}) <= part.quota
    BY <1>1 DEF RowsSound, OfStage
  <2>2. Cardinality(Chained) <= part.quota * Cardinality(part.chain)
    BY <1>1, <2>1, SumOfQuotas
  <2> QED
    BY <2>1, <2>2, FS_Subset, FS_CardinalityType
<1>3. /\ IsFiniteSet(Root) /\ Cardinality(Root) \in Nat /\ Cardinality(Root) <= 1
  <2>1. \A x, y \in Root : x = y
    BY <1>1, PartFacts DEF RowsSound, RowSound, RootSound, Requested, OneKey
  <2>2. Root = {} \/ \E x \in rows : Root = {x}
    BY <2>1
  <2> HIDE DEF Root
  <2>3. CASE Root = {}
    BY <2>3, FS_EmptySet
  <2>4. ASSUME NEW x \in rows, Root = {x}
        PROVE  IsFiniteSet(Root) /\ Cardinality(Root) = 1
    BY <2>4, FS_Singleton
  <2> QED
    BY <2>2, <2>3, <2>4
<1>4. IsFiniteSet(rows) /\ Cardinality(rows) \in Nat
      /\ Cardinality(rows) <= part.quota * Cardinality(part.chain) + 1
  <2>1. rows = Chained \cup Root
    BY <1>1 DEF RowsSound, RowSound, RootSound, Requested
  <2> HIDE DEF Chained, Root
  <2>2. /\ Cardinality(Chained \cup Root) =
           Cardinality(Chained) + Cardinality(Root) - Cardinality(Chained \cap Root)
        /\ IsFiniteSet(Chained \cup Root)
        /\ Cardinality(Chained \cap Root) \in Nat
    BY <1>2, <1>3, FS_Union, FS_Intersection, FS_CardinalityType
  <2>3. part.quota * Cardinality(part.chain) \in Nat
    BY <1>1
  <2> QED
    BY <2>1, <2>2, <2>3, <1>2, <1>3, FS_CardinalityType
<1>5. IsFiniteSet(A) /\ Cardinality(A) \in Nat /\ Cardinality(A) <= Cardinality(rows)
  <2> DEFINE f == [r \in rows |-> r.mint]
  <2>1. DOMAIN f = rows /\ A = {f[r] : r \in rows}
    OBVIOUS
  <2> HIDE DEF f, A
  <2> QED
    BY <1>4, <2>1, ImageCount, FS_CardinalityType
<1>6. IsFiniteSet(B) /\ Cardinality(B) \in Nat /\ Cardinality(B) <= Cardinality(Calls) - 1
  <2>1. IsFiniteSet(Others) /\ Cardinality(Others) = Cardinality(Calls) - 1
    BY TimesTyped, FS_RemoveElement
  <2> DEFINE f == [d \in Others |-> chainCalls[d].mint]
  <2>2. DOMAIN f = Others /\ B = {f[d] : d \in Others}
    OBVIOUS
  <2> HIDE DEF f, B
  <2> QED
    BY <2>1, <2>2, ImageCount, FS_CardinalityType
<1>7. M \ (A \cup B) # {}
  <2>1. SUFFICES ASSUME M \subseteq A \cup B PROVE FALSE
    OBVIOUS
  <2> DEFINE last == 1 + part.quota * Cardinality(part.chain) + Cardinality(Calls)
  <2>2. last \in Nat /\ last > 0 /\ M = 1 .. last
    BY <1>1, TimesTyped DEF MintsOf
  <2>3. Cardinality(M) = last /\ IsFiniteSet(M)
    <3> HIDE DEF last, M
    <3> QED
      BY <2>2, FS_Interval
  <2> HIDE DEF A, B, M
  <2>4. /\ IsFiniteSet(A \cup B)
        /\ Cardinality(A \cup B) = Cardinality(A) + Cardinality(B) - Cardinality(A \cap B)
        /\ Cardinality(A \cap B) \in Nat
    BY <1>5, <1>6, FS_Union, FS_Intersection, FS_CardinalityType
  <2>5. Cardinality(M) <= Cardinality(A \cup B) /\ Cardinality(A \cup B) \in Nat
    BY <2>1, <2>4, FS_Subset, FS_CardinalityType
  <2>6. part.quota * Cardinality(part.chain) \in Nat
    BY <1>1
  <2> QED
    BY <2>3, <2>4, <2>5, <2>6, <1>4, <1>5, <1>6, TimesTyped
<1>8. Chain!Mints \ Chain!Used = M \ (A \cup B)
  <2>1. 0 \notin M
    BY DEF MintsOf
  <2>2. Chain!Used = A \cup B \cup {0}
    BY DEF Chain!Used
  <2> QED
    BY <2>1, <2>2, TypesOfPart
<1>9. M \subseteq Nat
  BY DEF MintsOf
<1> HIDE DEF M, A, B
<1>10. Chain!Min(M \ (A \cup B)) \in M \ (A \cup B)
  BY <1>7, <1>9, MinOf
<1> QED
  BY <1>8, <1>10 DEF M, A, B

-----------------------------------------------------------------------------
(* What the validation of a stage says about the row it follows from.      *)

\* The row a request names.
LEMMA ParentRow ==
    ASSUME ChainInv, NEW x, Requested(part, rows, x)
    PROVE  \E q \in rows :
              /\ q = Chain!RowOf(x.parent) /\ q.mint = x.parent
              /\ q.stage = Chain!StageOf[x.stage].of
              /\ x.stage # "plan" => x.ref = q.ref
<1>1. PICK q \in rows : /\ q.mint = x.parent /\ q.stage = Chain!StageOf[x.stage].of
                        /\ x.stage # "plan" => x.ref = q.ref
  BY DEF Requested
<1>2. Chain!RowOf(q.mint) = q
  BY RowNamed DEF ChainInv, RowsSound
<1> QED
  BY <1>1, <1>2

\* A row is what the tables can hold.
LEMMA RowTyped ==
    ASSUME ChainInv, NEW r \in rows
    PROVE  /\ r \in RowType(part) /\ r.until \in Nat /\ r.recorded \in Nat
           /\ r.recorded <= chainClock /\ r.mint \in MintsOf(part)
           /\ chainClock \in Nat /\ r.ref \in part.refs /\ r.recorded \in 0 .. part.end
<1>1. /\ part \in Parts /\ r \in RowType(part)
      /\ RowSound(part, rows, r, chainClock) /\ chainClock \in 0 .. part.end
  BY DEF ChainInv, RowsSound
<1> QED
  BY <1>1, PartFacts DEF RowType, RowSound, RootSound, Within

\* Each window ends at some second, and one of them is the window of the row
\* the request names.
LEMMA WindowsEnd ==
    ASSUME ChainInv, NEW k \in CallType(part), Requested(part, rows, k)
    PROVE  LET W == Chain!Windows(k, chainClock)
           IN  /\ \A w \in W : w.until \in Nat
               /\ \E w \in W : w.until = Chain!RowOf(k.parent).until
<1>1. PICK q \in rows : /\ q = Chain!RowOf(k.parent) /\ q.mint = k.parent
                        /\ q.stage = Chain!StageOf[k.stage].of
  BY ParentRow
<1>2. q.until \in Nat /\ q.recorded \in Nat /\ chainClock \in Nat
  BY RowTyped
<1>3. /\ RefUntil[k.ref] \in Nat /\ TTL \in Nat
      /\ k.stage \in part.chain /\ k.stage \in Chain!Stages
      /\ part \in Parts
  BY TimesTyped, PartFacts DEF ChainInv, CallType, Requested
<1>4. /\ Chain!ParentWindow(k).until = q.until
      /\ Chain!RefWindow(k.ref).until = RefUntil[k.ref]
  BY <1>1 DEF Chain!ParentWindow, Chain!RefWindow, Chain!Window
<1>5. CASE k.stage = "grant"
  <2>1. Chain!Windows(k, chainClock) = Chain!GrantWindows(k, chainClock)
    BY <1>5 DEF Chain!Windows
  <2> QED
    BY <2>1, <1>1, <1>2, <1>3, <1>4 DEF Chain!GrantWindows, Chain!Window
<1>6. CASE k.stage = "admission"
  <2>1. Chain!Windows(k, chainClock) = Chain!AdmissionWindows(k, chainClock)
    BY <1>6 DEF Chain!Windows
  <2> QED
    BY <2>1, <1>1, <1>2, <1>3, <1>4 DEF Chain!AdmissionWindows, Chain!Window
<1>7. CASE k.stage = "plan"
  <2>1. Chain!Windows(k, chainClock) = Chain!PlanWindows(k, chainClock)
    BY <1>7 DEF Chain!Windows
  <2> QED
    BY <2>1, <1>1, <1>2, <1>3, <1>4 DEF Chain!PlanWindows
<1>8. CASE k.stage = "stub"
  <2>1. Chain!Windows(k, chainClock) = Chain!StubWindows(k, chainClock)
    BY <1>8 DEF Chain!Windows
  <2> QED
    BY <2>1, <1>1, <1>2, <1>3, <1>4 DEF Chain!StubWindows
<1>9. CASE k.stage = "queue"
  <2>1. Chain!Windows(k, chainClock) = Chain!QueueWindows(k, chainClock)
    BY <1>9 DEF Chain!Windows
  <2> QED
    BY <2>1, <1>1, <1>2, <1>3, <1>4 DEF Chain!QueueWindows, Chain!Window
<1>10. CASE k.stage = "intake"
  <2>1. Chain!Windows(k, chainClock) = Chain!IntakeWindows(k, chainClock)
    BY <1>10 DEF Chain!Windows
  <2> QED
    BY <2>1, <1>1, <1>2, <1>3, <1>4 DEF Chain!IntakeWindows
<1>11. CASE k.stage = "live"
  <2>1. Chain!Windows(k, chainClock) = Chain!LiveWindows(k, chainClock)
    BY <1>11 DEF Chain!Windows
  <2>2. q.stage = "intake" /\ part.root # "intake"
    BY <1>1, <1>3, <1>11, StageFacts, PartFacts
  <2>3. Requested(part, rows, q)
    BY <2>2 DEF ChainInv, RowsSound, RowSound, RootSound
  <2>4. PICK g \in rows : g = Chain!RowOf(q.parent)
    BY <2>3, ParentRow
  <2>5. Chain!ParentWindow(q).until = g.until /\ g.until \in Nat
    BY <2>4, RowTyped DEF Chain!ParentWindow, Chain!Window
  <2> QED
    BY <2>1, <2>5, <1>1, <1>2, <1>3, <1>4 DEF Chain!LiveWindows
<1> QED
  BY <1>3, <1>5, <1>6, <1>7, <1>8, <1>9, <1>10, <1>11 DEF Chain!Stages

\* What passes every window is made while its parent is valid, and expires
\* no later.
LEMMA Validated ==
    ASSUME ChainInv, NEW k \in CallType(part), Requested(part, rows, k),
           \A w \in Chain!Windows(k, chainClock) : Chain!Current(w, chainClock)
    PROVE  LET u == Chain!ValidUntil(k, chainClock)
           IN  /\ u \in Nat /\ chainClock < u
               /\ \E q \in rows : /\ q.mint = k.parent /\ q.recorded <= chainClock
                                  /\ chainClock < q.until /\ u <= q.until
<1> DEFINE W == Chain!Windows(k, chainClock)
           T == {chainClock + TTL} \cup {w.until : w \in W}
<1>1. PICK q \in rows : q = Chain!RowOf(k.parent) /\ q.mint = k.parent
  BY ParentRow
<1>2. chainClock \in Nat /\ q.recorded <= chainClock /\ TTL \in Nat /\ TTL > 0
  BY RowTyped, TimesTyped
<1>3. /\ \A w \in W : w.until \in Nat /\ chainClock < w.until
      /\ \E w \in W : w.until = q.until
  BY <1>1, WindowsEnd DEF Chain!Current
<1> HIDE DEF W
<1>4. /\ T \subseteq Nat /\ T # {} /\ q.until \in T
      /\ \A t \in T : chainClock < t
  BY <1>2, <1>3
<1>5. Chain!ValidUntil(k, chainClock) = Chain!Min(T)
  BY DEF Chain!ValidUntil, W
<1> HIDE DEF T
<1>6. Chain!Min(T) \in T /\ \A t \in T : Chain!Min(T) <= t
  BY <1>4, MinOf
<1> QED
  BY <1>1, <1>2, <1>4, <1>5, <1>6

-----------------------------------------------------------------------------
(* Steps of one call that write no row.                                    *)

\* A call that rests is one the code can have.
LEMMA RestingCall ==
    ASSUME part \in Parts, NEW code \in Chain!Answers
    PROVE  LET k == [Chain!IdleCall EXCEPT !.answer = code]
           IN  /\ k \in CallType(part) /\ k.phase = "idle" /\ k.mint = 0
               /\ k.answer = code
               /\ Chain!IdleCall \in CallType(part) /\ Chain!IdleCall.phase = "idle"
               /\ Chain!IdleCall.mint = 0 /\ Chain!IdleCall.answer = "none"
<1>1. (CHOOSE r \in part.refs : TRUE) \in part.refs /\ 0 \in 0 .. part.end
  BY PartFacts
<1> QED
  BY <1>1 DEF Chain!IdleCall, CallType, Chain!Phases, Chain!Answers

\* One call changes and says what the rows say.
LEMMA CallMoves ==
    ASSUME ChainInv, NEW c \in Calls, NEW k \in CallType(part),
           CallSound(part, rows, k, chainClock),
           chainCalls' = [chainCalls EXCEPT ![c] = k],
           k.mint # 0 => \A d \in Calls : chainCalls[d].mint # k.mint,
           UNCHANGED <<rows, chainClock, part>>
    PROVE  ChainInv'
<1>1. chainCalls \in [Calls -> CallType(part)]
  BY DEF ChainInv
<1>2. chainCalls'[c] = k /\ \A d \in Calls \ {c} : chainCalls'[d] = chainCalls[d]
  BY <1>1
<1>3. chainCalls' \in [Calls -> CallType(part)]
  BY <1>1
<1>4. \A d \in Calls : CallSound(part, rows, chainCalls'[d], chainClock)
  BY <1>2 DEF ChainInv
<1>5. \A d, e \in Calls : chainCalls'[d].mint = chainCalls'[e].mint
                          /\ chainCalls'[d].mint # 0 => d = e
  BY <1>2 DEF ChainInv
<1> QED
  BY <1>3, <1>4, <1>5 DEF ChainInv

\* A refused call says nothing.
LEMMA RefuseInv ==
    ASSUME ChainInv, NEW c \in Calls,
           NEW code \in {"quota_exceeded", "refused", "unavailable"},
           Chain!Refuse(c, code), UNCHANGED <<rows, chainClock, part>>
    PROVE  ChainInv'
<1> DEFINE k == [Chain!IdleCall EXCEPT !.answer = code]
<1>1. k \in CallType(part) /\ k.phase = "idle" /\ k.mint = 0 /\ k.answer = code
  BY RestingCall DEF ChainInv, Chain!Answers
<1>2. chainCalls' = [chainCalls EXCEPT ![c] = k]
  BY DEF Chain!Refuse
<1> HIDE DEF k
<1>3. CallSound(part, rows, k, chainClock)
  BY <1>1 DEF CallSound
<1> QED
  BY <1>1, <1>2, <1>3, CallMoves

\* Where requests are compared, a row is known by its stage and parent.
LEMMA SameParent ==
    ASSUME ChainInv, NEW r \in rows, NEW q \in rows, r.stage = q.stage,
           r.stage \in part.chain, r.stage \in ByRequest, r.parent = q.parent
    PROVE  r = q
<1>1. part.root \notin part.chain /\ r.stage # "plan" /\ r.stage # "queue"
      /\ r.stage \notin {"stub", "intake"}
  BY PartFacts DEF ChainInv, ByRequest
<1>2. Requested(part, rows, r) /\ Requested(part, rows, q)
  BY <1>1 DEF ChainInv, RowsSound, RowSound, RootSound
<1>3. r.ref = q.ref /\ r.item = q.item
  BY <1>1, <1>2 DEF Requested, ChainInv, RowsSound
<1> QED
  BY <1>1, <1>3 DEF ChainInv, RowsSound, OneChild

\* A call that has just begun.
AskedCall(s, q) ==
    [Chain!IdleCall EXCEPT !.stage = s, !.key = q.key, !.ref = q.ref,
                           !.parent = q.parent, !.item = q.item]

\* A request is well formed.
LEMMA RequestTyped ==
    ASSUME ChainInv, NEW s \in part.chain, NEW q \in Chain!Requests(s)
    PROVE  LET k == AskedCall(s, q)
           IN  /\ k \in CallType(part) /\ k.phase = "idle" /\ k.mint = 0
               /\ k.answer = "none" /\ k.stage = s /\ k.key = q.key /\ k.key \in Keys
               /\ k.ref = q.ref /\ k.parent = q.parent /\ k.item = q.item
               /\ Requested(part, rows, k)
<1> DEFINE k == AskedCall(s, q)
<1>1. /\ q.key \in Keys /\ q.ref \in part.refs /\ q.item \in 0 .. part.end
      /\ q.parent \in {r.mint : r \in {x \in rows : x.stage = Chain!StageOf[s].of}}
      /\ s # "plan" => q.ref = Chain!RowOf(q.parent).ref
      /\ s # "queue" => q.item = 0
  BY TypesOfPart DEF Chain!Requests
<1>2. PICK r \in rows : r.mint = q.parent /\ r.stage = Chain!StageOf[s].of
  BY <1>1
<1>3. Chain!RowOf(q.parent) = r /\ q.parent \in MintsOf(part)
  BY <1>2, RowNamed, RowTyped DEF ChainInv, RowsSound
<1>4. /\ Chain!IdleCall \in CallType(part) /\ Chain!IdleCall.phase = "idle"
      /\ Chain!IdleCall.mint = 0 /\ Chain!IdleCall.answer = "none"
      /\ s \in Chain!Stages
  BY RestingCall, PartFacts DEF ChainInv, Chain!Answers
<1>5. /\ k \in CallType(part) /\ k.phase = "idle" /\ k.mint = 0
      /\ k.answer = "none" /\ k.stage = s /\ k.key = q.key
      /\ k.ref = q.ref /\ k.parent = q.parent /\ k.item = q.item
  BY <1>1, <1>3, <1>4 DEF CallType, AskedCall
<1> HIDE DEF k
<1>6. Requested(part, rows, k)
  BY <1>1, <1>2, <1>3, <1>5 DEF Requested
<1> QED
  BY <1>1, <1>5, <1>6 DEF k

\* A request begins: it is taken up, or answered from the row of its key or of
\* its subject.
LEMMA RequestInv ==
    ASSUME ChainInv, NEW c \in Calls, NEW s \in part.chain,
           NEW q \in Chain!Requests(s), Chain!Begin(c, s, q), UNCHANGED part
    PROVE  ChainInv'
<1> DEFINE found == Chain!Resolved(s, q)
           asked == AskedCall(s, q)
<1>1. /\ asked \in CallType(part) /\ asked.phase = "idle" /\ asked.mint = 0
      /\ asked.answer = "none" /\ asked.stage = s /\ asked.key = q.key
      /\ asked.key \in Keys
      /\ asked.ref = q.ref /\ asked.parent = q.parent /\ asked.item = q.item
      /\ Requested(part, rows, asked)
  BY RequestTyped
<1>2. /\ UNCHANGED <<rows, chainClock, part>> /\ s \in Chain!Stages
      /\ found \subseteq rows
  BY PartFacts DEF Chain!Begin, Chain!Resolved, ChainInv
<1>3. \/ /\ found = {}
         /\ chainCalls' = [chainCalls EXCEPT ![c] = [asked EXCEPT !.phase = "reading"]]
      \/ \E r \in found :
            /\ Chain!SameRequest(r, q)
            /\ chainCalls' = [chainCalls EXCEPT ![c] =
                   [asked EXCEPT !.answer = "exact_duplicate", !.got = r.mint]]
      \/ /\ found # {}
         /\ ~ (Cardinality(found) = 1 /\ \A r \in found : Chain!SameRequest(r, q))
         /\ chainCalls' = [chainCalls EXCEPT ![c] = [asked EXCEPT !.answer = "conflict"]]
  BY SameCount DEF Chain!Begin, AskedCall
<1>4. \A r \in rows : r \in found <=>
         r.stage = s /\ (r.key = q.key \/ (Chain!StageOf[s].resolvesSubject
                                           /\ r.parent = q.parent))
  BY DEF Chain!Resolved
<1>5. \A r \in rows : Chain!SameRequest(r, q) <=>
         r.key = q.key /\ r.parent = q.parent /\ r.ref = q.ref /\ r.item = q.item
  BY DEF Chain!SameRequest, Chain!Agree
<1> HIDE DEF found, asked
<1>6. CASE chainCalls' = [chainCalls EXCEPT ![c] = [asked EXCEPT !.phase = "reading"]]
  <2> DEFINE k == [asked EXCEPT !.phase = "reading"]
  <2>1. /\ k \in CallType(part) /\ k.phase = "reading" /\ k.mint = 0
        /\ k.answer = "none" /\ k.stage = s /\ k.key = q.key /\ k.key \in Keys
        /\ k.ref = asked.ref /\ k.parent = asked.parent /\ k.item = asked.item
    BY <1>1 DEF CallType, Chain!Phases
  <2>2. chainCalls' = [chainCalls EXCEPT ![c] = k]
    BY <1>6
  <2> HIDE DEF k
  <2>3. Requested(part, rows, k)
    BY <1>1, <2>1 DEF Requested
  <2>4. CallSound(part, rows, k, chainClock)
    BY <2>1, <2>3 DEF CallSound
  <2> QED
    BY <1>2, <2>1, <2>2, <2>4, CallMoves
<1>7. ASSUME NEW r \in found, Chain!SameRequest(r, q),
             chainCalls' = [chainCalls EXCEPT ![c] =
                   [asked EXCEPT !.answer = "exact_duplicate", !.got = r.mint]]
      PROVE  ChainInv'
  <2> DEFINE k == [asked EXCEPT !.answer = "exact_duplicate", !.got = r.mint]
  <2>1. r.mint \in MintsOf(part) /\ r \in rows
    BY <1>2, RowTyped
  <2>2. /\ k \in CallType(part) /\ k.phase = "idle" /\ k.mint = 0
        /\ k.answer = "exact_duplicate" /\ k.got = r.mint
        /\ k.stage = s /\ k.key = q.key
        /\ k.ref = q.ref /\ k.parent = q.parent /\ k.item = q.item
    BY <1>1, <2>1 DEF CallType, Chain!Answers
  <2>3. chainCalls' = [chainCalls EXCEPT ![c] = k]
    BY <1>7
  <2> HIDE DEF k
  <2>4. SameRequests(r, k)
    BY <1>4, <1>5, <1>7, <2>1, <2>2 DEF SameRequests
  <2>5. CallSound(part, rows, k, chainClock)
    BY <2>1, <2>2, <2>4 DEF CallSound
  <2> QED
    BY <1>2, <2>2, <2>3, <2>5, CallMoves
<1>8. ASSUME found # {},
             ~ (Cardinality(found) = 1 /\ \A r \in found : Chain!SameRequest(r, q)),
             chainCalls' = [chainCalls EXCEPT ![c] = [asked EXCEPT !.answer = "conflict"]]
      PROVE  ChainInv'
  <2> DEFINE k == [asked EXCEPT !.answer = "conflict"]
  <2>1. /\ k \in CallType(part) /\ k.phase = "idle" /\ k.mint = 0
        /\ k.answer = "conflict" /\ k.stage = s /\ k.key = q.key
        /\ k.ref = q.ref /\ k.parent = q.parent /\ k.item = q.item
    BY <1>1 DEF CallType, Chain!Answers
  <2>2. chainCalls' = [chainCalls EXCEPT ![c] = k]
    BY <1>8
  <2> HIDE DEF k
  <2>3. ASSUME s \in ByRequest, NEW r \in rows, SameRequests(r, k) PROVE FALSE
    <3>1. r \in found /\ Chain!SameRequest(r, q)
      BY <1>4, <1>5, <2>1, <2>3 DEF SameRequests
    <3>2. ASSUME NEW x \in found PROVE x = r
      <4>1. x \in rows /\ x.stage = s /\ r.stage = s /\ r.key = q.key
            /\ r.parent = q.parent
        BY <1>2, <1>4, <2>1, <2>3 DEF SameRequests
      <4>2. x.key = q.key \/ x.parent = q.parent
        BY <1>4, <4>1
      <4>3. CASE x.key = q.key
        BY <4>1, <4>3 DEF ChainInv, RowsSound, OneKey
      <4>4. CASE x.parent = q.parent
        BY <4>1, <4>4, <2>3, SameParent
      <4> QED
        BY <4>2, <4>3, <4>4
    <3>3. found = {r}
      BY <3>1, <3>2
    <3>4. Cardinality(found) = 1
      BY <3>3, FS_Singleton
    <3> QED
      BY <1>8, <3>1, <3>3, <3>4
  <2>4. \E r \in rows : r.stage = s /\ (r.key = q.key \/ r.parent = q.parent)
    BY <1>2, <1>4, <1>8
  <2>5. CallSound(part, rows, k, chainClock)
    BY <2>1, <2>3, <2>4 DEF CallSound
  <2> QED
    BY <1>2, <2>1, <2>2, <2>5, CallMoves
<1> QED
  BY <1>3, <1>6, <1>7, <1>8

\* A request is validated: it takes a fresh id and the window its evidence
\* allows, or is refused.
LEMMA ValidateInv ==
    ASSUME ChainInv, NEW c \in Calls, Chain!Validate(c), UNCHANGED part
    PROVE  ChainInv'
<1> DEFINE q == chainCalls[c]
           ok == \A w \in Chain!Windows(q, chainClock) : Chain!Current(w, chainClock)
           m == Chain!Min(Chain!Mints \ Chain!Used)
           u == Chain!ValidUntil(q, chainClock)
<1>1. /\ q.phase = "reading" /\ UNCHANGED <<chainClock, rows, part>>
      /\ \/ /\ ok
            /\ chainCalls' = [chainCalls EXCEPT ![c].phase = "appending",
                     ![c].mint = m, ![c].recorded = chainClock, ![c].until = u]
         \/ ~ ok /\ Chain!Refuse(c, "refused")
  BY DEF Chain!Validate
<1>2. /\ q \in CallType(part) /\ CallSound(part, rows, q, chainClock)
      /\ chainCalls \in [Calls -> CallType(part)] /\ chainClock \in 0 .. part.end
      /\ part \in Parts
  BY DEF ChainInv
<1>3. Requested(part, rows, q) /\ q.key \in Keys /\ q.mint = 0
  BY <1>1, <1>2 DEF CallSound
<1>4. CASE ok /\ chainCalls' = [chainCalls EXCEPT ![c].phase = "appending",
                     ![c].mint = m, ![c].recorded = chainClock, ![c].until = u]
  <2>1. /\ u \in Nat /\ chainClock < u
        /\ \E x \in rows : /\ x.mint = q.parent /\ x.recorded <= chainClock
                           /\ chainClock < x.until /\ u <= x.until
    BY <1>2, <1>3, <1>4, Validated
  <2>2. m \in MintsOf(part) /\ m \notin Chain!Used
    BY <1>3, FreshMint
  <2> HIDE DEF m, u, ok
  <2> DEFINE k == [q EXCEPT !.phase = "appending", !.mint = m,
                            !.recorded = chainClock, !.until = u]
  <2>3. /\ k \in CallType(part) /\ k.phase = "appending" /\ k.mint = m
        /\ k.recorded = chainClock /\ k.until = u /\ k.stage = q.stage
        /\ k.key = q.key /\ k.parent = q.parent /\ k.ref = q.ref /\ k.item = q.item
        /\ k.answer = q.answer /\ k.got = q.got
    BY <1>2, <2>1, <2>2 DEF CallType, Chain!Phases
  <2>4. chainCalls' = [chainCalls EXCEPT ![c] = k]
    BY <1>2, <1>4
  <2> HIDE DEF k
  <2>5. Requested(part, rows, k)
    BY <1>3, <2>3 DEF Requested
  <2>6. Within(rows, k, chainClock)
    <3>1. chainClock \in Nat
      BY <1>2, PartFacts
    <3> QED
      BY <2>1, <2>3, <3>1 DEF Within
  <2>7. m # 0 /\ (\A r \in rows : r.mint # m) /\ \A d \in Calls : chainCalls[d].mint # m
    BY <2>2 DEF MintsOf, Chain!Used
  <2>8. CallSound(part, rows, k, chainClock)
    <3>1. /\ k.phase # "idle" => Requested(part, rows, k) /\ k.key \in Keys
          /\ k.phase # "appending" => k.mint = 0
          /\ k.phase = "appending" => k.mint # 0 /\ Within(rows, k, chainClock)
                                      /\ \A r \in rows : r.mint # k.mint
      BY <1>3, <2>3, <2>5, <2>6, <2>7
    <3>2. \A r \in rows : SameRequests(r, k) <=> SameRequests(r, q)
      BY <2>3 DEF SameRequests
    <3> QED
      BY <3>1, <3>2, <1>2, <2>3 DEF CallSound
  <2> QED
    BY <1>1, <2>3, <2>4, <2>7, <2>8, CallMoves
<1>5. CASE Chain!Refuse(c, "refused")
  BY <1>1, <1>5, RefuseInv
<1> QED
  BY <1>1, <1>4, <1>5

\* A call ends without an answer from the store.
LEMMA FailInv ==
    ASSUME ChainInv, NEW c \in Calls, Chain!Fail(c), UNCHANGED part
    PROVE  ChainInv'
BY RefuseInv DEF Chain!Fail

-----------------------------------------------------------------------------
(* The one step that writes.                                               *)

\* Where requests are compared, a row of the same parent records the same
\* request.
LEMMA SameSubject ==
    ASSUME ChainInv, NEW r \in rows, NEW k, Requested(part, rows, k),
           r.stage = k.stage, k.stage \in ByRequest, r.parent = k.parent
    PROVE  r.ref = k.ref /\ r.item = k.item
<1>1. /\ part.root \notin part.chain /\ k.stage \in part.chain
      /\ k.stage # "plan" /\ k.stage # "queue"
  BY PartFacts DEF ChainInv, ByRequest, Requested
<1>2. Requested(part, rows, r)
  BY <1>1 DEF ChainInv, RowsSound, RowSound, RootSound
<1> QED
  BY <1>1, <1>2 DEF Requested, ChainInv, RowsSound

\* What a call is told, and what it forgets.
AnsweredCall(k, code, m) ==
    [k EXCEPT !.phase = "idle", !.answer = code, !.got = m,
              !.mint = 0, !.recorded = 0, !.until = 0]

\* An answered call remembers its request.
LEMMA AnsweredTyped ==
    ASSUME ChainInv, NEW c \in Calls, NEW code \in Chain!Answers,
           NEW m \in MintsOf(part) \cup {0}, Chain!Answer(c, code, m)
    PROVE  LET k == AnsweredCall(chainCalls[c], code, m)
           IN  /\ k \in CallType(part) /\ k.phase = "idle" /\ k.mint = 0
               /\ k.answer = code /\ k.got = m
               /\ k.stage = chainCalls[c].stage /\ k.key = chainCalls[c].key
               /\ k.parent = chainCalls[c].parent /\ k.ref = chainCalls[c].ref
               /\ k.item = chainCalls[c].item
               /\ chainCalls' = [chainCalls EXCEPT ![c] = k]
<1>1. /\ chainCalls \in [Calls -> CallType(part)] /\ chainCalls[c] \in CallType(part)
      /\ 0 \in 0 .. part.end
  BY PartFacts DEF ChainInv
<1>2. chainCalls' = [chainCalls EXCEPT ![c] = AnsweredCall(chainCalls[c], code, m)]
  BY <1>1 DEF Chain!Answer, AnsweredCall
<1> QED
  BY <1>1, <1>2 DEF CallType, Chain!Phases, AnsweredCall

\* The request was recorded before.
LEMMA DuplicateInv ==
    ASSUME ChainInv, NEW c \in Calls, chainCalls[c].phase = "appending",
           NEW r \in Chain!Clashes(chainCalls[c]),
           Chain!Agree(r, chainCalls[c], Chain!StageOf[chainCalls[c].stage].same),
           Chain!Answer(c, "exact_duplicate", r.mint),
           UNCHANGED <<rows, chainClock, part>>
    PROVE  ChainInv'
<1> DEFINE q == chainCalls[c]
           k == AnsweredCall(q, "exact_duplicate", r.mint)
<1>1. r \in rows /\ r.stage = q.stage /\ r.mint \in MintsOf(part)
  BY RowTyped DEF Chain!Clashes
<1>2. Requested(part, rows, q) /\ q.stage \in part.chain /\ q.stage \in Chain!Stages
  BY PartFacts DEF ChainInv, CallSound, Requested
<1>3. /\ k \in CallType(part) /\ k.phase = "idle" /\ k.mint = 0
      /\ k.answer = "exact_duplicate" /\ k.got = r.mint
      /\ k.stage = q.stage /\ k.key = q.key /\ k.parent = q.parent /\ k.ref = q.ref
      /\ k.item = q.item
      /\ chainCalls' = [chainCalls EXCEPT ![c] = k]
  BY <1>1, AnsweredTyped DEF Chain!Answers
<1>4. r.key = q.key /\ r.parent = q.parent
  BY <1>2, StageFacts DEF Chain!Agree
<1>5. r.ref = q.ref /\ r.item = q.item
  <2>1. CASE q.stage \in ByRequest
    BY <1>1, <1>2, <1>4, <2>1, SameSubject
  <2>2. CASE q.stage \notin ByRequest
    BY <1>2, <2>2, StageFacts DEF Chain!Agree
  <2> QED
    BY <2>1, <2>2
<1> HIDE DEF k
<1>6. CallSound(part, rows, k, chainClock)
  BY <1>1, <1>3, <1>4, <1>5 DEF CallSound, SameRequests
<1> QED
  BY <1>3, <1>6, CallMoves

\* Another request holds the key or the subject.
LEMMA ConflictInv ==
    ASSUME ChainInv, NEW c \in Calls, chainCalls[c].phase = "appending",
           Chain!Clashes(chainCalls[c]) # {},
           ~ (/\ Cardinality(Chain!Clashes(chainCalls[c])) = 1
              /\ \A r \in Chain!Clashes(chainCalls[c]) :
                    Chain!Agree(r, chainCalls[c],
                                Chain!StageOf[chainCalls[c].stage].same)),
           Chain!Answer(c, "conflict", 0),
           UNCHANGED <<rows, chainClock, part>>
    PROVE  ChainInv'
<1> DEFINE q == chainCalls[c]
           hits == Chain!Clashes(q)
           k == AnsweredCall(q, "conflict", 0)
<1>1. /\ Requested(part, rows, q) /\ q.stage \in part.chain
      /\ q.stage \in Chain!Stages /\ \A r \in rows : r.mint # q.mint
  BY PartFacts DEF ChainInv, CallSound, Requested
<1>2. /\ k \in CallType(part) /\ k.phase = "idle" /\ k.mint = 0
      /\ k.answer = "conflict"
      /\ k.stage = q.stage /\ k.key = q.key /\ k.parent = q.parent /\ k.ref = q.ref
      /\ k.item = q.item
      /\ chainCalls' = [chainCalls EXCEPT ![c] = k]
  BY AnsweredTyped DEF Chain!Answers
<1>3. ASSUME q.stage \in ByRequest
      PROVE  \A r \in rows : r \in hits <=>
                r.stage = q.stage /\ (r.key = q.key \/ r.parent = q.parent)
  <2>1. Chain!StageOf[q.stage].fence = {"parent"}
    BY <1>1, <1>3, StageFacts
  <2> QED
    BY <1>1, <2>1 DEF Chain!Clashes, Chain!Agree
<1>4. hits \subseteq rows /\ hits # {}
  BY DEF Chain!Clashes
<1>5. ~ (/\ Cardinality(hits) = 1
         /\ \A r \in hits : Chain!Agree(r, q, Chain!StageOf[q.stage].same))
  OBVIOUS
<1> HIDE DEF k, hits
<1>6. ASSUME q.stage \in ByRequest, NEW r \in rows, SameRequests(r, k) PROVE FALSE
  <2>1. /\ r.stage = q.stage /\ r.key = q.key /\ r.parent = q.parent
        /\ r.ref = q.ref /\ r.item = q.item
    BY <1>2, <1>6 DEF SameRequests
  <2>2. r \in hits
    BY <1>3, <1>6, <2>1
  <2>3. ASSUME NEW x \in hits PROVE x = r
    <3>1. x \in rows /\ x.stage = r.stage /\ (x.key = r.key \/ x.parent = r.parent)
      BY <1>3, <1>4, <1>6, <2>1
    <3>2. CASE x.key = r.key
      BY <3>1, <3>2 DEF ChainInv, RowsSound, OneKey
    <3>3. CASE x.parent = r.parent
      BY <1>1, <1>6, <2>1, <3>1, <3>3, SameParent
    <3> QED
      BY <3>1, <3>2, <3>3
  <2>4. hits = {r} /\ Cardinality(hits) = 1
    <3>1. hits = {r}
      BY <2>2, <2>3
    <3> QED
      BY <3>1, FS_Singleton
  <2>5. Chain!Agree(r, q, Chain!StageOf[q.stage].same)
    <3>1. Chain!StageOf[q.stage].same \subseteq {"key", "parent", "ref", "item"}
      BY <1>1, <1>6, StageFacts
    <3> QED
      BY <2>1, <3>1 DEF Chain!Agree
  <2> QED
    BY <1>5, <2>4, <2>5
<1>7. q.stage \in ByRequest =>
         \E r \in rows : r.stage = q.stage /\ (r.key = q.key \/ r.parent = q.parent)
  BY <1>3, <1>4
<1>8. CallSound(part, rows, k, chainClock)
  BY <1>2, <1>6, <1>7 DEF CallSound
<1> QED
  BY <1>2, <1>8, CallMoves

\* A row that clashes with none of the rows joins them.
LEMMA NewRowInv ==
    ASSUME ChainInv, NEW c \in Calls, chainCalls[c].phase = "appending",
           Chain!Clashes(chainCalls[c]) = {}, Chain!QuotaLeft(chainCalls[c].stage),
           NEW x, x = [stage |-> chainCalls[c].stage, mint |-> chainCalls[c].mint,
                       key |-> chainCalls[c].key, parent |-> chainCalls[c].parent,
                       ref |-> chainCalls[c].ref, item |-> chainCalls[c].item,
                       recorded |-> chainCalls[c].recorded,
                       until |-> chainCalls[c].until],
           rows' = rows \cup {x},
           Chain!Answer(c, "recorded", chainCalls[c].mint),
           UNCHANGED <<chainClock, part>>
    PROVE  ChainInv'
<1> DEFINE q == chainCalls[c]
           k == AnsweredCall(q, "recorded", q.mint)
           N == rows \cup {x}
<1>1. /\ q \in CallType(part) /\ CallSound(part, rows, q, chainClock)
      /\ chainCalls \in [Calls -> CallType(part)] /\ part \in Parts
      /\ RowsSound(part, rows, chainClock) /\ chainClock \in 0 .. part.end
  BY DEF ChainInv
<1>2. /\ Requested(part, rows, q) /\ q.stage \in part.chain /\ q.key \in Keys
      /\ q.stage \in Chain!Stages /\ q.mint # 0 /\ Within(rows, q, chainClock)
      /\ part.root \notin part.chain /\ q.mint \in MintsOf(part)
      /\ q.stage # part.root /\ \A r \in rows : r.mint # q.mint
  BY <1>1, PartFacts DEF CallSound, Requested, CallType
<1>3. /\ x \in RowType(part)
      /\ x.stage = q.stage /\ x.mint = q.mint /\ x.key = q.key
      /\ x.parent = q.parent /\ x.ref = q.ref /\ x.item = q.item
      /\ x.recorded = q.recorded /\ x.until = q.until
  BY <1>1, <1>2 DEF CallType, RowType
<1>4. \A r \in rows : r.stage = q.stage =>
         r.key # q.key /\ ~ Chain!Agree(r, q, Chain!StageOf[q.stage].fence)
  BY DEF Chain!Clashes
<1>5. /\ k \in CallType(part) /\ k.phase = "idle" /\ k.mint = 0
      /\ k.answer = "recorded" /\ k.got = q.mint
      /\ k.stage = q.stage /\ k.key = q.key /\ k.parent = q.parent /\ k.ref = q.ref
      /\ k.item = q.item
      /\ chainCalls' = [chainCalls EXCEPT ![c] = k]
  BY <1>2, AnsweredTyped DEF Chain!Answers
<1>6. Requested(part, N, x) /\ Within(N, x, chainClock)
  BY <1>2, <1>3 DEF Requested, Within
<1>7. ASSUME NEW y, Requested(part, rows, y) PROVE Requested(part, N, y)
  BY <1>7 DEF Requested
<1>8. ASSUME NEW y, Within(rows, y, chainClock) PROVE Within(N, y, chainClock)
  BY <1>8 DEF Within
<1>9. RowsSound(part, N, chainClock)
  <2>1. N \subseteq RowType(part) /\ IsFiniteSet(N)
    BY <1>1, <1>3, FS_AddElement DEF RowsSound
  <2>2. \A r, s \in N : r.mint = s.mint => r = s
    BY <1>1, <1>2, <1>3 DEF RowsSound
  <2>3. \A r \in N : RowSound(part, N, r, chainClock)
    BY <1>1, <1>6, <1>7, <1>8 DEF RowsSound, RowSound
  <2>4. OneChild(N)
    <3>1. ASSUME NEW r \in rows, r.stage = x.stage, r.stage \notin {"stub", "intake"},
                 r.parent = x.parent, r.ref = x.ref, r.item = x.item
          PROVE  FALSE
      <4>1. Chain!StageOf[q.stage].fence \subseteq {"parent", "ref", "item"}
        BY <1>2, <1>3, <3>1, StageFacts
      <4> QED
        BY <1>3, <1>4, <3>1, <4>1 DEF Chain!Agree
    <3> QED
      BY <1>1, <3>1 DEF OneChild, RowsSound
  <2>5. OneKey(N)
    BY <1>1, <1>3, <1>4 DEF OneKey, RowsSound
  <2>6. ASSUME NEW s \in part.chain
        PROVE  Cardinality(OfStage(N, s)) <= part.quota
    <3>1. CASE s # q.stage
      <4>1. OfStage(N, s) = OfStage(rows, s)
        BY <1>3, <3>1 DEF OfStage
      <4> QED
        BY <1>1, <4>1 DEF RowsSound
    <3>2. CASE s = q.stage
      <4>1. OfStage(N, s) = OfStage(rows, s) \cup {x}
        BY <1>3, <3>2 DEF OfStage
      <4>2. IsFiniteSet(OfStage(rows, s))
        BY <1>1, FS_Subset DEF RowsSound, OfStage
      <4>3. Cardinality(OfStage(rows, s)) < part.quota
        BY <3>2, SameCount DEF Chain!QuotaLeft, OfStage
      <4> DEFINE S == OfStage(rows, s)
      <4>4. Cardinality(S) \in Nat /\ part.quota \in Nat
        BY <1>1, <4>2, FS_CardinalityType, PartFacts
      <4> HIDE DEF S
      <4>5. Cardinality(S \cup {x}) = IF x \in S THEN Cardinality(S) ELSE Cardinality(S) + 1
        BY <4>2, FS_AddElement DEF S
      <4>6. Cardinality(S \cup {x}) <= part.quota
        BY <4>3, <4>4, <4>5 DEF S
      <4> QED
        BY <4>1, <4>6 DEF S
    <3> QED
      BY <3>1, <3>2
  <2> QED
    BY <2>1, <2>2, <2>3, <2>4, <2>5, <2>6 DEF RowsSound
<1>10. CallSound(part, N, k, chainClock)
  BY <1>3, <1>5 DEF CallSound, SameRequests
<1>11. ASSUME NEW d \in Calls, d # c
       PROVE  CallSound(part, N, chainCalls[d], chainClock)
  <2> DEFINE e == chainCalls[d]
  <2>1. CallSound(part, rows, e, chainClock) /\ (e.mint # 0 => e.mint # q.mint)
    BY <1>2, <1>11 DEF ChainInv
  <2> HIDE DEF e
  <2>2. /\ e.phase # "idle" => Requested(part, N, e) /\ e.key \in Keys
        /\ e.phase # "appending" => e.mint = 0
        /\ e.phase = "appending" =>
              e.mint # 0 /\ Within(N, e, chainClock) /\ \A r \in N : r.mint # e.mint
    BY <2>1, <1>3, <1>7, <1>8 DEF CallSound
  <2>3. e.answer \in {"recorded", "exact_duplicate"} =>
           \E r \in N : r.mint = e.got /\ SameRequests(r, e)
    BY <2>1 DEF CallSound
  <2>4. ASSUME e.answer = "conflict", e.stage \in ByRequest, SameRequests(x, e)
        PROVE  FALSE
    <3>1. PICK r \in rows : r.stage = e.stage /\ (r.key = e.key \/ r.parent = e.parent)
      BY <2>1, <2>4 DEF CallSound
    <3>2. e.stage = q.stage /\ e.key = q.key /\ e.parent = q.parent
      BY <1>3, <2>4 DEF SameRequests
    <3>3. Chain!StageOf[q.stage].fence = {"parent"}
      BY <1>2, <2>4, <3>2, StageFacts
    <3> QED
      BY <1>4, <3>1, <3>2, <3>3 DEF Chain!Agree
  <2>5. e.answer = "conflict" /\ e.stage \in ByRequest =>
           /\ \E r \in N : r.stage = e.stage /\ (r.key = e.key \/ r.parent = e.parent)
           /\ ~ \E r \in N : SameRequests(r, e)
    BY <2>1, <2>4 DEF CallSound
  <2>6. CallSound(part, N, e, chainClock)
    BY <2>2, <2>3, <2>5 DEF CallSound
  <2> QED
    BY <2>6 DEF e
<1> HIDE DEF k
<1>12. chainCalls'[c] = k /\ \A d \in Calls \ {c} : chainCalls'[d] = chainCalls[d]
  BY <1>1, <1>5
<1>13. chainCalls' \in [Calls -> CallType(part)]
  BY <1>1, <1>5
<1>14. \A d \in Calls : CallSound(part, N, chainCalls'[d], chainClock)
  BY <1>10, <1>11, <1>12
<1>15. \A d, e \in Calls : chainCalls'[d].mint = chainCalls'[e].mint
                           /\ chainCalls'[d].mint # 0 => d = e
  BY <1>5, <1>12 DEF ChainInv
<1> QED
  BY <1>1, <1>9, <1>13, <1>14, <1>15 DEF ChainInv

\* The write transaction.
LEMMA AppendInv ==
    ASSUME ChainInv, NEW c \in Calls, Chain!Append(c), UNCHANGED part
    PROVE  ChainInv'
<1> DEFINE q == chainCalls[c]
           hits == Chain!Clashes(q)
           same == Cardinality(hits) = 1 /\ \A r \in hits :
                      Chain!Agree(r, q, Chain!StageOf[q.stage].same)
           x == [stage |-> q.stage, mint |-> q.mint, key |-> q.key,
                 parent |-> q.parent, ref |-> q.ref, item |-> q.item,
                 recorded |-> q.recorded, until |-> q.until]
<1>1. /\ q.phase = "appending" /\ UNCHANGED chainClock
      /\ \/ /\ hits = {} /\ Chain!QuotaLeft(q.stage)
            /\ rows' = rows \cup {x} /\ Chain!Answer(c, "recorded", q.mint)
         \/ Chain!Refuse(c, "quota_exceeded") /\ UNCHANGED rows
         \/ /\ same /\ UNCHANGED rows
            /\ \E r \in hits : Chain!Answer(c, "exact_duplicate", r.mint)
         \/ /\ hits # {} /\ ~ same
            /\ Chain!Answer(c, "conflict", 0) /\ UNCHANGED rows
  BY SameCount DEF Chain!Append
<1>2. CASE /\ hits = {} /\ Chain!QuotaLeft(q.stage)
           /\ rows' = rows \cup {x} /\ Chain!Answer(c, "recorded", q.mint)
  BY <1>1, <1>2, NewRowInv
<1>3. CASE Chain!Refuse(c, "quota_exceeded") /\ UNCHANGED rows
  BY <1>1, <1>3, RefuseInv
<1>4. CASE /\ same /\ UNCHANGED rows
           /\ \E r \in hits : Chain!Answer(c, "exact_duplicate", r.mint)
  BY <1>1, <1>4, DuplicateInv
<1>5. CASE /\ hits # {} /\ ~ same
           /\ Chain!Answer(c, "conflict", 0) /\ UNCHANGED rows
  BY <1>1, <1>5, ConflictInv
<1> QED
  BY <1>1, <1>2, <1>3, <1>4, <1>5

-----------------------------------------------------------------------------
(* Every step keeps the invariant.                                         *)

\* The calls under way are gone, the rows are not.
LEMMA RestartInv ==
    ASSUME ChainInv, Chain!Crash, UNCHANGED part
    PROVE  ChainInv'
<1> DEFINE k == Chain!IdleCall
<1>1. /\ part \in Parts /\ k \in CallType(part) /\ k.phase = "idle" /\ k.mint = 0
      /\ k.answer = "none"
  BY RestingCall DEF ChainInv, Chain!Answers
<1>2. chainCalls' = [c \in Calls |-> k] /\ UNCHANGED <<chainClock, rows, part>>
  BY DEF Chain!Crash
<1> HIDE DEF k
<1>3. CallSound(part, rows, k, chainClock)
  BY <1>1 DEF CallSound
<1>4. chainCalls' \in [Calls -> CallType(part)] /\ \A c \in Calls : chainCalls'[c] = k
  BY <1>1, <1>2
<1> QED
  BY <1>1, <1>2, <1>3, <1>4 DEF ChainInv

\* What was sound stays so as the clock moves on.
LEMMA ChainTickInv ==
    ASSUME ChainInv, Chain!Tick, UNCHANGED part
    PROVE  ChainInv'
<1>1. /\ part \in Parts /\ chainClock \in 0 .. part.end /\ chainClock < part.end
      /\ chainClock' = chainClock + 1 /\ UNCHANGED <<rows, chainCalls, part>>
      /\ part.end \in Nat
  BY PartFacts DEF ChainInv, Chain!Tick
<1>2. chainClock' \in 0 .. part.end /\ chainClock <= chainClock'
  BY <1>1
<1>3. \A r \in rows : RowSound(part, rows, r, chainClock')
  <2>1. ASSUME NEW r \in rows PROVE RowSound(part, rows, r, chainClock')
    <3>1. r.recorded <= chainClock' /\ RowSound(part, rows, r, chainClock)
      BY <1>1, RowTyped DEF ChainInv, RowsSound
    <3> QED
      BY <3>1 DEF RowSound, RootSound, Within
  <2> QED
    BY <2>1
<1>4. \A c \in Calls : CallSound(part, rows, chainCalls[c], chainClock')
  <2>1. ASSUME NEW c \in Calls
        PROVE  CallSound(part, rows, chainCalls[c], chainClock')
    <3>1. /\ chainCalls[c].recorded \in 0 .. part.end
          /\ CallSound(part, rows, chainCalls[c], chainClock)
      BY DEF ChainInv, CallType
    <3> QED
      BY <1>1, <3>1 DEF CallSound, Within
  <2> QED
    BY <2>1
<1> QED
  BY <1>1, <1>2, <1>3, <1>4 DEF ChainInv, RowsSound

\* The part's one record is its own root.
LEMMA ChainInitInv ==
    ASSUME Chain!Init
    PROVE  ChainInv
<1>1. PICK ref \in part.refs : rows = {Chain!RootRow(ref)}
  BY DEF Chain!Init
<1> DEFINE r == Chain!RootRow(ref)
<1>2. /\ part \in Parts /\ chainClock = 0
      /\ chainCalls = [c \in Calls |-> Chain!IdleCall]
  BY DEF Chain!Init
<1>3. /\ r \in RowType(part) /\ r.stage = part.root /\ r.parent = 0
      /\ r.key = "none" /\ r.recorded = 0 /\ r.until = TTL
  <2>1. 1 \in MintsOf(part)
    <3>1. /\ part.quota * Cardinality(part.chain) \in Nat /\ Cardinality(Calls) \in Nat
      BY <1>2, PartFacts, TimesTyped
    <3> DEFINE n == part.quota * Cardinality(part.chain)
    <3> HIDE DEF n
    <3>2. 1 \in 1 .. 1 + n + Cardinality(Calls)
      BY <3>1 DEF n
    <3> QED
      BY <3>2 DEF n, MintsOf
  <2>2. 0 \in 0 .. part.end /\ TTL \in Nat /\ part.root \in Chain!Stages \cup {"review"}
    BY <1>2, PartFacts, TimesTyped
  <2> QED
    BY <2>1, <2>2 DEF Chain!RootRow, RowType
<1> HIDE DEF r
<1>4. rows = {r}
  BY <1>1 DEF r
<1>5. RowSound(part, rows, r, 0)
  BY <1>3, TimesTyped DEF RowSound, RootSound
<1>6. \A s \in part.chain : Cardinality(OfStage(rows, s)) <= part.quota
  <2>1. ASSUME NEW s \in part.chain PROVE OfStage(rows, s) = {}
    BY <1>2, <1>3, <1>4, PartFacts DEF OfStage
  <2>2. Cardinality({}) = 0 /\ part.quota \in Nat
    BY <1>2, FS_EmptySet, PartFacts
  <2>3. ASSUME NEW s \in part.chain
        PROVE  Cardinality(OfStage(rows, s)) <= part.quota
    <3>1. Cardinality(OfStage(rows, s)) = 0
      BY <2>1, <2>2
    <3> QED
      BY <2>2, <3>1
  <2> QED
    BY <2>3
<1>7. RowsSound(part, rows, chainClock)
  <2>1. IsFiniteSet(rows)
    BY <1>4, FS_Singleton
  <2> QED
    BY <1>2, <1>3, <1>4, <1>5, <1>6, <2>1 DEF RowsSound, OneChild, OneKey
<1>8. /\ Chain!IdleCall \in CallType(part) /\ Chain!IdleCall.phase = "idle"
      /\ Chain!IdleCall.mint = 0 /\ Chain!IdleCall.answer = "none"
  BY <1>2, RestingCall DEF Chain!Answers
<1>9. /\ chainCalls \in [Calls -> CallType(part)]
      /\ \A c \in Calls : chainCalls[c] = Chain!IdleCall
  BY <1>2, <1>8
<1>10. CallSound(part, rows, Chain!IdleCall, chainClock)
  BY <1>8 DEF CallSound
<1>11. chainClock \in 0 .. part.end
  BY <1>2, PartFacts
<1> QED
  BY <1>2, <1>7, <1>8, <1>9, <1>10, <1>11 DEF ChainInv

\* Each step of the stores, and each step that leaves them alone.
LEMMA ChainStepInv ==
    ASSUME ChainInv, Chain!Next \/ UNCHANGED chainVars
    PROVE  ChainInv'
<1>1. CASE UNCHANGED chainVars
  BY <1>1 DEF chainVars, ChainInv
<1>2. CASE Chain!Next
  <2>1. UNCHANGED part
    BY <1>2 DEF Chain!Next
  <2>2. ASSUME NEW c \in Calls, NEW s \in part.chain, NEW q \in Chain!Requests(s),
               Chain!Begin(c, s, q)
        PROVE  ChainInv'
    BY <2>1, <2>2, RequestInv
  <2>3. ASSUME NEW c \in Calls, Chain!Validate(c) PROVE ChainInv'
    BY <2>1, <2>3, ValidateInv
  <2>4. ASSUME NEW c \in Calls, Chain!Append(c) PROVE ChainInv'
    BY <2>1, <2>4, AppendInv
  <2>5. ASSUME NEW c \in Calls, Chain!Fail(c) PROVE ChainInv'
    BY <2>1, <2>5, FailInv
  <2>6. CASE Chain!Crash
    BY <2>1, <2>6, RestartInv
  <2>7. CASE Chain!Tick
    BY <2>1, <2>7, ChainTickInv
  <2> QED
    BY <1>2, <2>2, <2>3, <2>4, <2>5, <2>6, <2>7 DEF Chain!Next
<1> QED
  BY <1>1, <1>2

-----------------------------------------------------------------------------
(* What the invariant says of a record's ancestors.                        *)

\* The rows found in at most n steps from parent to parent.
IsClimb(r, K, f) ==
    f = [n \in 0 .. K |-> IF n = 0 THEN {r}
                          ELSE f[n - 1] \cup {q \in rows : \E x \in f[n - 1] : q.mint = x.parent}]

\* Some rows and those they follow from.
Above(S) == S \cup {q \in rows : \E x \in S : q.mint = x.parent}

\* However many steps, there is such a climb.
LEMMA ClimbExists ==
    ASSUME NEW r, NEW K \in Nat
    PROVE  \E f : IsClimb(r, K, f)
<1> DEFINE Bad == {m \in Nat : ~ \E f : IsClimb(r, m, f)}
<1>1. SUFFICES ASSUME Bad # {} PROVE FALSE
  OBVIOUS
<1>2. PICK m \in Bad : \A k \in Bad : m <= k
  <2> HIDE DEF Bad
  <2>1. Bad \subseteq Nat
    BY DEF Bad
  <2> QED
    BY <1>1, <2>1, LeastNumber
<1>3. CASE m = 0
  <2> DEFINE f == [n \in 0 .. 0 |-> {r}]
  <2>1. IsClimb(r, 0, f)
    BY DEF IsClimb
  <2> HIDE DEF f
  <2> QED
    BY <1>3, <2>1
<1>4. CASE m # 0
  <2>1. m - 1 \in Nat /\ ~ (m - 1 \in Bad)
    BY <1>2, <1>4
  <2>2. PICK f : IsClimb(r, m - 1, f)
    BY <2>1
  <2> DEFINE g == [n \in 0 .. m |-> IF n = m THEN Above(f[m - 1]) ELSE f[n]]
  <2>3. \A n \in 0 .. m - 1 : f[n] = IF n = 0 THEN {r} ELSE Above(f[n - 1])
    BY <2>1, <2>2 DEF IsClimb, Above
  <2>4. g = [n \in 0 .. m |-> IF n = 0 THEN {r} ELSE Above(g[n - 1])]
    <3>1. ASSUME NEW n \in 0 .. m
          PROVE  g[n] = IF n = 0 THEN {r} ELSE Above(g[n - 1])
      <4>1. CASE n = m
        BY <1>4, <2>1, <4>1
      <4>2. CASE n # m
        <5>1. n \in 0 .. m - 1 /\ g[n] = f[n]
          BY <2>1, <4>2
        <5>2. n # 0 => n - 1 \in 0 .. m /\ n - 1 # m /\ g[n - 1] = f[n - 1]
          BY <2>1, <4>2
        <5> HIDE DEF g
        <5> QED
          BY <2>3, <5>1, <5>2
      <4> QED
        BY <4>1, <4>2
    <3>2. g = [n \in 0 .. m |-> g[n]]
      OBVIOUS
    <3> HIDE DEF g
    <3> QED
      BY <3>1, <3>2
  <2> HIDE DEF g
  <2>5. IsClimb(r, m, g)
    BY <2>4 DEF IsClimb, Above
  <2> QED
    BY <2>5
<1> QED
  BY <1>3, <1>4

\* The row a was valid when r was recorded and is valid for as long.
Outlives(a, r) ==
    /\ a \in rows /\ a.recorded <= r.recorded
    /\ r.recorded < a.until /\ r.until <= a.until

\* Each step up leads to a row that was valid when the record was made and is
\* valid for as long.
LEMMA ClimbSound ==
    ASSUME ChainInv, NEW r \in rows, NEW K \in Nat, NEW f, IsClimb(r, K, f),
           NEW n \in 0 .. K
    PROVE  \A a \in f[n] : Outlives(a, r)
<1> DEFINE Bad == {m \in 0 .. K : ~ \A a \in f[m] : Outlives(a, r)}
<1>1. SUFFICES ASSUME Bad # {} PROVE FALSE
  OBVIOUS
<1>2. PICK m \in Bad : \A k \in Bad : m <= k
  <2>1. Bad \subseteq Nat
    OBVIOUS
  <2> HIDE DEF Bad
  <2> QED
    BY <1>1, <2>1, LeastNumber
<1>3. f[m] = IF m = 0 THEN {r} ELSE Above(f[m - 1])
  BY DEF IsClimb, Above
<1>4. r.recorded \in Nat /\ r.until \in Nat /\ r.recorded < r.until
  BY RowTyped DEF ChainInv, RowsSound, RowSound, RootSound, Within
<1>5. CASE m = 0
  BY <1>2, <1>3, <1>4, <1>5 DEF Outlives
<1>6. CASE m # 0
  <2>1. m - 1 \in 0 .. K /\ m - 1 \notin Bad
    BY <1>2, <1>6
  <2>2. \A a \in f[m - 1] : Outlives(a, r)
    BY <2>1
  <2>3. ASSUME NEW x \in f[m - 1], NEW q \in rows, q.mint = x.parent
        PROVE  Outlives(q, r)
    <3>1. x \in rows /\ Outlives(x, r)
      BY <2>2 DEF Outlives
    <3>2. q.mint \in MintsOf(part) /\ q.recorded \in Nat /\ q.until \in Nat
      BY RowTyped
    <3>3. x.recorded \in Nat /\ x.until \in Nat
      BY <3>1, RowTyped
    <3>4. x.parent # 0
      BY <2>3, <3>2 DEF MintsOf
    <3>5. Within(rows, x, chainClock)
      BY <3>1, <3>4 DEF ChainInv, RowsSound, RowSound, RootSound
    <3>6. q.recorded <= x.recorded /\ x.recorded < q.until /\ x.until <= q.until
      BY <2>3, <3>5 DEF Within, ChainInv, RowsSound
    <3> QED
      BY <1>4, <3>1, <3>2, <3>3, <3>6 DEF Outlives
  <2>4. \A a \in Above(f[m - 1]) : Outlives(a, r)
    BY <2>2, <2>3 DEF Above
  <2> QED
    BY <1>2, <1>3, <1>6, <2>4
<1> QED
  BY <1>5, <1>6

\* A record and all its ancestors.
LEMMA AncestorsSound ==
    ASSUME ChainInv
    PROVE  Chain!LineageSound
<1> DEFINE K == Cardinality(part.chain)
<1>1. K \in Nat
  BY PartFacts DEF ChainInv
<1>2. ASSUME NEW r \in rows PROVE \A a \in Chain!Ancestors(r) : Outlives(a, r)
  <2> DEFINE f == CHOOSE g : IsClimb(r, K, g)
  <2>1. IsClimb(r, K, f)
    BY <1>1, ClimbExists
  <2>2. Chain!Ancestors(r) = f[K]
    BY SameCount DEF Chain!Ancestors, IsClimb
  <2> HIDE DEF f
  <2> QED
    BY <1>1, <2>1, <2>2, ClimbSound
<1> QED
  BY <1>2 DEF Chain!LineageSound, Outlives

\* The invariant says what the tables promise.
LEMMA ChainFollows ==
    ASSUME ChainInv
    PROVE  ChainSound
<1>1. Chain!TypeOK
  <2>1. chainCalls \in [Calls -> CallType(part)]
    BY DEF ChainInv
  <2> QED
    BY <2>1, TypesOfPart DEF ChainInv, RowsSound, Chain!TypeOK, CallType
<1>2. Chain!LineageSound
  BY AncestorsSound
<1>3. Chain!OneChildPerParent
  BY DEF ChainInv, RowsSound, OneChild, Chain!OneChildPerParent, Chain!Agree
<1>4. Chain!QuotaHolds
  BY SameCount DEF ChainInv, RowsSound, OfStage, Chain!QuotaHolds
<1> QED
  BY <1>1, <1>2, <1>3, <1>4 DEF ChainSound, Chain!ChainSound

\* The invariant says what the answers promise.
LEMMA AnswersFollow ==
    ASSUME ChainInv
    PROVE  AnswersSound
<1>1. \A r, k : r.stage = k.stage /\ Chain!Agree(r, k, {"key", "parent", "ref", "item"})
                   <=> SameRequests(r, k)
  BY DEF Chain!Agree, SameRequests
<1>2. Chain!AnswerIsTheRecord
  BY <1>1 DEF ChainInv, CallSound, RowsSound, OneKey, SameRequests,
     Chain!AnswerIsTheRecord
<1>3. Chain!DuplicateReturnsOriginal
  BY <1>1 DEF ChainInv, CallSound, ByRequest, Chain!DuplicateReturnsOriginal
<1> QED
  BY <1>2, <1>3 DEF AnswersSound, Chain!AnswersSound

\* The invariant holds of every behaviour, of whichever half.
LEMMA ChainInvariant == EvidenceSpec => []ChainInv
<1>1. EvidenceInit => ChainInv
  BY ChainInitInv DEF EvidenceInit
<1>2. ChainInv /\ [EvidenceNext]_allVars => ChainInv'
  BY ChainStepInv DEF EvidenceNext, allVars
<1> QED
  BY <1>1, <1>2, PTL DEF EvidenceSpec

\* However requests, failures and restarts interleave, every record follows
\* from its ancestors within their windows, none is made twice and no store
\* outgrows its quota: for every part of the chain, reference and quota, and
\* any number of calls and keys.
THEOREM ChainSafety == EvidenceSpec => []ChainSound
<1>1. ChainInv => ChainSound
  BY ChainFollows
<1> QED
  BY <1>1, ChainInvariant, PTL

\* A success names the one row that records the request, and the repeat of a
\* request on record is not called a conflict where requests are compared.
THEOREM AnswersSafety == EvidenceSpec => []AnswersSound
<1>1. ChainInv => AnswersSound
  BY AnswersFollow
<1> QED
  BY <1>1, ChainInvariant, PTL

=============================================================================
