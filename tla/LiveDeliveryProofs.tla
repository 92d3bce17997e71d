------------------------- MODULE LiveDeliveryProofs -------------------------
(***************************************************************************)
(* Safety of one delivery of a handoff from Core to the Agent, for every   *)
(* set of calls, subjects, keys and settings: either path, any quotas, and *)
(* a network that delivers POSTs twice or not.                             *)
(***************************************************************************)
EXTENDS LiveDelivery, TLAPS

-----------------------------------------------------------------------------
(* What the stores, the calls and the POSTs on the way say together.       *)

Reserved(s) == \E r \in reservations : r.subject = s
Admitted(s) == \E a \in admissions : a.subject = s

\* The one POST of a delivery is spent, and the Agent has not admitted it: with
\* a network that repeats nothing, it never will.
Never(s) ==
    /\ posted[s] > 0
    /\ ~ Admitted(s)
    /\ \A r \in requests : r.subject # s

\* A call that may yet send its POST.
Sender(k) == k.phase = "posting" \/ (k.phase = "stored" /\ ~ k.replay)

\* What a call has heard, and what it has answered, is so.
Truthful(k) ==
    /\ k.phase # "idle" => k.subject \in Subjects /\ k.key \in Keys
    /\ k.outcome = "admitted" \/ k.phase \in {"recording", "verifying"} =>
          Admitted(k.subject)
    /\ k.phase = "verifying" => receipts[k.subject] = "admitted"
    /\ k.outcome = "rejected" \/ k.answer = "rejected" =>
          (k.subject \in Subjects /\ (~ setting.twice => Never(k.subject)))
    /\ k.answer = "verified" => k.subject \in verified
    /\ Coordinator /\ k.answer \in Lifecycle \ {"none"} /\ k.subject \in Subjects =>
          receipts[k.subject] = k.answer
    /\ k.replay => Coordinator

\* A sender has the reservation, has not sent, and is the only one.
SenderInv ==
    \A c \in Calls : Sender(calls[c]) =>
       /\ posted[calls[c].subject] = 0 /\ Reserved(calls[c].subject)
       /\ \A d \in Calls : Sender(calls[d]) /\ calls[d].subject = calls[c].subject => d = c

\* Core's stores agree with the Agent's.
StoreInv(s) ==
    /\ receipts[s] = "admitted" => Admitted(s)
    /\ receipts[s] = "rejected" /\ ~ setting.twice => Never(s)
    /\ s \in verified => receipts[s] = "admitted"

\* The Agent admits what Core has sent.
AgentInv ==
    /\ admissions \subseteq agentKeys /\ AdmittedOnce
    /\ \A a \in admissions : posted[a.subject] > 0

\* A POST on the way was sent, its answer is true, and with a network that
\* repeats nothing it is the only one and not admitted before it is answered.
RequestInv(r) ==
    /\ posted[r.subject] > 0
    /\ r.answer = "admitted" => Admitted(r.subject)
    /\ ~ setting.twice =>
          /\ r.answer # "admitted" => ~ Admitted(r.subject)
          /\ \A q \in requests : q.subject = r.subject => q = r

Inv ==
    /\ TypeOK
    /\ SentAtMostOnce
    /\ \A c \in Calls : Truthful(calls[c])
    /\ SenderInv
    /\ \A s \in Subjects : StoreInv(s)
    /\ AgentInv
    /\ \A r \in requests : RequestInv(r)

-----------------------------------------------------------------------------
(* Lemmas about a step of one call.                                        *)

\* Call c becomes k, the others stay.
SetsCall(c, k) ==
    /\ calls' = [calls EXCEPT ![c] = k]
    /\ calls' \in [Calls -> Call]
    /\ calls'[c] = k
    /\ \A d \in Calls : d # c => calls'[d] = calls[d]

\* It does so when the code assigns one field or several.
LEMMA CallSet ==
    ASSUME TypeOK, NEW c \in Calls, NEW k \in Call, calls' = [calls EXCEPT ![c] = k]
    PROVE  SetsCall(c, k)
  BY DEF TypeOK, SetsCall

\* A resting call is one the code can have.
LEMMA IdleTyped ==
    /\ IdleCall \in Call /\ IdleCall.phase = "idle" /\ IdleCall.subject = NoItem
    /\ IdleCall.outcome = "none" /\ IdleCall.answer = "none" /\ ~ IdleCall.replay
  BY DEF IdleCall, Call, Phase, Lifecycle, Answers

\* Only the phase changes.
LEMMA GotoSets ==
    ASSUME TypeOK, NEW c \in Calls, NEW phase \in Phase, Goto(c, phase)
    PROVE  \E k \in Call : /\ SetsCall(c, k) /\ k.phase = phase
                           /\ k.subject = calls[c].subject /\ k.key = calls[c].key
                           /\ k.replay = calls[c].replay
                           /\ k.outcome = calls[c].outcome /\ k.answer = calls[c].answer
<1>1. calls \in [Calls -> Call] /\ calls[c] \in Call
  BY DEF TypeOK
<1> DEFINE k == [calls[c] EXCEPT !.phase = phase]
<1>2. /\ k \in Call /\ k.phase = phase
      /\ k.subject = calls[c].subject /\ k.key = calls[c].key
      /\ k.replay = calls[c].replay
      /\ k.outcome = calls[c].outcome /\ k.answer = calls[c].answer
  BY <1>1 DEF Call
<1>3. calls' = [calls EXCEPT ![c] = k]
  BY DEF Goto
<1> HIDE DEF k
<1> QED
  BY <1>2, <1>3, CallSet

\* The phase changes with the outcome that is to be written.
LEMMA ClosingSets ==
    ASSUME TypeOK, NEW c \in Calls, NEW phase \in Phase, NEW outcome \in Lifecycle,
           Closing(c, phase, outcome)
    PROVE  \E k \in Call : /\ SetsCall(c, k) /\ k.phase = phase /\ k.outcome = outcome
                           /\ k.subject = calls[c].subject /\ k.key = calls[c].key
                           /\ k.replay = calls[c].replay /\ k.answer = calls[c].answer
<1>1. calls \in [Calls -> Call] /\ calls[c] \in Call
  BY DEF TypeOK
<1> DEFINE k == [calls[c] EXCEPT !.phase = phase, !.outcome = outcome]
<1>2. /\ k \in Call /\ k.phase = phase /\ k.outcome = outcome
      /\ k.subject = calls[c].subject /\ k.key = calls[c].key
      /\ k.replay = calls[c].replay /\ k.answer = calls[c].answer
  BY <1>1 DEF Call
<1>3. calls' = [calls EXCEPT ![c] = k]
  BY <1>1 DEF Closing
<1> HIDE DEF k
<1> QED
  BY <1>2, <1>3, CallSet

\* An answer is about the call's subject.
LEMMA AnswerSets ==
    ASSUME TypeOK, NEW c \in Calls, NEW answer \in Answers, Answer(c, answer)
    PROVE  \E k \in Call : /\ SetsCall(c, k) /\ k.phase = "idle" /\ k.answer = answer
                           /\ k.subject = calls[c].subject /\ k.outcome = "none" /\ ~ k.replay
<1>1. calls \in [Calls -> Call] /\ calls[c] \in Call
  BY DEF TypeOK
<1>2. calls[c].subject \in Subjects \cup {NoItem} /\ calls[c].key \in Keys \cup {NoItem}
  BY <1>1 DEF Call
<1> DEFINE k == [IdleCall EXCEPT
        !.subject = calls[c].subject, !.key = calls[c].key, !.answer = answer]
<1>3. /\ k \in Call /\ k.phase = "idle" /\ k.answer = answer
      /\ k.subject = calls[c].subject /\ k.outcome = "none" /\ ~ k.replay
  BY <1>2, IdleTyped DEF Call
<1>4. calls' = [calls EXCEPT ![c] = k]
  BY DEF Answer
<1> HIDE DEF k
<1> QED
  BY <1>3, <1>4, CallSet

\* An error is about no subject.
LEMMA RefuseSets ==
    ASSUME TypeOK, NEW c \in Calls, NEW code \in Answers, Refuse(c, code)
    PROVE  \E k \in Call : /\ SetsCall(c, k) /\ k.phase = "idle" /\ k.answer = code
                           /\ k.subject = NoItem /\ k.outcome = "none" /\ ~ k.replay
<1> DEFINE k == [IdleCall EXCEPT !.answer = code]
<1>1. /\ k \in Call /\ k.phase = "idle" /\ k.answer = code
      /\ k.subject = NoItem /\ k.outcome = "none" /\ ~ k.replay
  BY IdleTyped DEF Call
<1>2. calls' = [calls EXCEPT ![c] = k]
  BY DEF Refuse
<1> HIDE DEF k
<1> QED
  BY <1>1, <1>2, CallSet

\* What is true of a call stays true: stores only grow, receipts are final, and
\* what will never be admitted never is.
LEMMA StaysTrue ==
    ASSUME NEW k \in Call, Truthful(k), UNCHANGED setting,
           admissions \subseteq admissions', verified \subseteq verified',
           \A s \in Subjects : receipts[s] # "none" => receipts'[s] = receipts[s],
           \A s \in Subjects : ~ setting.twice /\ Never(s) => Never(s)'
    PROVE  Truthful(k)'
<1>1. \A s : Admitted(s) => Admitted(s)'
  BY DEF Admitted
<1>2. Coordinator' = Coordinator
  BY DEF Coordinator
<1>3. k.phase # "idle" => k.subject \in Subjects /\ k.key \in Keys
  BY DEF Truthful
<1>4. k.outcome = "admitted" \/ k.phase \in {"recording", "verifying"} =>
          Admitted(k.subject)'
  BY <1>1 DEF Truthful
<1>5. k.phase = "verifying" => receipts'[k.subject] = "admitted"
  BY <1>3 DEF Truthful
<1>6. k.outcome = "rejected" \/ k.answer = "rejected" =>
          (k.subject \in Subjects /\ (~ setting.twice => Never(k.subject)'))
  BY DEF Truthful
<1>7. k.answer = "verified" => k.subject \in verified'
  BY DEF Truthful
<1>8. Coordinator /\ k.answer \in Lifecycle \ {"none"} /\ k.subject \in Subjects =>
          receipts'[k.subject] = k.answer
  BY DEF Truthful
<1>9. k.replay => Coordinator
  BY DEF Truthful
<1> QED
  BY <1>9, <1>2, <1>3, <1>4, <1>5, <1>6, <1>7, <1>8 DEF Truthful

\* Core's stores grow, its receipts are final, and nothing is sent or admitted.
Quiet ==
    /\ UNCHANGED <<setting, agentVars, posted>> /\ expired' \in BOOLEAN
    /\ requests' \subseteq requests
    /\ reservations \subseteq reservations' /\ reservations' \subseteq Item
    /\ verified \subseteq verified' /\ verified' \subseteq Subjects
    /\ receipts' \in [Subjects -> Lifecycle]
    /\ \A s \in Subjects : receipts[s] # "none" => receipts'[s] = receipts[s]
    /\ \A s \in Subjects : StoreInv(s)'

\* A call changes meanwhile.  It may come to send only what it reserves.
LEMMA QuietInv ==
    ASSUME Inv, NEW c \in Calls, NEW k \in Call, SetsCall(c, k), Truthful(k)',
           Quiet,
           Sender(k) => \/ Sender(calls[c]) /\ k.subject = calls[c].subject
                        \/ ~ Reserved(k.subject) /\ Reserved(k.subject)'
                           /\ k.subject \in Subjects
    PROVE  Inv'
<1>1. /\ TypeOK /\ UNCHANGED <<agentKeys, admissions, posted, setting>>
      /\ \A s : Reserved(s) => Reserved(s)'
      /\ \A s : Admitted(s)' = Admitted(s)
  BY DEF Inv, Quiet, agentVars, Reserved, Admitted
<1>0. Quiet
  OBVIOUS
<1> USE DEF Quiet
<1>2. TypeOK'
  BY <1>1 DEF TypeOK, SetsCall
<1>3. SentAtMostOnce'
  BY <1>1 DEF Inv, SentAtMostOnce, Reserved
<1>4. \A s \in Subjects : Never(s) => Never(s)'
  BY <1>1 DEF Never
<1>5. ASSUME NEW d \in Calls PROVE Truthful(calls[d])'
  <2>1. CASE d = c
    BY <2>1 DEF SetsCall, Truthful, Never, Admitted, Coordinator
  <2>2. CASE d # c
    <3>1. PICK x \in Call : x = calls[d]
      BY <1>1 DEF TypeOK
    <3>2. Truthful(x)
      BY <3>1 DEF Inv
    <3>3. Truthful(x)'
      BY <1>1, <1>4, <3>2, StaysTrue
    <3>4. calls'[d] = x
      BY <2>2, <3>1 DEF SetsCall
    <3> QED
      BY <3>3, <3>4 DEF Truthful, Never, Admitted, Coordinator
  <2> QED
    BY <2>1, <2>2
<1>6. SenderInv'
  <2>1. \A d \in Calls : d # c => calls'[d] = calls[d]
    BY DEF SetsCall
  <2>2. calls'[c] = k
    BY DEF SetsCall
  <2>3. ASSUME NEW d \in Calls, NEW s, s = calls'[d].subject, Sender(calls'[d])
        PROVE  posted[s] = 0 /\ Reserved(s)'
    <3>1. CASE d # c
      <4>1. calls'[d] = calls[d]
        BY <2>1, <3>1
      <4>2. posted[s] = 0 /\ Reserved(s)
        BY <2>3, <4>1 DEF Inv, SenderInv
      <4> QED
        BY <1>1, <4>2
    <3>2. CASE /\ d = c /\ ~ Reserved(k.subject) /\ Reserved(k.subject)'
               /\ k.subject \in Subjects
      <4>1. s = k.subject /\ s \in Subjects /\ posted[s] \in Nat
        BY <1>1, <2>2, <2>3, <3>2 DEF TypeOK
      <4>2. ~ (posted[s] > 0)
        BY <3>2, <4>1 DEF Inv, SentAtMostOnce, Reserved
      <4> QED
        BY <3>2, <4>1, <4>2
    <3>3. CASE d = c /\ Sender(calls[c]) /\ k.subject = calls[c].subject
      <4>1. posted[s] = 0 /\ Reserved(s)
        BY <2>2, <2>3, <3>3 DEF Inv, SenderInv
      <4> QED
        BY <1>1, <4>1
    <3> QED
      BY <2>2, <2>3, <3>1, <3>2, <3>3
  <2>4. ASSUME NEW d \in Calls, NEW e \in Calls, Sender(calls'[d]), Sender(calls'[e]),
               calls'[d].subject = calls'[e].subject, d # c
        PROVE  d = e
    <3>1. Sender(calls[d]) /\ Reserved(calls[d].subject) /\ calls'[d] = calls[d]
      BY <2>1, <2>4 DEF Inv, SenderInv
    <3>2. CASE e # c
      BY <2>1, <2>4, <3>1, <3>2 DEF Inv, SenderInv
    <3>3. CASE e = c
      <4>1. Sender(calls[c]) /\ k.subject = calls[c].subject
        BY <2>2, <2>4, <3>1, <3>3
      <4> QED
        BY <2>2, <2>4, <3>1, <3>3, <4>1 DEF Inv, SenderInv
    <3> QED
      BY <3>2, <3>3
  <2>5. ASSUME NEW d \in Calls, Sender(calls'[d])
        PROVE  \A e \in Calls : Sender(calls'[e])
                                /\ calls'[e].subject = calls'[d].subject => e = d
    BY <2>4, <2>5
  <2> QED
    <3>1. ASSUME NEW d \in Calls, Sender(calls'[d])
          PROVE  posted'[calls'[d].subject] = 0 /\ Reserved(calls[d].subject)'
      <4>1. PICK s : s = calls'[d].subject
        OBVIOUS
      <4>2. posted[s] = 0 /\ Reserved(s)' /\ posted' = posted
        BY <1>1, <2>3, <3>1, <4>1
      <4> QED
        BY <4>1, <4>2 DEF Reserved
    <3> QED
      BY <2>5, <3>1 DEF SenderInv, Sender
<1>7. AgentInv'
  BY <1>1 DEF Inv, AgentInv, AdmittedOnce
<1>8. ASSUME NEW r \in requests' PROVE RequestInv(r)'
  BY <1>1, <1>8 DEF Inv, RequestInv
<1> QED
  BY <1>2, <1>3, <1>5, <1>6, <1>7, <1>8 DEF Inv

\* POSTs may get lost meanwhile.
LEMMA QuietStays ==
    ASSUME Inv, UNCHANGED <<setting, expired, reservations, receipts, verified,
                            agentVars, posted>>,
           requests' \subseteq requests
    PROVE  Quiet
<1>1. ASSUME NEW s \in Subjects PROVE StoreInv(s)'
  BY DEF Inv, StoreInv, Never, Admitted, agentVars
<1>2. /\ expired' \in BOOLEAN /\ reservations' \subseteq Item
      /\ verified' \subseteq Subjects /\ receipts' \in [Subjects -> Lifecycle]
  BY DEF Inv, TypeOK
<1> QED
  BY <1>1, <1>2 DEF Quiet

\* A call that fails says nothing of a delivery.
LEMMA RefusedInv ==
    ASSUME Inv, Quiet, NEW c \in Calls,
           NEW code \in {"conflict", "quota_exceeded", "refused", "unavailable", "ambiguous"},
           Refuse(c, code)
    PROVE  Inv'
<1>1. code \in Answers /\ TypeOK
  BY DEF Answers, Lifecycle, Inv
<1>2. PICK k \in Call : /\ SetsCall(c, k) /\ k.phase = "idle" /\ k.answer = code
                        /\ k.subject = NoItem /\ k.outcome = "none" /\ ~ k.replay
  BY <1>1, RefuseSets
<1>3. Truthful(k)'
  BY <1>2, NoItemAssumption DEF Truthful
<1> QED
  BY <1>2, <1>3, QuietInv DEF Sender

\* A call that answers says what is so.
LEMMA AnsweredInv ==
    ASSUME Inv, Quiet, NEW c \in Calls, NEW answer \in Answers, Answer(c, answer),
           NEW s \in Subjects, s = calls[c].subject,
           answer = "rejected" => (~ setting.twice => Never(s)'),
           answer = "verified" => s \in verified',
           Coordinator /\ answer \in Lifecycle \ {"none"} => receipts'[s] = answer
    PROVE  Inv'
<1>1. PICK k \in Call : /\ SetsCall(c, k) /\ k.phase = "idle" /\ k.answer = answer
                        /\ k.subject = s /\ k.outcome = "none" /\ ~ k.replay
  BY AnswerSets DEF Inv
<1>2. setting' = setting /\ Coordinator' = Coordinator
  BY DEF Quiet, Coordinator
<1>3. Truthful(k)'
  BY <1>1, <1>2 DEF Truthful
<1> QED
  BY <1>1, <1>3, QuietInv DEF Sender

\* A call goes on.  What it has heard so far stays true.
LEMMA GoesOnInv ==
    ASSUME Inv, Quiet, NEW c \in Calls, calls[c].phase # "idle",
           NEW s \in Subjects, s = calls[c].subject,
           NEW phase \in Phase \ {"idle"}, Goto(c, phase),
           phase \in {"recording", "verifying"} => Admitted(s),
           phase = "verifying" => receipts'[s] = "admitted",
           phase = "posting" => calls[c].phase = "stored" /\ ~ calls[c].replay,
           phase = "stored" => ~ Reserved(s) /\ Reserved(s)'
    PROVE  Inv'
<1>1. PICK k \in Call :
         /\ SetsCall(c, k) /\ k.phase = phase
         /\ k.subject = s /\ k.key = calls[c].key
         /\ k.replay = calls[c].replay
         /\ k.outcome = calls[c].outcome /\ k.answer = calls[c].answer
  BY GotoSets DEF Inv
<1>2. PICK x \in Call : x = calls[c]
  BY DEF Inv, TypeOK
<1>3. Truthful(x)
  BY <1>2 DEF Inv
<1>4. /\ setting' = setting /\ admissions' = admissions /\ posted' = posted
      /\ requests' \subseteq requests
  BY DEF Quiet, agentVars
<1>5. \A t \in Subjects : Never(t) => Never(t)'
  BY <1>4 DEF Never, Admitted
<1>6. Truthful(x)'
  BY <1>3, <1>4, <1>5, StaysTrue DEF Quiet
<1>7. Admitted(s)' = Admitted(s)
  BY <1>4 DEF Admitted
<1>8. Truthful(k)'
  BY <1>1, <1>2, <1>6, <1>7 DEF Truthful
<1> QED
  BY <1>1, <1>8, QuietInv DEF Sender

\* A call goes on with an outcome to be written.
LEMMA ClosesInv ==
    ASSUME Inv, Quiet, NEW c \in Calls, calls[c].phase # "idle",
           NEW s \in Subjects, s = calls[c].subject,
           NEW phase \in {"closing", "closing_failure"}, NEW outcome \in Lifecycle,
           Closing(c, phase, outcome),
           outcome = "admitted" => Admitted(s),
           outcome = "rejected" => (~ setting.twice => Never(s)')
    PROVE  Inv'
<1>1. PICK k \in Call :
         /\ SetsCall(c, k) /\ k.phase = phase /\ k.outcome = outcome
         /\ k.subject = s /\ k.key = calls[c].key
         /\ k.replay = calls[c].replay /\ k.answer = calls[c].answer
  BY ClosingSets DEF Inv, Phase
<1>2. PICK x \in Call : x = calls[c]
  BY DEF Inv, TypeOK
<1>3. Truthful(x)
  BY <1>2 DEF Inv
<1>4. /\ setting' = setting /\ admissions' = admissions /\ posted' = posted
      /\ requests' \subseteq requests
  BY DEF Quiet, agentVars
<1>5. \A t \in Subjects : Never(t) => Never(t)'
  BY <1>4 DEF Never, Admitted
<1>6. Truthful(x)'
  BY <1>3, <1>4, <1>5, StaysTrue DEF Quiet
<1>7. Admitted(s)' = Admitted(s)
  BY <1>4 DEF Admitted
<1>8. Truthful(k)'
  BY <1>1, <1>2, <1>4, <1>6, <1>7 DEF Truthful
<1> QED
  BY <1>1, <1>8, QuietInv DEF Sender

-----------------------------------------------------------------------------
(* Core's steps.                                                           *)

\* A call that is not at rest is about a subject and a key.
LEMMA Busy ==
    ASSUME Inv, NEW c \in Calls, calls[c].phase # "idle"
    PROVE  /\ calls[c] \in Call /\ calls[c].subject \in Subjects
           /\ calls[c].key \in Keys /\ Truthful(calls[c])
           /\ ItemOf(calls[c]) \in Item /\ ItemOf(calls[c]).subject = calls[c].subject
<1>1. calls[c] \in Call /\ Truthful(calls[c])
  BY DEF Inv, TypeOK
<1>2. calls[c].subject \in Subjects /\ calls[c].key \in Keys
  BY <1>1 DEF Truthful
<1> QED
  BY <1>1, <1>2 DEF ItemOf, Item

\* A call begins.
LEMMA CreateInv ==
    ASSUME Inv, NEW c \in Calls, NEW s \in Subjects, NEW key \in Keys, Create(c, s, key)
    PROVE  Inv'
<1>1. Quiet
  BY QuietStays DEF Create
<1>2. CASE Refuse(c, "conflict") \/ Refuse(c, "refused")
  BY <1>1, <1>2, RefusedInv
<1>3. ASSUME NEW phase \in {"reserving", "stored"}, NEW replay \in BOOLEAN,
             phase = "stored" => replay, replay => Coordinator,
             Started(c, s, key, phase, replay)
      PROVE  Inv'
  <2> DEFINE n == [IdleCall EXCEPT
                      !.phase = phase, !.subject = s, !.key = key, !.replay = replay]
  <2>1. /\ n \in Call /\ n.phase = phase /\ n.subject = s /\ n.key = key
        /\ n.replay = replay /\ n.outcome = "none" /\ n.answer = "none"
    BY <1>3, IdleTyped DEF Call, Phase
  <2>2. calls' = [calls EXCEPT ![c] = n]
    BY <1>3 DEF Started
  <2> HIDE DEF n
  <2>3. SetsCall(c, n)
    BY <2>1, <2>2, CallSet DEF Inv
  <2>4. PICK k \in Call :
          /\ SetsCall(c, k) /\ k.phase = phase /\ k.subject = s /\ k.key = key
          /\ k.replay = replay /\ k.outcome = "none" /\ k.answer = "none"
    BY <2>1, <2>3
  <2>5. Coordinator' = Coordinator
    BY <1>1 DEF Quiet, Coordinator
  <2>7. Truthful(k)'
    BY <1>3, <2>4, <2>5 DEF Truthful
  <2>6. ~ Sender(k)
    BY <1>3, <2>4 DEF Sender
  <2> QED
    BY <1>1, <2>4, <2>6, <2>7, QuietInv
<1> QED
  BY <1>2, <1>3 DEF Create

\* The reserving transaction: the winner is the only sender.
LEMMA ReserveInv ==
    ASSUME Inv, NEW c \in Calls, Reserve(c)
    PROVE  Inv'
<1> DEFINE item == ItemOf(calls[c])
           held == Held(item.subject, item.key)
<1>1. calls[c].phase = "reserving"
  BY DEF Reserve
<1>2. PICK s \in Subjects : s = calls[c].subject /\ item \in Item /\ item.subject = s
  BY <1>1, Busy
<1>3. ASSUME UNCHANGED reservations PROVE Quiet
  BY <1>3, QuietStays DEF Reserve
<1>4. CASE /\ UNCHANGED reservations
           /\ \/ Refuse(c, "quota_exceeded") \/ Refuse(c, "conflict")
              \/ Refuse(c, "unavailable")
  BY <1>3, <1>4, RefusedInv
<1>5. CASE UNCHANGED reservations /\ s \in verified /\ Answer(c, "verified")
  <2>1. verified' = verified /\ "verified" \in Answers /\ "verified" \notin Lifecycle
    BY <1>5 DEF Reserve, Answers, Lifecycle
  <2> QED
    BY <1>2, <1>3, <1>5, <2>1, AnsweredInv
<1>6. CASE held = {} /\ reservations' = reservations \cup {item} /\ Goto(c, "stored")
  <2>1. ~ Reserved(s)
    BY <1>2, <1>6 DEF Held, Reserved
  <2>2. Reserved(s)'
    BY <1>2, <1>6 DEF Reserved
  <2>3. UNCHANGED <<setting, expired, receipts, verified, requests, agentVars, posted>>
    BY DEF Reserve
  <2>4. ASSUME NEW t \in Subjects PROVE StoreInv(t)'
    BY <2>3 DEF Inv, StoreInv, Never, Admitted, agentVars
  <2>5. Quiet
    BY <1>2, <1>6, <2>3, <2>4 DEF Quiet, Inv, TypeOK
  <2>6. "stored" \in Phase \ {"idle"}
    BY DEF Phase
  <2> QED
    BY <1>1, <1>2, <1>6, <2>1, <2>2, <2>5, <2>6, GoesOnInv
<1> QED
  BY <1>2, <1>4, <1>5, <1>6 DEF Reserve

\* The attempt is read again before the POST.
LEMMA StoredInv ==
    ASSUME Inv, NEW c \in Calls, Stored(c)
    PROVE  Inv'
<1>1. calls[c].phase = "stored" /\ Quiet
      /\ UNCHANGED <<setting, receipts, verified, posted, requests, agentVars>>
  BY QuietStays DEF Stored
<1>2. PICK s \in Subjects : s = calls[c].subject
  BY <1>1, Busy
<1>3. CASE Coordinator /\ receipts[s] # "none" /\ Answer(c, receipts[s])
  <2>1. PICK l \in Lifecycle : l = receipts[s]
    BY DEF Inv, TypeOK
  <2>2. l \in Answers /\ l # "verified"
    BY <2>1 DEF Answers, Lifecycle
  <2>3. l = "rejected" => (~ setting.twice => Never(s)')
    BY <1>1, <2>1 DEF Inv, StoreInv, Never, Admitted, agentVars
  <2> QED
    BY <1>1, <1>2, <1>3, <2>1, <2>2, <2>3, AnsweredInv
<1>4. CASE Closing(c, "closing", "ambiguous")
  BY <1>1, <1>2, <1>4, ClosesInv DEF Lifecycle
<1>5. CASE Coordinator /\ ~ calls[c].replay /\ Goto(c, "posting")
  BY <1>1, <1>2, <1>5, GoesOnInv DEF Phase
<1>6. CASE ~ Coordinator /\ Refuse(c, "refused")
  BY <1>1, <1>6, RefusedInv
<1>7. CASE ~ Coordinator /\ Goto(c, "posting")
  <2>1. ~ calls[c].replay
    BY <1>1, <1>7, Busy DEF Truthful
  <2> QED
    BY <1>1, <1>2, <1>7, <2>1, GoesOnInv DEF Phase
<1> QED
  BY <1>2, <1>3, <1>4, <1>5, <1>6, <1>7 DEF Stored

\* The first receipt of an attempt is written.
LEMMA ReceiptQuiet ==
    ASSUME Inv, NEW s \in Subjects, receipts[s] = "none", NEW l \in Lifecycle,
           receipts' = [receipts EXCEPT ![s] = l],
           l = "admitted" => Admitted(s),
           l = "rejected" => (~ setting.twice => Never(s)),
           UNCHANGED <<setting, expired, reservations, verified, requests, agentVars,
                       posted>>
    PROVE  Quiet /\ receipts'[s] = l
<1>1. receipts \in [Subjects -> Lifecycle]
  BY DEF Inv, TypeOK
<1>2. /\ receipts' \in [Subjects -> Lifecycle] /\ receipts'[s] = l
      /\ \A t \in Subjects : t # s => receipts'[t] = receipts[t]
  BY <1>1
<1>3. \A t \in Subjects : receipts[t] # "none" => receipts'[t] = receipts[t]
  BY <1>2
<1>4. ASSUME NEW t \in Subjects PROVE StoreInv(t)'
  <2>1. Admitted(t)' = Admitted(t) /\ Never(t)' = Never(t) /\ setting' = setting
    BY DEF Admitted, Never, agentVars
  <2>2. StoreInv(t) /\ verified' = verified
    BY DEF Inv
  <2>3. CASE t = s
    BY <1>2, <2>1, <2>2, <2>3 DEF StoreInv
  <2>4. CASE t # s
    BY <1>2, <2>1, <2>2, <2>4 DEF StoreInv
  <2> QED
    BY <2>3, <2>4
<1> QED
  BY <1>2, <1>3, <1>4 DEF Quiet, Inv, TypeOK

\* A definite receipt is as true as an answer that says it.
LEMMA ReceiptTrue ==
    ASSUME Inv, NEW s \in Subjects, receipts[s] = "rejected", ~ setting.twice
    PROVE  Never(s)
  BY DEF Inv, StoreInv

\* Closing an attempt: the first receipt stays.
LEMMA AppendOutcomeInv ==
    ASSUME Inv, NEW c \in Calls, AppendOutcome(c)
    PROVE  Inv'
<1>1. calls[c].phase \in {"closing", "closing_failure"} /\ calls[c].phase # "idle"
      /\ UNCHANGED <<setting, expired, reservations, verified, posted, requests, agentVars>>
  BY DEF AppendOutcome
<1>2. PICK s \in Subjects : s = calls[c].subject /\ Truthful(calls[c]) /\ calls[c] \in Call
  BY <1>1, Busy
<1>3. PICK l \in Lifecycle : l = calls[c].outcome
  BY <1>2 DEF Call
<1>4. l \in Answers /\ l # "verified"
  BY DEF Answers, Lifecycle
<1>5. Never(s)' = Never(s)
  BY <1>1 DEF Never, Admitted, agentVars
<1>6. CASE MayClose(s) /\ receipts' = [receipts EXCEPT ![s] = l] /\ Answer(c, l)
  <2>1. l = "admitted" => Admitted(s)
    BY <1>2, <1>3 DEF Truthful
  <2>2. l = "rejected" => (~ setting.twice => Never(s))
    BY <1>2, <1>3 DEF Truthful
  <2>3. Quiet /\ receipts'[s] = l
    BY <1>1, <1>6, <2>1, <2>2, ReceiptQuiet DEF MayClose
  <2>4. l = "rejected" => (~ setting.twice => Never(s)')
    BY <1>1, <1>5, <2>2
  <2> QED
    BY <1>2, <1>4, <1>6, <2>3, <2>4, AnsweredInv
<1>7. ASSUME UNCHANGED receipts PROVE Quiet
  BY <1>1, <1>7, QuietStays
<1>8. CASE UNCHANGED receipts /\ receipts[s] = l /\ Answer(c, l)
  <2>1. l = "rejected" => (~ setting.twice => Never(s)')
    BY <1>1, <1>5, <1>8, ReceiptTrue
  <2> QED
    BY <1>2, <1>4, <1>7, <1>8, <2>1, AnsweredInv
<1>9. CASE UNCHANGED receipts /\ Goto(c, "failed")
  BY <1>1, <1>2, <1>7, <1>9, GoesOnInv DEF Phase
<1>10. CASE UNCHANGED receipts /\ Refuse(c, "unavailable")
  BY <1>7, <1>10, RefusedInv
<1> QED
  BY <1>2, <1>3, <1>6, <1>8, <1>9, <1>10 DEF AppendOutcome

\* After a failure the stored receipt is the answer, or the attempt is ambiguous.
LEMMA CloseAfterFailureInv ==
    ASSUME Inv, NEW c \in Calls, CloseAfterFailure(c)
    PROVE  Inv'
<1>1. calls[c].phase # "idle" /\ Quiet
      /\ UNCHANGED <<setting, receipts, verified, posted, requests, agentVars>>
  BY QuietStays DEF CloseAfterFailure
<1>2. PICK s \in Subjects : s = calls[c].subject
  BY <1>1, Busy
<1>3. PICK l \in Lifecycle : l = receipts[s]
  BY DEF Inv, TypeOK
<1>4. CASE Answer(c, l)
  <2>1. l \in Answers /\ l # "verified"
    BY DEF Answers, Lifecycle
  <2>2. l = "rejected" => (~ setting.twice => Never(s)')
    BY <1>1, <1>3, ReceiptTrue DEF Never, Admitted, agentVars
  <2> QED
    BY <1>1, <1>2, <1>3, <1>4, <2>1, <2>2, AnsweredInv
<1>5. CASE Closing(c, "closing_failure", "ambiguous")
  BY <1>1, <1>2, <1>5, ClosesInv DEF Lifecycle
<1> QED
  BY <1>2, <1>3, <1>4, <1>5 DEF CloseAfterFailure

\* The composition records the admission it was told.
LEMMA RecordAdmittedInv ==
    ASSUME Inv, NEW c \in Calls, RecordAdmitted(c)
    PROVE  Inv'
<1>1. calls[c].phase = "recording" /\ calls[c].phase # "idle"
      /\ UNCHANGED <<setting, expired, reservations, verified, posted, requests, agentVars>>
  BY DEF RecordAdmitted
<1>2. PICK s \in Subjects : s = calls[c].subject /\ Truthful(calls[c])
  BY <1>1, Busy
<1>3. CASE receipts[s] = "none" /\ receipts' = [receipts EXCEPT ![s] = "admitted"]
           /\ Goto(c, "verifying")
  <2>1. Admitted(s) /\ "admitted" \in Lifecycle /\ "verifying" \in Phase \ {"idle"}
    BY <1>1, <1>2 DEF Truthful, Lifecycle, Phase
  <2>2. Quiet /\ receipts'[s] = "admitted"
    BY <1>1, <1>3, <2>1, ReceiptQuiet
  <2> QED
    BY <1>1, <1>2, <1>3, <2>1, <2>2, GoesOnInv
<1>4. CASE UNCHANGED receipts /\ Refuse(c, "ambiguous")
  BY <1>1, <1>4, QuietStays, RefusedInv
<1> QED
  BY <1>2, <1>3, <1>4 DEF RecordAdmitted

\* The composition's receipt.
LEMMA AppendReceiptInv ==
    ASSUME Inv, NEW c \in Calls, AppendReceipt(c)
    PROVE  Inv'
<1>1. calls[c].phase = "verifying" /\ calls[c].phase # "idle"
      /\ UNCHANGED <<setting, expired, reservations, receipts, posted, requests, agentVars>>
  BY DEF AppendReceipt
<1>2. PICK s \in Subjects : s = calls[c].subject /\ Truthful(calls[c])
  BY <1>1, Busy
<1>3. CASE UNCHANGED verified /\ Refuse(c, "refused")
  BY <1>1, <1>3, QuietStays, RefusedInv
<1>4. CASE verified' = verified \cup {s} /\ Answer(c, "verified")
  <2>1. receipts[s] = "admitted"
    BY <1>1, <1>2 DEF Truthful
  <2>2. ASSUME NEW t \in Subjects PROVE StoreInv(t)'
    <3>1. Admitted(t)' = Admitted(t) /\ Never(t)' = Never(t) /\ setting' = setting
      BY <1>1 DEF Admitted, Never, agentVars
    <3> QED
      BY <1>1, <1>4, <2>1, <3>1 DEF Inv, StoreInv
  <2>3. Quiet
    BY <1>1, <1>4, <2>2 DEF Quiet, Inv, TypeOK
  <2>4. "verified" \in Answers /\ "verified" \notin Lifecycle /\ s \in verified'
    BY <1>4 DEF Answers, Lifecycle
  <2> QED
    BY <1>2, <1>4, <2>3, <2>4, AnsweredInv
<1> QED
  BY <1>2, <1>3, <1>4 DEF AppendReceipt

\* An error of a store, a reader or the clock.
LEMMA FailInv ==
    ASSUME Inv, NEW c \in Calls, Fail(c)
    PROVE  Inv'
<1>1. Quiet
  BY QuietStays DEF Fail
<1>2. CASE Refuse(c, "unavailable") \/ Refuse(c, "ambiguous")
  BY <1>1, <1>2, RefusedInv
<1>3. CASE calls[c].phase # "idle" /\ Goto(c, "failed")
  <2>1. PICK s \in Subjects : s = calls[c].subject
    BY <1>3, Busy
  <2> QED
    BY <1>1, <1>3, <2>1, GoesOnInv DEF Phase
<1> QED
  BY <1>2, <1>3 DEF Fail

\* A call reads its answer.
LEMMA ReceiveInv ==
    ASSUME Inv, NEW c \in Calls, Receive(c)
    PROVE  Inv'
<1>1. PICK r \in requests :
         /\ IsOf(r, c) /\ r.answer # "none"
         /\ requests' = requests \ {r}
         /\ \/ Coordinator /\ Closing(c, "closing", r.answer)
            \/ ~Coordinator /\ r.answer = "admitted" /\ Goto(c, "recording")
            \/ ~Coordinator /\ r.answer = "rejected" /\ Answer(c, "rejected")
  BY DEF Receive
<1>2. calls[c].phase # "idle" /\ Quiet
      /\ UNCHANGED <<setting, expired, reservations, receipts, verified, agentVars, posted>>
  BY <1>1, QuietStays DEF Receive
<1>3. PICK s \in Subjects : s = calls[c].subject /\ s = r.subject
  BY <1>1, <1>2, Busy DEF IsOf
<1>4. RequestInv(r) /\ r.answer \in {"admitted", "rejected"}
  BY <1>1 DEF Inv, TypeOK, Request
<1>5. PICK l \in {"admitted", "rejected"} : l = r.answer
  BY <1>4
<1>6. l = "admitted" => Admitted(s)
  BY <1>3, <1>4, <1>5 DEF RequestInv
<1>7. l = "rejected" => (~ setting.twice => Never(s)')
  <2>1. SUFFICES ASSUME l = "rejected", ~ setting.twice PROVE Never(s)'
    OBVIOUS
  <2>2. posted[s] > 0 /\ ~ Admitted(s) /\ \A q \in requests : q.subject = s => q = r
    BY <1>3, <1>4, <1>5, <2>1 DEF RequestInv
  <2> QED
    BY <1>1, <1>2, <2>2 DEF Never, Admitted, agentVars
<1>8. CASE Closing(c, "closing", l)
  BY <1>2, <1>3, <1>6, <1>7, <1>8, ClosesInv DEF Lifecycle
<1>9. CASE l = "admitted" /\ Goto(c, "recording")
  BY <1>2, <1>3, <1>6, <1>9, GoesOnInv DEF Phase
<1>10. CASE ~ Coordinator /\ l = "rejected" /\ Answer(c, "rejected")
  BY <1>2, <1>3, <1>7, <1>10, AnsweredInv DEF Answers, Lifecycle
<1> QED
  BY <1>1, <1>5, <1>8, <1>9, <1>10

\* A call stops waiting.
LEMMA UncertainInv ==
    ASSUME Inv, NEW c \in Calls, Uncertain(c)
    PROVE  Inv'
<1>1. calls[c].phase # "idle" /\ Quiet
  BY QuietStays DEF Uncertain, Abandon
<1>2. CASE Goto(c, "failed")
  <2>1. PICK s \in Subjects : s = calls[c].subject
    BY <1>1, Busy
  <2> QED
    BY <1>1, <1>2, <2>1, GoesOnInv DEF Phase
<1>3. CASE Refuse(c, "ambiguous")
  BY <1>1, <1>3, RefusedInv
<1> QED
  BY <1>2, <1>3 DEF Uncertain

\* The POST is sent: the call was the only sender, and nothing was sent before.
LEMMA TransmitOnceInv ==
    ASSUME Inv, NEW c \in Calls, TransmitOnce(c)
    PROVE  Inv'
<1>1. calls[c].phase = "posting" /\ calls[c].phase # "idle" /\ Sender(calls[c])
      /\ UNCHANGED <<setting, expired, reservations, receipts, verified, agentVars>>
  BY DEF TransmitOnce, Sender
<1>2. PICK s \in Subjects :
         s = calls[c].subject /\ Truthful(calls[c]) /\ calls[c] \in Call
         /\ calls[c].key \in Keys
  BY <1>1, Busy
<1>3. /\ posted[s] = 0 /\ Reserved(s)
      /\ \A d \in Calls : Sender(calls[d]) /\ calls[d].subject = s => d = c
  BY <1>1, <1>2 DEF Inv, SenderInv
<1>4. PICK p \in Request :
         /\ p = [subject |-> s, key |-> calls[c].key, n |-> 1, answer |-> "none"]
         /\ p.subject = s /\ p.answer = "none"
  <2> DEFINE p == [subject |-> s, key |-> calls[c].key, n |-> 1, answer |-> "none"]
  <2>1. p \in Request /\ p.subject = s /\ p.answer = "none"
    BY <1>2 DEF Request
  <2> QED
    BY <2>1
<1>5. /\ posted' = [posted EXCEPT ![s] = 1]
      /\ requests' = requests \cup {p}
      /\ calls' = [calls EXCEPT ![c].phase = "waiting", ![c].n = 1]
  BY <1>2, <1>3, <1>4 DEF TransmitOnce
<1>6. TypeOK
  BY DEF Inv
<1>7. /\ posted' \in [Subjects -> Nat] /\ posted'[s] = 1
      /\ \A t \in Subjects : t # s => posted'[t] = posted[t]
  BY <1>5, <1>6 DEF TypeOK
<1>8. PICK k \in Call :
         /\ SetsCall(c, k) /\ k.phase = "waiting" /\ k.subject = s
         /\ k.key = calls[c].key /\ k.replay = calls[c].replay
         /\ k.outcome = calls[c].outcome /\ k.answer = calls[c].answer
  <2> DEFINE k == [calls[c] EXCEPT !.phase = "waiting", !.n = 1]
  <2>1. /\ k \in Call /\ k.phase = "waiting" /\ k.subject = s
        /\ k.key = calls[c].key /\ k.replay = calls[c].replay
        /\ k.outcome = calls[c].outcome /\ k.answer = calls[c].answer
    BY <1>2 DEF Call, Phase
  <2>2. calls' = [calls EXCEPT ![c] = k]
    BY <1>5, <1>6 DEF TypeOK
  <2> HIDE DEF k
  <2> QED
    BY <1>6, <2>1, <2>2, CallSet
<1>9. \A t : Admitted(t)' = Admitted(t) /\ Reserved(t)' = Reserved(t)
  BY <1>1 DEF Admitted, Reserved, agentVars
<1>10. \A a \in admissions : a.subject # s
  BY <1>3 DEF Inv, AgentInv
<1>11. \A r \in requests : r.subject # s
  BY <1>3 DEF Inv, RequestInv
<1>12. ASSUME NEW t \in Subjects, Never(t) PROVE Never(t)'
  <2>1. t # s
    BY <1>3, <1>12 DEF Never
  <2> QED
    BY <1>4, <1>5, <1>7, <1>9, <1>12, <2>1 DEF Never
<1>13. TypeOK'
  BY <1>1, <1>4, <1>5, <1>6, <1>7, <1>8 DEF TypeOK, SetsCall, agentVars
<1>14. SentAtMostOnce'
  <2>1. ASSUME NEW t \in Subjects
        PROVE  posted'[t] <= 1 /\ (posted'[t] > 0 => Reserved(t)')
    <3>1. CASE t = s
      BY <1>3, <1>7, <1>9, <3>1
    <3>2. CASE t # s
      BY <1>7, <1>9, <3>2 DEF Inv, SentAtMostOnce, Reserved
    <3> QED
      BY <3>1, <3>2
  <2> QED
    BY <2>1 DEF SentAtMostOnce, Reserved
<1>15. ASSUME NEW x \in Call, Truthful(x) PROVE Truthful(x)'
  BY <1>1, <1>12, <1>15, StaysTrue DEF agentVars
<1>16. ASSUME NEW d \in Calls PROVE Truthful(calls[d])'
  <2>1. PICK x \in Call : x = calls[d] /\ Truthful(x)
    BY <1>6 DEF TypeOK, Inv
  <2>2. Truthful(x)'
    BY <1>15, <2>1
  <2>3. CASE d # c
    <3>1. calls'[d] = x
      BY <1>8, <2>1, <2>3 DEF SetsCall
    <3> QED
      BY <2>2, <3>1 DEF Truthful, Never, Admitted, Coordinator
  <2>4. CASE d = c
    <3>1. calls'[d] = k /\ k.phase = "waiting" /\ k.subject = x.subject /\ k.key = x.key
          /\ k.replay = x.replay /\ k.outcome = x.outcome /\ k.answer = x.answer
          /\ x.phase # "idle"
      BY <1>1, <1>2, <1>8, <2>1, <2>4 DEF SetsCall
    <3> QED
      BY <2>2, <3>1 DEF Truthful, Never, Admitted, Coordinator
  <2> QED
    BY <2>3, <2>4
<1>17. SenderInv'
  <2>1. ASSUME NEW d \in Calls, Sender(calls'[d])
        PROVE  calls'[d] = calls[d] /\ d # c /\ calls[d].subject # s
    BY <1>3, <1>8, <2>1 DEF SetsCall, Sender
  <2>2. ASSUME NEW d \in Calls, Sender(calls'[d])
        PROVE  posted'[calls'[d].subject] = 0 /\ Reserved(calls[d].subject)'
    <3>1. calls'[d] = calls[d] /\ d # c /\ calls[d].subject # s
      BY <2>1, <2>2
    <3>2. PICK t : t = calls[d].subject
      OBVIOUS
    <3>3. posted[t] = 0 /\ Reserved(t) /\ calls[d].phase # "idle"
      BY <2>2, <3>1, <3>2 DEF Inv, SenderInv, Sender
    <3>4. t \in Subjects
      BY <3>2, <3>3, Busy
    <3>5. posted'[t] = 0 /\ Reserved(t)'
      BY <1>7, <1>9, <3>1, <3>2, <3>3, <3>4
    <3> QED
      BY <3>1, <3>2, <3>5 DEF Reserved
  <2>3. ASSUME NEW d \in Calls, NEW e \in Calls, Sender(calls'[d]), Sender(calls'[e]),
               calls'[d].subject = calls'[e].subject
        PROVE  e = d
    <3>1. calls'[d] = calls[d] /\ calls'[e] = calls[e]
      BY <2>1, <2>3
    <3> QED
      BY <2>3, <3>1 DEF Inv, SenderInv
  <2>4. ASSUME NEW d \in Calls, Sender(calls'[d])
        PROVE  /\ posted'[calls'[d].subject] = 0
               /\ \E r \in reservations' : r.subject = calls'[d].subject
    BY <2>1, <2>2, <2>4 DEF Reserved
  <2> QED
    BY <2>3, <2>4 DEF SenderInv, Sender, Reserved
<1>18. ASSUME NEW t \in Subjects PROVE StoreInv(t)'
  BY <1>1, <1>9, <1>12 DEF Inv, StoreInv
<1>19. AgentInv'
  <2>1. \A a \in admissions : a.subject \in Subjects
    BY <1>6 DEF TypeOK, Item
  <2>2. \A a \in admissions : posted'[a.subject] > 0
    BY <1>7, <1>10, <2>1 DEF Inv, AgentInv
  <2> QED
    BY <1>1, <2>2 DEF Inv, AgentInv, AdmittedOnce, agentVars
<1>20. ASSUME NEW r \in requests' PROVE RequestInv(r)'
  <2>1. CASE r = p
    <3>1. \A q \in requests' : q.subject = p.subject => q = p
      BY <1>4, <1>5, <1>11
    <3>2. posted'[p.subject] > 0 /\ ~ Admitted(s)
      BY <1>4, <1>7, <1>10 DEF Admitted
    <3>3. ~ Admitted(s)'
      BY <1>9, <3>2
    <3> QED
      BY <1>4, <2>1, <3>1, <3>2, <3>3 DEF RequestInv, Admitted
  <2>2. CASE r \in requests
    <3>1. RequestInv(r) /\ r.subject # s /\ r.subject \in Subjects
      BY <1>6, <1>11, <2>2 DEF Inv, TypeOK, Request
    <3>2. posted'[r.subject] > 0 /\ setting' = setting
      BY <1>1, <1>7, <3>1 DEF RequestInv
    <3>3. \A q \in requests' : q.subject = r.subject => q \in requests
      BY <1>4, <1>5, <3>1
    <3> QED
      BY <1>9, <3>1, <3>2, <3>3 DEF RequestInv
  <2> QED
    BY <1>5, <2>1, <2>2
<1> QED
  BY <1>13, <1>14, <1>16, <1>17, <1>18, <1>19, <1>20 DEF Inv

-----------------------------------------------------------------------------
(* The Agent, the network and the clock.                                   *)

\* Core rests, and what will never be admitted is not.
LEMMA AgentStepInv ==
    ASSUME Inv, UNCHANGED <<setting, coreVars, posted>>, expired' \in BOOLEAN,
           requests' \subseteq Request, \A r \in requests' : RequestInv(r)',
           agentKeys' \subseteq Item, admissions' \subseteq agentKeys',
           admissions \subseteq admissions', AdmittedOnce',
           \A a \in admissions' : posted[a.subject] > 0,
           \A s \in Subjects : Never(s) => Never(s)'
    PROVE  Inv'
<1>1. UNCHANGED <<setting, reservations, receipts, verified, calls, posted>>
  BY DEF coreVars
<1>2. TypeOK' /\ AgentInv'
  BY <1>1 DEF Inv, TypeOK, AgentInv
<1>3. SentAtMostOnce' /\ SenderInv'
  BY <1>1 DEF Inv, SentAtMostOnce, SenderInv, Sender, Reserved
<1>4. ASSUME NEW c \in Calls PROVE Truthful(calls[c])'
  <2>1. PICK x \in Call : x = calls[c] /\ Truthful(x)
    BY DEF Inv, TypeOK
  <2>2. Truthful(x)'
    BY <1>1, <2>1, StaysTrue
  <2> QED
    BY <1>1, <2>1, <2>2 DEF Truthful, Never, Admitted, Coordinator
<1>5. ASSUME NEW s \in Subjects PROVE StoreInv(s)'
  <2>1. Admitted(s) => Admitted(s)'
    BY DEF Admitted
  <2> QED
    BY <1>1, <2>1 DEF Inv, StoreInv
<1> QED
  BY <1>2, <1>3, <1>4, <1>5 DEF Inv

\* The Agent answers a POST.  What it admits is what the POST delivers, and a
\* delivery that it rejects is one that it has not admitted.
LEMMA ReplyInv ==
    ASSUME Inv, NEW r \in requests, r.answer = "none",
           NEW answer \in {"admitted", "rejected"}, Reply(r, answer),
           UNCHANGED <<setting, expired, coreVars, posted>>,
           agentKeys' \subseteq Item, admissions' \subseteq agentKeys',
           admissions \subseteq admissions', AdmittedOnce',
           \A a \in admissions' : \/ a \in admissions
                                  \/ answer = "admitted" /\ a.subject = r.subject,
           answer = "admitted" => Admitted(r.subject)'
    PROVE  Inv'
<1>1. RequestInv(r) /\ r \in Request /\ expired' \in BOOLEAN /\ setting' = setting
  BY DEF Inv, TypeOK
<1>2. PICK q \in Request : /\ q = [r EXCEPT !.answer = answer]
                           /\ q.subject = r.subject /\ q.answer = answer
  <2> DEFINE q == [r EXCEPT !.answer = answer]
  <2>1. q \in Request /\ q.subject = r.subject /\ q.answer = answer
    BY <1>1 DEF Request
  <2> QED
    BY <2>1
<1>3. requests' \subseteq (requests \ {r}) \cup {q}
  BY <1>2 DEF Reply
<1>4. requests' \subseteq Request
  BY <1>2, <1>3 DEF Inv, TypeOK
<1>5. \A a \in admissions' : posted[a.subject] > 0
  BY <1>1 DEF Inv, AgentInv, RequestInv
<1>6. ASSUME NEW s \in Subjects, Never(s) PROVE Never(s)'
  <2>1. r.subject # s
    BY <1>6 DEF Never
  <2>2. ~ Admitted(s)'
    BY <1>6, <2>1 DEF Never, Admitted
  <2> QED
    BY <1>2, <1>3, <1>6, <2>1, <2>2 DEF Never
<1>7. ASSUME NEW p \in requests' PROVE RequestInv(p)'
  <2>1. CASE p = q
    <3>1. posted'[q.subject] > 0
      BY <1>1, <1>2 DEF RequestInv
    <3>2. ~ setting.twice => \A x \in requests' : x.subject = q.subject => x = q
      BY <1>1, <1>2, <1>3 DEF RequestInv
    <3>3. ~ setting.twice /\ answer # "admitted" => ~ Admitted(r.subject)'
      BY <1>1 DEF RequestInv, Admitted
    <3> QED
      BY <1>1, <1>2, <2>1, <3>1, <3>2, <3>3 DEF RequestInv, Admitted
  <2>2. CASE p \in requests /\ p # r
    <3>1. RequestInv(p) /\ posted' = posted
      BY <2>2 DEF Inv
    <3>2. Admitted(p.subject) => Admitted(p.subject)'
      BY DEF Admitted
    <3>3. ~ setting.twice => p.subject # r.subject
      BY <1>1, <2>2 DEF RequestInv
    <3>4. ~ setting.twice => (Admitted(p.subject)' => Admitted(p.subject))
      BY <3>3 DEF Admitted
    <3>5. ~ setting.twice => \A x \in requests' : x.subject = p.subject => x = p
      BY <1>2, <1>3, <3>1, <3>3 DEF RequestInv
    <3> QED
      BY <1>1, <3>1, <3>2, <3>4, <3>5 DEF RequestInv
  <2> QED
    BY <1>3, <2>1, <2>2
<1> QED
  BY <1>1, <1>4, <1>5, <1>6, <1>7, AgentStepInv

\* A POST is of an item.
LEMMA RequestItem ==
    ASSUME Inv, NEW r \in requests
    PROVE  /\ ItemOf(r) \in Item /\ ItemOf(r).subject = r.subject
           /\ ItemOf(r).key = r.key
  BY DEF Inv, TypeOK, Request, ItemOf, Item

\* The Agent's stores.
LEMMA AgentTyped ==
    ASSUME Inv
    PROVE  /\ agentKeys \subseteq Item /\ admissions \subseteq agentKeys
           /\ AdmittedOnce
  BY DEF Inv, TypeOK, AgentInv

\* What the Agent does with one POST.
LEMMA IntakeInv ==
    ASSUME Inv, NEW r \in requests,
           \/ Admit(r) \/ ReplayAdmission(r) \/ ReserveKeyOnly(r) \/ RejectIntake(r)
    PROVE  Inv'
<1>1. PICK i \in Item : i = ItemOf(r) /\ i.subject = r.subject /\ i.key = r.key
  BY RequestItem
<1>2. CASE Admit(r)
  <2>1. /\ r.answer = "none" /\ Reply(r, "admitted")
        /\ UNCHANGED <<setting, expired, coreVars, posted>>
        /\ agentKeys' = agentKeys \cup {i} /\ admissions' = admissions \cup {i}
    BY <1>1, <1>2 DEF Admit
  <2>2. \A a \in admissions : a.subject # i.subject /\ a.key # i.key
    BY <1>1, <1>2, AgentTyped DEF Admit, Unused, KeyHolders
  <2>3. AdmittedOnce'
    BY <2>1, <2>2, AgentTyped DEF AdmittedOnce
  <2>4. Admitted(r.subject)'
    BY <1>1, <2>1 DEF Admitted
  <2> QED
    BY <1>1, <2>1, <2>3, <2>4, AgentTyped, ReplyInv
<1>3. CASE ReplayAdmission(r)
  <2>1. /\ r.answer = "none" /\ Reply(r, "admitted") /\ i \in admissions
        /\ UNCHANGED <<setting, expired, coreVars, posted, agentKeys, admissions>>
    BY <1>1, <1>3 DEF ReplayAdmission, agentVars
  <2>2. AdmittedOnce'
    BY <2>1, AgentTyped DEF AdmittedOnce
  <2>3. Admitted(r.subject)'
    BY <1>1, <2>1 DEF Admitted
  <2> QED
    BY <2>1, <2>2, <2>3, AgentTyped, ReplyInv
<1>4. CASE ReserveKeyOnly(r) \/ RejectIntake(r)
  <2>1. /\ r.answer = "none" /\ Reply(r, "rejected")
        /\ UNCHANGED <<setting, expired, coreVars, posted, admissions>>
        /\ agentKeys \subseteq agentKeys' /\ agentKeys' \subseteq agentKeys \cup {i}
    BY <1>1, <1>4 DEF ReserveKeyOnly, RejectIntake, agentVars
  <2>2. AdmittedOnce'
    BY <2>1, AgentTyped DEF AdmittedOnce
  <2> QED
    BY <2>1, <2>2, AgentTyped, ReplyInv
<1> QED
  BY <1>2, <1>3, <1>4

\* The network loses a POST or delivers it twice, or time passes.
LEMMA NetworkInv ==
    ASSUME Inv, \/ \E r \in requests : LoseRequest(r) \/ DeliverTwice(r)
                \/ Expire
    PROVE  Inv'
<1>1. /\ UNCHANGED <<setting, coreVars, posted, agentKeys, admissions>>
      /\ expired' \in BOOLEAN
  BY DEF LoseRequest, DeliverTwice, Expire, agentVars, Inv, TypeOK
<1>2. AdmittedOnce' /\ agentKeys' \subseteq Item /\ admissions' \subseteq agentKeys'
  BY <1>1, AgentTyped DEF AdmittedOnce
<1>3. \A a \in admissions' : posted[a.subject] > 0
  BY <1>1 DEF Inv, AgentInv
<1>4. \A s : Admitted(s)' = Admitted(s)
  BY <1>1 DEF Admitted
<1>5. CASE requests' \subseteq requests
  <2>1. \A s \in Subjects : Never(s) => Never(s)'
    BY <1>1, <1>4, <1>5 DEF Never
  <2>2. ASSUME NEW r \in requests' PROVE RequestInv(r)'
    BY <1>1, <1>4, <1>5 DEF Inv, RequestInv
  <2> QED
    BY <1>1, <1>2, <1>3, <1>5, <2>1, <2>2, AgentStepInv DEF Inv, TypeOK
<1>6. CASE \E r \in requests : DeliverTwice(r)
  <2>1. PICK r \in requests : DeliverTwice(r)
    BY <1>6
  <2>2. PICK q \in Request : q = [r EXCEPT !.n = 0] /\ q.subject = r.subject
                             /\ q.answer = "none"
    <3> DEFINE q == [r EXCEPT !.n = 0]
    <3>1. r \in Request /\ r.answer = "none"
      BY <2>1 DEF DeliverTwice, Inv, TypeOK
    <3>2. q \in Request /\ q.subject = r.subject /\ q.answer = "none"
      BY <3>1 DEF Request
    <3> QED
      BY <3>2
  <2>3. requests' = requests \cup {q} /\ setting.twice
    BY <2>1, <2>2 DEF DeliverTwice
  <2>4. \A s \in Subjects : Never(s) => Never(s)'
    BY <1>1, <1>4, <2>2, <2>3 DEF Never
  <2>5. ASSUME NEW p \in requests' PROVE RequestInv(p)'
    <3>1. RequestInv(r)
      BY DEF Inv
    <3>2. CASE p = q
      BY <1>1, <2>2, <2>3, <3>1, <3>2 DEF RequestInv
    <3>3. CASE p \in requests
      BY <1>1, <1>4, <2>3, <3>3 DEF Inv, RequestInv
    <3> QED
      BY <2>3, <3>2, <3>3
  <2> QED
    BY <1>1, <1>2, <1>3, <2>2, <2>3, <2>4, <2>5, AgentStepInv DEF Inv, TypeOK
<1> QED
  BY <1>5, <1>6 DEF LoseRequest, Expire

\* A crash of Core: its stores and the POSTs stay.
LEMMA CoreCrashInv ==
    ASSUME Inv, CoreCrash
    PROVE  Inv'
<1>1. /\ UNCHANGED <<setting, expired, reservations, receipts, verified, agentVars, posted>>
      /\ requests' \subseteq requests
      /\ calls' = [c \in Calls |-> IdleCall]
  BY DEF CoreCrash
<1>2. Quiet
  BY <1>1, QuietStays
<1>3. TypeOK'
  BY <1>1, <1>2, IdleTyped DEF Inv, TypeOK, Quiet, agentVars
<1>4. SentAtMostOnce' /\ AgentInv'
  BY <1>1 DEF Inv, SentAtMostOnce, AgentInv, AdmittedOnce, agentVars
<1>5. \A c \in Calls : calls'[c] = IdleCall
  BY <1>1
<1>6. ASSUME NEW c \in Calls PROVE Truthful(calls[c])'
  BY <1>5, IdleTyped DEF Truthful
<1>7. SenderInv'
  BY <1>5, IdleTyped DEF SenderInv, Sender
<1>8. ASSUME NEW r \in requests' PROVE RequestInv(r)'
  BY <1>1 DEF Inv, RequestInv, Admitted, agentVars
<1> QED
  BY <1>2, <1>3, <1>4, <1>6, <1>7, <1>8 DEF Inv, Quiet

-----------------------------------------------------------------------------
(* The specification.                                                      *)

\* Nothing is stored, sent or asked for at first.
LEMMA InitInv == ASSUME Init PROVE Inv
<1>1. \A c \in Calls : calls[c] = IdleCall
  BY DEF Init
<1>2. TypeOK
  BY IdleTyped DEF Init, TypeOK, Lifecycle
<1>3. \A c \in Calls : Truthful(calls[c]) /\ ~ Sender(calls[c])
  BY <1>1, IdleTyped DEF Truthful, Sender
<1>4. \A s \in Subjects : StoreInv(s)
  BY DEF Init, StoreInv
<1>5. SentAtMostOnce /\ AgentInv /\ \A r \in requests : RequestInv(r)
  BY DEF Init, SentAtMostOnce, AgentInv, AdmittedOnce
<1> QED
  BY <1>2, <1>3, <1>4, <1>5 DEF Inv, SenderInv

\* No step breaks the invariant.
LEMMA NextInv == ASSUME Inv, [Next]_vars PROVE Inv'
<1>1. CASE UNCHANGED vars
  <2>1. UNCHANGED <<setting, coreVars, posted, expired, requests, agentKeys, admissions>>
    BY <1>1 DEF vars, agentVars
  <2>2. AdmittedOnce' /\ \A s : Never(s) => Never(s)'
    BY <2>1, AgentTyped DEF AdmittedOnce, Never, Admitted
  <2>3. \A r \in requests' : RequestInv(r)'
    BY <2>1 DEF Inv, RequestInv, Admitted
  <2>4. \A a \in admissions' : posted[a.subject] > 0
    BY <2>1 DEF Inv, AgentInv
  <2> QED
    BY <2>1, <2>2, <2>3, <2>4, AgentTyped, AgentStepInv DEF Inv, TypeOK
<1>2. ASSUME NEW c \in Calls, CoreStep(c) PROVE Inv'
  BY <1>2, CreateInv, ReserveInv, StoredInv, TransmitOnceInv, ReceiveInv, UncertainInv,
     AppendOutcomeInv, CloseAfterFailureInv, RecordAdmittedInv, AppendReceiptInv, FailInv
     DEF CoreStep
<1> QED
  BY <1>1, <1>2, IntakeInv, NetworkInv, CoreCrashInv DEF Next

\* Every reachable state satisfies the invariant.
LEMMA SpecInv == Spec => []Inv
<1>1. Init => Inv
  BY InitInv
<1>2. Inv /\ [Next]_vars => Inv'
  BY NextInv
<1> QED
  BY <1>1, <1>2, PTL DEF Spec

\* Core offers a delivery to the transport at most once, and only when its
\* reservation is on disk: whoever asks, under whichever key, and whatever
\* crashes or is lost between the reservation and the POST.
THEOREM SentSafety == Spec => []SentAtMostOnce
<1>1. Inv => SentAtMostOnce
  BY DEF Inv
<1> QED
  BY <1>1, SpecInv, PTL

\* The invariant says what Core and the Agent have agreed on.
LEMMA InvSound == ASSUME Inv PROVE DeliverySound
<1>1. ASSUME NEW s \in Subjects
      PROVE  /\ receipts[s] = "admitted" => \E a \in admissions : a.subject = s
             /\ (receipts[s] = "rejected" \/ Answered(s, "rejected")) /\ ~setting.twice =>
                    /\ \A a \in admissions : a.subject # s
                    /\ \A r \in requests : r.subject # s
             /\ s \in verified \/ Answered(s, "verified") =>
                    s \in verified /\ receipts[s] = "admitted"
             /\ Coordinator =>
                    \A l \in Lifecycle \ {"none"} : Answered(s, l) => receipts[s] = l
  <2>1. receipts[s] = "admitted" => \E a \in admissions : a.subject = s
    BY DEF Inv, StoreInv, Admitted
  <2>2. (receipts[s] = "rejected" \/ Answered(s, "rejected")) /\ ~setting.twice => Never(s)
    BY DEF Inv, StoreInv, Truthful, Answered
  <2>3. s \in verified \/ Answered(s, "verified") =>
                    s \in verified /\ receipts[s] = "admitted"
    BY DEF Inv, StoreInv, Truthful, Answered
  <2>4. Coordinator =>
                    \A l \in Lifecycle \ {"none"} : Answered(s, l) => receipts[s] = l
    BY DEF Inv, Truthful, Answered
  <2> QED
    BY <2>1, <2>2, <2>3, <2>4 DEF Never, Admitted
<1>2. TypeOK /\ AdmittedOnce
  BY DEF Inv, AgentInv
<1>3. OutcomeIsTrue
  BY <1>1 DEF OutcomeIsTrue
<1> QED
  BY <1>2, <1>3 DEF DeliverySound

\* What Core records or tells of a delivery is so at the Agent: an admission is
\* on its disk, a rejected delivery is not admitted and never will be unless the
\* network repeats a POST, and the Agent admits a delivery at most once.
THEOREM DeliverySafety == Spec => []DeliverySound
<1>1. Inv => DeliverySound
  BY InvSound
<1> QED
  BY <1>1, SpecInv, PTL

\* A step appends to the stores, and writes a receipt where there was none.
LEMMA StepFinal ==
    ASSUME TypeOK, [Next]_vars
    PROVE  /\ reservations \subseteq reservations' /\ verified \subseteq verified'
           /\ agentKeys \subseteq agentKeys' /\ admissions \subseteq admissions'
           /\ \A s \in Subjects : receipts[s] # "none" => receipts'[s] = receipts[s]
<1> DEFINE Grown ==
           /\ reservations \subseteq reservations' /\ verified \subseteq verified'
           /\ agentKeys \subseteq agentKeys' /\ admissions \subseteq admissions'
           /\ \A s \in Subjects : receipts[s] # "none" => receipts'[s] = receipts[s]
<1>2. ASSUME NEW c \in Calls, AppendOutcome(c) \/ RecordAdmitted(c) PROVE Grown
  <2>1. UNCHANGED <<reservations, verified, agentKeys, admissions>>
    BY <1>2 DEF AppendOutcome, RecordAdmitted, agentVars
  <2>2. PICK s : s = calls[c].subject
    OBVIOUS
  <2>3. \/ UNCHANGED receipts
        \/ receipts[s] = "none" /\ receipts' = [receipts EXCEPT ![s] = calls[c].outcome]
        \/ receipts[s] = "none" /\ receipts' = [receipts EXCEPT ![s] = "admitted"]
    BY <1>2, <2>2 DEF AppendOutcome, RecordAdmitted, MayClose
  <2> QED
    BY <2>1, <2>3 DEF TypeOK
<1>3. ASSUME NEW c \in Calls, Reserve(c) \/ AppendReceipt(c) PROVE Grown
  BY <1>3 DEF Reserve, AppendReceipt, agentVars
<1>4. ASSUME NEW c \in Calls,
             \/ \E s \in Subjects, k \in Keys : Create(c, s, k)
             \/ Stored(c) \/ TransmitOnce(c) \/ Receive(c) \/ Uncertain(c)
             \/ CloseAfterFailure(c) \/ Fail(c)
      PROVE  Grown
  <2>1. UNCHANGED <<reservations, verified, agentKeys, admissions, receipts>>
    BY <1>4 DEF Create, Stored, TransmitOnce, Receive, Uncertain, CloseAfterFailure, Fail,
                agentVars
  <2> QED
    BY <2>1
<1>5. ASSUME NEW r \in requests,
             \/ Admit(r) \/ ReplayAdmission(r) \/ ReserveKeyOnly(r) \/ RejectIntake(r)
             \/ LoseRequest(r) \/ DeliverTwice(r)
      PROVE  Grown
  <2>1. UNCHANGED <<reservations, verified, receipts>>
    BY <1>5 DEF Admit, ReplayAdmission, ReserveKeyOnly, RejectIntake, LoseRequest,
                DeliverTwice, coreVars
  <2>2. agentKeys \subseteq agentKeys' /\ admissions \subseteq admissions'
    BY <1>5 DEF Admit, ReplayAdmission, ReserveKeyOnly, RejectIntake, LoseRequest,
                DeliverTwice, agentVars
  <2> QED
    BY <2>1, <2>2
<1>6. ASSUME CoreCrash \/ Expire \/ UNCHANGED vars PROVE Grown
  <2>1. UNCHANGED <<reservations, verified, agentKeys, admissions, receipts>>
    BY <1>6 DEF CoreCrash, Expire, vars, coreVars, agentVars
  <2> QED
    BY <2>1
<1> HIDE DEF Grown
<1>7. ASSUME NEW c \in Calls, CoreStep(c) PROVE Grown
  BY <1>2, <1>3, <1>4, <1>7 DEF CoreStep
<1>8. Next => Grown
  BY <1>5, <1>6, <1>7 DEF Next
<1>9. Grown
  BY <1>6, <1>8
<1> QED
  BY <1>9 DEF Grown

\* Reservations, receipts and admissions are for ever: a late answer never
\* changes an attempt that a duplicate call or a failure closed as ambiguous.
THEOREM OutcomesFinal == Spec => OutcomeFinal
<1>1. Inv /\ [Next]_vars =>
        [/\ reservations \subseteq reservations' /\ verified \subseteq verified'
         /\ agentKeys \subseteq agentKeys' /\ admissions \subseteq admissions'
         /\ \A s \in Subjects : receipts[s] # "none" => receipts'[s] = receipts[s]]_vars
  BY StepFinal DEF Inv
<1> QED
  BY <1>1, SpecInv, PTL DEF Spec, OutcomeFinal

=============================================================================
