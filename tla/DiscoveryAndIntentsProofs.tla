----------------------- MODULE DiscoveryAndIntentsProofs -----------------------
(***************************************************************************)
(* Safety of two stores of Core, for every value of their constants.       *)
(*                                                                         *)
(* First the cache of dynamic Discovery evidence: every set of processes,  *)
(* clients, generations and settings, every expiry and every bound on the  *)
(* clocks.  Then the Provider Intent store: every set of guests,           *)
(* incarnations, expectations, requests, calls, policies and settings that *)
(* IntentsAssumption allows.                                               *)
(***************************************************************************)
EXTENDS DiscoveryCache, IntentStore, FiniteSetTheorems, TLAPS

-----------------------------------------------------------------------------
(* What the tasks, the calls and the directory say together.               *)

Task == [phase : AsyncPhases \cup LockedPhases \cup {"publish", "readback"},
         now : Times, gen : Gens \cup {NoGen}, prev : Gens \cup {NoGen},
         removing : Gens \cup {NoGen}, outcome : Outcomes,
         degraded : BOOLEAN, io : BOOLEAN]

Call == [phase : {"idle", "waiting", "reading"}, slot : Slots \cup {0},
         named : Gens \cup {NoGen}, answer : Answers]

\* Before the pointer is replaced: what is published is later than what is
\* current, and its directory is complete before it is named.
BeforePoint(k) ==
    /\ k.prev = current
    /\ Later(k.gen, current)
    /\ k.phase \in {"flushGens", "point"} => files[k.gen] = "complete"
    /\ k.phase = "point" => disk[k.gen] = {"complete"}

\* While it prunes, the pointer is settled and neither what it names nor the
\* generation before it is removed.
Pruning(k) ==
    /\ pointers = {k.gen}
    /\ k.removing # NoGen => /\ files[k.removing] = "partial"
                             /\ k.removing \notin {k.gen, k.prev}

\* Before it answers: a success is about evidence that was valid for the
\* caller and that nothing older has replaced.
BeforeAnswer(k) ==
    /\ k.outcome \in {"refreshed", "noop"} =>
          k.gen \in Gens /\ Evaluated(k.gen, k.now) = "valid" /\ ~ Later(k.gen, current)
    /\ k.outcome = "refreshed" /\ ~ k.degraded =>
          \A g \in pointers : ~ Later(k.gen, g)
    /\ k.outcome = "cache_corrupt" => k.io

\* The task of a slot, by the phase it is in.
TaskInv(k) ==
    /\ k.phase \in LockedPhases \cup {"publish"} =>
          k.gen \in Gens /\ Evaluated(k.gen, k.now) = "valid"
    /\ k.phase \in {"stage", "rename", "flushGens", "point"} => BeforePoint(k)
    /\ k.phase \in {"flushPointer", "prune"} => current = k.gen
    /\ k.phase = "prune" => Pruning(k)
    /\ k.phase \notin {"prune", "readback"} => k.removing = NoGen
    /\ k.phase = "readback" => BeforeAnswer(k)

\* The task callers join is the only one, a process that is not serving has
\* none, and a startup waits for the one it began.
FlightInv(p) ==
    /\ \A i \in Slots : task[p][i].phase # "none" <=> inflight[p] = i
    /\ proc[p] \in {"down", "curated"} => inflight[p] = 0
    /\ proc[p] = "starting" => inflight[p] = 0 \/ call[p].phase # "idle"

\* The flock: one writer, and no reader while it writes.
LockInv ==
    \A p \in Procs, i \in Slots :
       task[p][i].phase \in LockedPhases =>
          /\ \A q \in Procs, j \in Slots :
                task[q][j].phase \in LockedPhases => q = p /\ j = i
          /\ \A c \in Clients : call[c].phase # "reading"

\* A reader finds the generation it was sent to.
CallInv(c) ==
    call[c].phase = "reading" => c \in Clients /\ files[call[c].named] = "complete"

Inv ==
    /\ TypeOK
    /\ CurrentIsComplete
    /\ \A g \in Gens : files[g] \in disk[g]
    /\ \A p \in Procs : FlightInv(p)
    /\ LockInv
    /\ \A p \in Procs, i \in Slots : TaskInv(task[p][i])
    /\ \A c \in Callers : CallInv(c)

-----------------------------------------------------------------------------
(* Lemmas about the order and about a step of one task.                    *)

\* The first generation is not one of the source's.
LEMMA NoGenFresh == NoGen \notin Gens
  BY GensAssumption DEF NoGen

\* Generations are totally ordered.
LEMMA LaterOrder ==
    ASSUME NEW f \in Gens \cup {NoGen}, NEW g \in Gens \cup {NoGen},
           NEW h \in Gens \cup {NoGen}
    PROVE  /\ ~ Later(g, g)
           /\ Later(f, g) /\ Later(g, h) => Later(f, h)
           /\ g = h \/ Later(g, h) \/ Later(h, g)
           /\ Later(g, h) => g.stamp >= h.stamp
           /\ g.stamp \in Nat /\ h.stamp \in Nat
<1>1. \A x \in {f, g, h} : x \in [stamp : Nat, digest : Nat]
  BY GensAssumption DEF NoGen
<1> QED
  BY <1>1 DEF Later

\* Task i of process p becomes k, the others stay.
SetsTask(p, i, k) ==
    /\ task' \in [Procs -> [Slots -> Task]]
    /\ task'[p][i] = k
    /\ \A q \in Procs, j \in Slots : q # p \/ j # i => task'[q][j] = task[q][j]

\* It does so when the code writes one field or several.
LEMMA TaskSet ==
    ASSUME TypeOK, NEW p \in Procs, NEW i \in Slots, NEW k \in Task,
           task' = [task EXCEPT ![p][i] = k]
    PROVE  SetsTask(p, i, k)
<1>1. task \in [Procs -> [Slots -> Task]]
  BY DEF TypeOK, Task
<1> QED
  BY <1>1 DEF SetsTask

\* A step only changes the phase.
LEMMA StepTask ==
    ASSUME TypeOK, NEW p \in Procs, NEW i \in Slots,
           NEW phase \in LockedPhases \cup {"publish"}, Step(p, i, phase)
    PROVE  \E k \in Task :
              /\ SetsTask(p, i, k)
              /\ k.phase = phase
              /\ k.now = task[p][i].now
              /\ k.gen = task[p][i].gen
              /\ k.prev = task[p][i].prev
              /\ k.removing = task[p][i].removing
<1>1. task[p][i] \in Task /\ task \in [Procs -> [Slots -> Task]]
  BY DEF TypeOK, Task
<1> DEFINE k == [task[p][i] EXCEPT !.phase = phase]
<1>2. /\ k \in Task /\ k.phase = phase /\ k.now = task[p][i].now
      /\ k.gen = task[p][i].gen /\ k.prev = task[p][i].prev
      /\ k.removing = task[p][i].removing
  BY <1>1 DEF Task
<1>3. task' = [task EXCEPT ![p][i] = k]
  BY <1>1 DEF Step
<1> HIDE DEF k
<1> QED
  BY <1>2, <1>3, TaskSet

\* The outcomes a task reports.
LEMMA OutcomeNames ==
    \A o \in {"refreshed", "noop", "degraded", "unavailable", "publication_failed"} :
       o \in Outcomes
  BY DEF Outcomes

\* A publication is over, with its maintenance as it should be or degraded.
Fails(p, i, outcome) == Over(p, i, outcome, FALSE)
Degrades(p, i, outcome) == Over(p, i, outcome, TRUE)

\* A publication that is over reads the cache back.
LEMMA OverTask ==
    ASSUME TypeOK, NEW p \in Procs, NEW i \in Slots, NEW outcome \in Outcomes
    PROVE  /\ Fails(p, i, outcome) =>
              \E k \in Task :
                 /\ SetsTask(p, i, k) /\ k.phase = "readback"
                 /\ k.now = task[p][i].now /\ k.gen = task[p][i].gen
                 /\ k.outcome = outcome /\ ~ k.degraded
           /\ Degrades(p, i, outcome) =>
              \E k \in Task :
                 /\ SetsTask(p, i, k) /\ k.phase = "readback"
                 /\ k.now = task[p][i].now /\ k.gen = task[p][i].gen
                 /\ k.outcome = outcome /\ k.degraded
<1>1. task[p][i] \in Task /\ task \in [Procs -> [Slots -> Task]]
  BY DEF TypeOK, Task
<1> DEFINE K(degraded) == [task[p][i] EXCEPT !.phase = "readback",
                             !.outcome = outcome, !.degraded = degraded]
<1>2. /\ K(FALSE) \in Task /\ K(FALSE).phase = "readback"
      /\ K(FALSE).now = task[p][i].now
      /\ K(FALSE).gen = task[p][i].gen /\ K(FALSE).outcome = outcome
      /\ ~ K(FALSE).degraded
  BY <1>1 DEF Task
<1>3. /\ K(TRUE) \in Task /\ K(TRUE).phase = "readback"
      /\ K(TRUE).now = task[p][i].now
      /\ K(TRUE).gen = task[p][i].gen /\ K(TRUE).outcome = outcome
      /\ K(TRUE).degraded
  BY <1>1 DEF Task
<1>4. ASSUME Fails(p, i, outcome) PROVE task' = [task EXCEPT ![p][i] = K(FALSE)]
  BY <1>1, <1>4 DEF Fails, Over
<1>5. ASSUME Degrades(p, i, outcome) PROVE task' = [task EXCEPT ![p][i] = K(TRUE)]
  BY <1>1, <1>5 DEF Degrades, Over
<1>6. Fails(p, i, outcome) => SetsTask(p, i, K(FALSE))
  BY <1>2, <1>4, TaskSet
<1>7. Degrades(p, i, outcome) => SetsTask(p, i, K(TRUE))
  BY <1>3, <1>5, TaskSet
<1> HIDE DEF K
<1> QED
  BY <1>2, <1>3, <1>6, <1>7

\* So does one that could not read what it found, which it remembers.
LEMMA CorruptTask ==
    ASSUME TypeOK, NEW p \in Procs, NEW i \in Slots, Corrupt(p, i)
    PROVE  \E k \in Task :
              /\ SetsTask(p, i, k)
              /\ k.phase = "readback"
              /\ k.outcome = "cache_corrupt"
              /\ k.io
<1>1. task[p][i] \in Task /\ task \in [Procs -> [Slots -> Task]]
  BY DEF TypeOK, Task
<1> DEFINE k == [task[p][i] EXCEPT !.phase = "readback",
                                   !.outcome = "cache_corrupt", !.io = TRUE]
<1>2. k \in Task /\ k.phase = "readback" /\ k.outcome = "cache_corrupt" /\ k.io
  BY <1>1 DEF Task, Outcomes
<1>3. task' = [task EXCEPT ![p][i] = k]
  BY <1>1 DEF Corrupt
<1> HIDE DEF k
<1> QED
  BY <1>2, <1>3, TaskSet

\* What is said of a task only changes with the cache.
LEMMA SameCache ==
    ASSUME UNCHANGED cache, NEW k, TaskInv(k)
    PROVE  TaskInv(k)'
<1>1. UNCHANGED <<files, disk, current, pointers>>
  BY DEF cache
<1>2. BeforePoint(k) => BeforePoint(k)'
  BY <1>1 DEF BeforePoint
<1>3. Pruning(k) => Pruning(k)'
  BY <1>1 DEF Pruning
<1>4. BeforeAnswer(k) => BeforeAnswer(k)'
  BY <1>1 DEF BeforeAnswer
<1> QED
  BY <1>1, <1>2, <1>3, <1>4 DEF TaskInv

\* A step of one task that writes nothing to the cache.
LEMMA QuietInv ==
    ASSUME Inv, NEW p \in Procs, NEW i \in Slots, NEW k \in Task,
           SetsTask(p, i, k), task[p][i].phase # "none", k.phase # "none",
           k.phase \in LockedPhases => task[p][i].phase \in LockedPhases \/ Unlocked,
           TaskInv(k),
           UNCHANGED <<cache, proc, inflight, call, setting>>
    PROVE  Inv'
<1>1. UNCHANGED <<files, disk, current, pointers>>
  BY DEF cache
<1>2. TypeOK'
  BY <1>1 DEF Inv, TypeOK, SetsTask, Task
<1>3. CurrentIsComplete' /\ \A g \in Gens : files'[g] \in disk'[g]
  BY <1>1 DEF Inv, CurrentIsComplete
<1>4. ASSUME NEW q \in Procs PROVE FlightInv(q)'
  BY DEF Inv, FlightInv, SetsTask
<1>5. ASSUME NEW q \in Procs, NEW j \in Slots PROVE TaskInv(task[q][j])'
  <2>1. TaskInv(task'[q][j])
    BY DEF Inv, SetsTask
  <2> QED
    BY <2>1, SameCache
<1>6. LockInv'
  BY DEF Inv, LockInv, SetsTask, Unlocked, Unwritten
<1>7. ASSUME NEW c \in Callers PROVE CallInv(c)'
  BY <1>1 DEF Inv, CallInv
<1> QED
  BY <1>2, <1>3, <1>4, <1>5, <1>6, <1>7 DEF Inv

\* A step of the task that holds the lock: nobody else is in the cache, and
\* those who are about to answer only care that nothing gets older.
LEMMA WriterInv ==
    ASSUME Inv, NEW p \in Procs, NEW i \in Slots, NEW k \in Task,
           SetsTask(p, i, k), task[p][i].phase \in LockedPhases, k.phase # "none",
           UNCHANGED <<proc, inflight, call, setting>>,
           files' \in [Gens -> DirStates],
           disk' \in [Gens -> (SUBSET DirStates) \ {{}}],
           \A g \in Gens : files'[g] \in disk'[g],
           current' \in pointers', pointers' \subseteq Gens \cup {NoGen},
           CurrentIsComplete',
           current' = current \/ Later(current', current),
           pointers' \subseteq pointers \cup {current'},
           TaskInv(k)'
    PROVE  Inv'
<1>1. task[p][i].phase # "none"
  BY DEF LockedPhases
<1>2. TypeOK'
  BY DEF Inv, TypeOK, SetsTask, Task
<1>3. ASSUME NEW q \in Procs PROVE FlightInv(q)'
  BY <1>1 DEF Inv, FlightInv, SetsTask
<1>4. LockInv'
  BY DEF Inv, LockInv, SetsTask
<1>5. ASSUME NEW q \in Procs, NEW j \in Slots, q # p \/ j # i
      PROVE  TaskInv(task[q][j])'
  <2>1. /\ task'[q][j] = task[q][j] /\ task[q][j].phase \notin LockedPhases
        /\ TaskInv(task[q][j]) /\ task[q][j] \in Task
    BY <1>5 DEF Inv, LockInv, SetsTask, TypeOK, Task
  <2>2. current \in Gens \cup {NoGen} /\ current' \in Gens \cup {NoGen}
    BY DEF Inv, TypeOK
  <2>3. task[q][j].gen \in Gens \cup {NoGen}
    BY <2>1 DEF Task
  <2>4. ~ Later(task[q][j].gen, current) => ~ Later(task[q][j].gen, current')
    BY <2>2, <2>3, LaterOrder
  <2>5. task[q][j].phase = "readback" => BeforeAnswer(task[q][j])'
    <3> SUFFICES ASSUME task[q][j].phase = "readback"
                 PROVE  BeforeAnswer(task[q][j])'
      OBVIOUS
    <3>1. BeforeAnswer(task[q][j])
      BY <2>1 DEF TaskInv
    <3> QED
      BY <2>1, <2>4, <3>1 DEF BeforeAnswer
  <2> QED
    BY <2>1, <2>5 DEF TaskInv, LockedPhases
<1>6. ASSUME NEW q \in Procs, NEW j \in Slots PROVE TaskInv(task[q][j])'
  BY <1>5 DEF SetsTask
<1>7. ASSUME NEW c \in Callers PROVE CallInv(c)'
  BY DEF Inv, CallInv, LockInv
<1> QED
  BY <1>2, <1>3, <1>4, <1>6, <1>7 DEF Inv

-----------------------------------------------------------------------------
(* The steps of a task.                                                    *)

\* What is known of a task that is at work.
LEMMA TaskFacts ==
    ASSUME Inv, NEW p \in Procs, NEW i \in Slots
    PROVE  /\ TypeOK
           /\ task[p][i] \in Task
           /\ TaskInv(task[p][i])
           /\ current \in Gens \cup {NoGen}
           /\ current # NoGen => current \in Gens /\ files[current] = "complete"
  BY DEF Inv, TypeOK, Task, CurrentIsComplete

\* What the source gave is published only if it is valid for the caller.
LEMMA FetchedInv ==
    ASSUME Inv, NEW p \in Procs, NEW i \in Slots, Fetched(p, i)
    PROVE  Inv'
<1>1. /\ task[p][i] \in Task /\ TypeOK /\ TaskInv(task[p][i])
      /\ task[p][i].phase = "fetching"
      /\ UNCHANGED <<cache, proc, inflight, call, setting>>
  <2>1. task[p][i].phase = "fetching"
        /\ UNCHANGED <<cache, proc, inflight, call, setting>>
    BY Zenon DEF Fetched
  <2> QED
    BY <2>1, TaskFacts
<1>2. CASE \E outcome \in {"degraded", "unavailable"} : Fails(p, i, outcome)
  <2>1. PICK outcome \in {"degraded", "unavailable"} : Fails(p, i, outcome)
    BY <1>2
  <2>2. PICK k \in Task : /\ SetsTask(p, i, k) /\ k.phase = "readback"
                          /\ k.outcome = outcome
    BY <1>1, <2>1, OverTask, OutcomeNames
  <2>3. TaskInv(k)
    BY <2>2 DEF TaskInv, BeforeAnswer, LockedPhases
  <2> QED
    BY <1>1, <2>2, <2>3, QuietInv DEF LockedPhases
<1>3. ASSUME NEW g \in setting.gens,
             task' = [task EXCEPT ![p][i] = Received(task[p][i], g)]
      PROVE  Inv'
  <2> DEFINE k == Received(task[p][i], g)
  <2>1. g \in Gens
    BY GensAssumption DEF Inv, TypeOK
  <2>2. /\ k \in Task /\ k.gen = g /\ k.now = task[p][i].now
        /\ k.removing = task[p][i].removing
        /\ \/ k.phase = "publish" /\ Evaluated(g, task[p][i].now) = "valid"
           \/ k.phase = "readback" /\ k.outcome = "degraded"
    BY <1>1, <2>1, OutcomeNames DEF Received, Task
  <2> HIDE DEF k
  <2>3. SetsTask(p, i, k)
    BY <1>1, <1>3, <2>2, TaskSet DEF k
  <2>4. TaskInv(k)
    BY <1>1, <2>1, <2>2 DEF TaskInv, BeforeAnswer, LockedPhases
  <2> QED
    BY <1>1, <2>2, <2>3, <2>4, QuietInv DEF LockedPhases
<1> QED
  BY <1>2, <1>3 DEF Fetched, Fails

\* A publication that fails, before or after it replaced the pointer, leaves
\* a task that answers.
LEMMA FailInv ==
    ASSUME Inv, NEW p \in Procs, NEW i \in Slots, task[p][i].phase # "none",
           Fails(p, i, "publication_failed") \/ Corrupt(p, i),
           UNCHANGED <<cache, proc, inflight, call, setting>>
    PROVE  Inv'
<1>1. PICK k \in Task :
        /\ SetsTask(p, i, k) /\ k.phase = "readback"
        /\ k.outcome = "publication_failed" \/ (k.outcome = "cache_corrupt" /\ k.io)
  BY TaskFacts, OverTask, CorruptTask, OutcomeNames
<1>2. TaskInv(k)
  BY <1>1 DEF TaskInv, BeforeAnswer, LockedPhases
<1> QED
  BY <1>1, <1>2, QuietInv DEF LockedPhases

\* The lock is taken when nobody has it, and what is published from then on
\* is later than what is current.
LEMMA DecideInv ==
    ASSUME Inv, NEW p \in Procs, NEW i \in Slots, Decide(p, i)
    PROVE  Inv'
<1> DEFINE g == task[p][i].gen
<1>1. /\ task[p][i].phase = "publish" /\ task[p][i] \in Task /\ TypeOK /\ Unlocked
      /\ TaskInv(task[p][i]) /\ UNCHANGED <<cache, proc, inflight, call, setting>>
      /\ g \in Gens /\ current \in Gens \cup {NoGen}
      /\ Evaluated(g, task[p][i].now) = "valid"
  BY TaskFacts DEF Decide, TaskInv
<1>2. CASE Fails(p, i, "publication_failed") \/ Corrupt(p, i)
  BY <1>1, <1>2, FailInv
<1>3. CASE Superseded(g) /\ Fails(p, i, "noop")
  <2>1. PICK k \in Task :
          /\ SetsTask(p, i, k) /\ k.phase = "readback" /\ k.outcome = "noop"
          /\ k.gen = g /\ k.now = task[p][i].now
    BY <1>1, <1>3, OverTask, OutcomeNames
  <2>2. ~ Later(g, current)
    BY <1>1, <1>3, LaterOrder DEF Superseded
  <2>3. TaskInv(k)
    BY <1>1, <2>1, <2>2 DEF TaskInv, BeforeAnswer, LockedPhases
  <2> QED
    BY <1>1, <2>1, <2>3, QuietInv DEF LockedPhases
<1>4. CASE /\ ~ Superseded(g)
           /\ task' = [task EXCEPT ![p][i] = [@ EXCEPT !.phase = "stage",
                           !.prev = current]]
  <2> DEFINE k == [task[p][i] EXCEPT !.phase = "stage", !.prev = current]
  <2>1. /\ k \in Task /\ k.phase = "stage" /\ k.prev = current /\ k.gen = g
        /\ k.now = task[p][i].now /\ k.removing = task[p][i].removing
    BY <1>1 DEF Task, LockedPhases
  <2>2. task' = [task EXCEPT ![p][i] = k]
    BY <1>1, <1>4 DEF TypeOK
  <2> HIDE DEF k
  <2>3. SetsTask(p, i, k)
    BY <1>1, <2>1, <2>2, TaskSet
  <2>4. Later(g, current)
    BY <1>1, <1>4, LaterOrder DEF Superseded
  <2>5. TaskInv(k)
    BY <1>1, <2>1, <2>4 DEF TaskInv, BeforePoint
  <2> QED
    BY <1>1, <2>1, <2>3, <2>5, QuietInv
<1> QED
  BY <1>1, <1>2, <1>3, <1>4 DEF Decide, Fails

\* The three files are staged where nothing reads them.
LEMMA StageInv ==
    ASSUME Inv, NEW p \in Procs, NEW i \in Slots, Stage(p, i)
    PROVE  Inv'
<1>1. /\ task[p][i].phase = "stage" /\ task[p][i] \in Task /\ TypeOK
      /\ TaskInv(task[p][i]) /\ UNCHANGED <<cache, proc, inflight, call, setting>>
  BY TaskFacts DEF Stage
<1>2. CASE Step(p, i, "rename")
  <2>1. PICK k \in Task :
          /\ SetsTask(p, i, k) /\ k.phase = "rename" /\ k.now = task[p][i].now
          /\ k.gen = task[p][i].gen /\ k.prev = task[p][i].prev
          /\ k.removing = task[p][i].removing
    BY <1>1, <1>2, StepTask DEF LockedPhases
  <2>2. TaskInv(k)
    BY <1>1, <2>1 DEF TaskInv, BeforePoint, LockedPhases
  <2> QED
    BY <1>1, <2>1, <2>2, QuietInv DEF LockedPhases
<1>3. CASE Fails(p, i, "publication_failed")
  BY <1>1, <1>3, FailInv
<1> QED
  BY <1>2, <1>3 DEF Stage, Fails

\* A file operation on one generation.
LEMMA BecomesCache ==
    ASSUME Inv, NEW g \in Gens, NEW s \in DirStates, Becomes(g, s)
    PROVE  /\ files' \in [Gens -> DirStates]
           /\ disk' \in [Gens -> (SUBSET DirStates) \ {{}}]
           /\ files'[g] = s /\ disk'[g] = disk[g] \cup {s}
           /\ \A h \in Gens \ {g} : files'[h] = files[h] /\ disk'[h] = disk[h]
           /\ \A h \in Gens : files'[h] \in disk'[h]
<1>1. /\ files \in [Gens -> DirStates]
      /\ disk \in [Gens -> (SUBSET DirStates) \ {{}}]
      /\ \A h \in Gens : files[h] \in disk[h]
  BY DEF Inv, TypeOK
<1> DEFINE d == disk[g] \cup {s}
<1>2. d \in (SUBSET DirStates) \ {{}} /\ s \in d
  BY <1>1
<1>3. files' = [files EXCEPT ![g] = s] /\ disk' = [disk EXCEPT ![g] = d]
  BY <1>1 DEF Becomes
<1>4. d = disk[g] \cup {s}
  OBVIOUS
<1> HIDE DEF d
<1>5. /\ files' \in [Gens -> DirStates]
      /\ files'[g] = s /\ \A h \in Gens \ {g} : files'[h] = files[h]
  BY <1>1, <1>3
<1>6. disk'[g] = d /\ \A h \in Gens \ {g} : disk'[h] = disk[h]
  BY <1>1, <1>3
<1>7. disk' \in [Gens -> (SUBSET DirStates) \ {{}}]
  BY <1>1, <1>2, <1>3
<1> QED
  BY <1>1, <1>2, <1>4, <1>5, <1>6, <1>7

\* Then it gets its final name.
LEMMA RenameInv ==
    ASSUME Inv, NEW p \in Procs, NEW i \in Slots, Rename(p, i)
    PROVE  Inv'
<1> DEFINE g == task[p][i].gen
<1>1. /\ task[p][i].phase = "rename" /\ task[p][i] \in Task /\ TypeOK
      /\ TaskInv(task[p][i]) /\ g \in Gens
      /\ UNCHANGED <<current, pointers, proc, inflight, call, setting>>
  BY TaskFacts DEF Rename, TaskInv, LockedPhases
<1>2. CASE (Fails(p, i, "publication_failed") \/ Corrupt(p, i))
           /\ UNCHANGED <<files, disk>>
  BY <1>1, <1>2, FailInv DEF cache
<1>3. CASE /\ Step(p, i, "flushGens")
           /\ \/ files[g] = "absent" /\ Becomes(g, "complete")
              \/ files[g] = "complete" /\ UNCHANGED <<files, disk>>
  <2>1. PICK k \in Task :
          /\ SetsTask(p, i, k) /\ k.phase = "flushGens" /\ k.now = task[p][i].now
          /\ k.gen = g /\ k.prev = task[p][i].prev
          /\ k.removing = task[p][i].removing
    BY <1>1, <1>3, StepTask DEF LockedPhases
  <2>2. /\ files' \in [Gens -> DirStates] /\ files'[g] = "complete"
        /\ disk' \in [Gens -> (SUBSET DirStates) \ {{}}]
        /\ \A h \in Gens : files'[h] \in disk'[h]
        /\ \A h \in Gens : files[h] = "complete" =>
              files'[h] = "complete" /\ (disk[h] = {"complete"} => disk'[h] = {"complete"})
    <3>1. CASE files[g] = "complete" /\ UNCHANGED <<files, disk>>
      BY <3>1 DEF Inv, TypeOK
    <3>2. CASE files[g] = "absent" /\ Becomes(g, "complete")
      <4>1. "complete" \in DirStates
        BY DEF DirStates
      <4> QED
        BY <1>1, <3>2, <4>1, BecomesCache
    <3> QED
      BY <1>3, <3>1, <3>2
  <2>3. CurrentIsComplete'
    BY <1>1, <2>2 DEF Inv, TypeOK, CurrentIsComplete
  <2>4. TaskInv(k)'
    BY <1>1, <2>1, <2>2 DEF TaskInv, BeforePoint, LockedPhases
  <2> QED
    BY <1>1, <2>1, <2>2, <2>3, <2>4, WriterInv DEF LockedPhases, TypeOK
<1> QED
  BY <1>2, <1>3 DEF Rename, Fails

\* The names are flushed.
LEMMA FlushGensInv ==
    ASSUME Inv, NEW p \in Procs, NEW i \in Slots, FlushGens(p, i)
    PROVE  Inv'
<1> DEFINE g == task[p][i].gen
<1>1. /\ task[p][i].phase = "flushGens" /\ task[p][i] \in Task /\ TypeOK
      /\ TaskInv(task[p][i]) /\ g \in Gens /\ files[g] = "complete"
      /\ UNCHANGED <<files, current, pointers, proc, inflight, call, setting>>
  BY TaskFacts DEF FlushGens, TaskInv, LockedPhases, BeforePoint
<1>2. CASE Fails(p, i, "publication_failed") /\ UNCHANGED disk
  BY <1>1, <1>2, FailInv DEF cache
<1>3. CASE disk' = Flushed /\ Step(p, i, "point")
  <2>1. PICK k \in Task :
          /\ SetsTask(p, i, k) /\ k.phase = "point" /\ k.now = task[p][i].now
          /\ k.gen = g /\ k.prev = task[p][i].prev
          /\ k.removing = task[p][i].removing
    BY <1>1, <1>3, StepTask DEF LockedPhases
  <2>2. /\ disk' \in [Gens -> (SUBSET DirStates) \ {{}}]
        /\ \A h \in Gens : files'[h] \in disk'[h]
        /\ \A h \in Gens : files[h] = "complete" => disk'[h] = {"complete"}
    BY <1>1, <1>3 DEF Flushed, Inv, TypeOK, DirStates
  <2>3. CurrentIsComplete'
    BY <1>1, <2>2 DEF Inv, TypeOK, CurrentIsComplete
  <2>4. TaskInv(k)'
    BY <1>1, <2>1, <2>2 DEF TaskInv, BeforePoint, LockedPhases
  <2> QED
    BY <1>1, <2>1, <2>2, <2>3, <2>4, WriterInv DEF LockedPhases, TypeOK
<1> QED
  BY <1>2, <1>3 DEF FlushGens, Fails

\* The pointer is replaced by one to a later generation that is complete.
LEMMA PointInv ==
    ASSUME Inv, NEW p \in Procs, NEW i \in Slots, Point(p, i)
    PROVE  Inv'
<1> DEFINE g == task[p][i].gen
<1>1. /\ task[p][i].phase = "point" /\ task[p][i] \in Task /\ TypeOK
      /\ TaskInv(task[p][i]) /\ g \in Gens /\ Later(g, current)
      /\ files[g] = "complete" /\ disk[g] = {"complete"}
      /\ UNCHANGED <<files, disk, proc, inflight, call, setting>>
  BY TaskFacts DEF Point, TaskInv, LockedPhases, BeforePoint
<1>2. CASE Fails(p, i, "publication_failed") /\ UNCHANGED <<current, pointers>>
  BY <1>1, <1>2, FailInv DEF cache
<1>3. CASE /\ current' = g /\ pointers' = pointers \cup {current'}
           /\ Step(p, i, "flushPointer")
  <2>1. PICK k \in Task :
          /\ SetsTask(p, i, k) /\ k.phase = "flushPointer" /\ k.now = task[p][i].now
          /\ k.gen = g /\ k.prev = task[p][i].prev
          /\ k.removing = task[p][i].removing
    BY <1>1, <1>3, StepTask DEF LockedPhases
  <2>2. CurrentIsComplete'
    BY <1>1, <1>3 DEF Inv, CurrentIsComplete
  <2>3. TaskInv(k)'
    BY <1>1, <1>3, <2>1 DEF TaskInv, LockedPhases
  <2> QED
    BY <1>1, <1>3, <2>1, <2>2, <2>3, WriterInv DEF LockedPhases, TypeOK, Inv
<1> QED
  BY <1>2, <1>3 DEF Point, Fails

\* A pointer that is not flushed only degrades the maintenance.
LEMMA FlushPointerInv ==
    ASSUME Inv, NEW p \in Procs, NEW i \in Slots, FlushPointer(p, i)
    PROVE  Inv'
<1> DEFINE g == task[p][i].gen
<1>1. /\ task[p][i].phase = "flushPointer" /\ task[p][i] \in Task /\ TypeOK
      /\ TaskInv(task[p][i]) /\ g \in Gens /\ current = g
      /\ task[p][i].removing = NoGen
      /\ UNCHANGED <<files, disk, current, proc, inflight, call, setting>>
  BY TaskFacts DEF FlushPointer, TaskInv, LockedPhases
<1>2. CASE Degrades(p, i, "refreshed") /\ UNCHANGED pointers
  <2>1. PICK k \in Task :
          /\ SetsTask(p, i, k) /\ k.phase = "readback" /\ k.outcome = "refreshed"
          /\ k.degraded /\ k.gen = g /\ k.now = task[p][i].now
    BY <1>1, <1>2, OverTask, OutcomeNames
  <2>2. TaskInv(k)
    BY <1>1, <2>1, LaterOrder DEF TaskInv, BeforeAnswer, LockedPhases
  <2> QED
    BY <1>1, <1>2, <2>1, <2>2, QuietInv DEF LockedPhases, cache
<1>3. CASE pointers' = {current} /\ Step(p, i, "prune")
  <2>1. PICK k \in Task :
          /\ SetsTask(p, i, k) /\ k.phase = "prune" /\ k.now = task[p][i].now
          /\ k.gen = g /\ k.prev = task[p][i].prev
          /\ k.removing = task[p][i].removing
    BY <1>1, <1>3, StepTask DEF LockedPhases
  <2>2. CurrentIsComplete'
    BY <1>1, <1>3 DEF Inv, CurrentIsComplete, TypeOK
  <2>3. TaskInv(k)'
    BY <1>1, <1>3, <2>1 DEF TaskInv, Pruning, LockedPhases
  <2> QED
    BY <1>1, <1>3, <2>1, <2>2, <2>3, WriterInv DEF LockedPhases, TypeOK, Inv
<1> QED
  BY <1>2, <1>3 DEF FlushPointer, Degrades

\* What is removed is neither current nor the generation before it.
LEMMA PruneInv ==
    ASSUME Inv, NEW p \in Procs, NEW i \in Slots, Prune(p, i)
    PROVE  Inv'
<1> DEFINE g == task[p][i].gen
           r == task[p][i].removing
<1>1. /\ task[p][i].phase = "prune" /\ task[p][i] \in Task /\ TypeOK
      /\ TaskInv(task[p][i]) /\ g \in Gens /\ current = g /\ pointers = {g}
      /\ Evaluated(g, task[p][i].now) = "valid"
      /\ r # NoGen => r \in Gens /\ files[r] = "partial" /\ r \notin {g, task[p][i].prev}
      /\ UNCHANGED <<current, pointers, proc, inflight, call, setting>>
  BY TaskFacts DEF Prune, TaskInv, Pruning, LockedPhases, Task
<1>2. files[g] = "complete" /\ disk[g] = {"complete"}
  BY <1>1, NoGenFresh DEF Inv, CurrentIsComplete
\* A directory that is not the current one changes.
<1>3. ASSUME NEW h \in Gens \ {g}, NEW s \in DirStates, Becomes(h, s),
             NEW new \in Gens \cup {NoGen},
             task' = [task EXCEPT ![p][i].removing = new],
             new # NoGen => new = h /\ s = "partial" /\ h # task[p][i].prev
      PROVE  Inv'
  <2>1. PICK k \in Task : k = [task[p][i] EXCEPT !.removing = new]
    BY <1>1, <1>3 DEF Task
  <2>2. /\ k.phase = "prune" /\ k.gen = g /\ k.removing = new
        /\ k.now = task[p][i].now /\ k.prev = task[p][i].prev
    BY <1>1, <2>1 DEF Task
  <2>3. SetsTask(p, i, k)
    <3>1. task' = [task EXCEPT ![p][i] = k]
      BY <1>1, <1>3, <2>1 DEF TypeOK
    <3> QED
      BY <1>1, <3>1, TaskSet
  <2>4. /\ files' \in [Gens -> DirStates]
        /\ disk' \in [Gens -> (SUBSET DirStates) \ {{}}]
        /\ files'[h] = s /\ files'[g] = "complete" /\ disk'[g] = {"complete"}
        /\ \A f \in Gens : files'[f] \in disk'[f]
    BY <1>1, <1>2, <1>3, BecomesCache
  <2>5. CurrentIsComplete'
    BY <1>1, <2>4 DEF CurrentIsComplete
  <2>6. Pruning(k)'
    BY <1>1, <1>3, <2>2, <2>4 DEF Pruning
  <2>7. TaskInv(k)'
    BY <1>1, <2>2, <2>6 DEF TaskInv
  <2>8. /\ current' = current /\ current' \in pointers'
        /\ pointers' \subseteq Gens \cup {NoGen}
        /\ pointers' \subseteq pointers \cup {current'}
        /\ task[p][i].phase \in LockedPhases /\ k.phase # "none"
    BY <1>1, <2>2 DEF LockedPhases
  <2> QED
    BY <1>1, <2>3, <2>4, <2>5, <2>7, <2>8, WriterInv
\* The pruning is over.
<1>4. ASSUME NEW k \in Task, SetsTask(p, i, k), k.phase = "readback", k.gen = g,
             k.now = task[p][i].now, k.outcome = "refreshed", files' = files,
             disk' = disk \/ disk' = Flushed
      PROVE  Inv'
  <2>1. /\ disk' \in [Gens -> (SUBSET DirStates) \ {{}}]
        /\ \A h \in Gens : files'[h] \in disk'[h]
        /\ \A h \in Gens : files[h] = "complete" =>
              disk'[h] = disk[h] \/ disk'[h] = {"complete"}
    <3>1. CASE disk' = disk
      BY <1>4, <3>1 DEF Inv, TypeOK
    <3>2. CASE disk' = Flushed
      BY <1>4, <3>2 DEF Flushed, Inv, TypeOK, DirStates
    <3> QED
      BY <1>4, <3>1, <3>2
  <2>2. CurrentIsComplete'
    BY <1>1, <1>2, <1>4, <2>1 DEF CurrentIsComplete
  <2>3. TaskInv(k)'
    BY <1>1, <1>4, LaterOrder DEF TaskInv, BeforeAnswer, LockedPhases
  <2> QED
    BY <1>1, <1>4, <2>1, <2>2, <2>3, WriterInv DEF LockedPhases, Inv, TypeOK
<1>5. CASE /\ r = NoGen
           /\ \E h \in Prunable(p, i) :
                 /\ Becomes(h, "partial")
                 /\ task' = [task EXCEPT ![p][i].removing = h]
  <2>1. PICK h \in Prunable(p, i) :
           Becomes(h, "partial") /\ task' = [task EXCEPT ![p][i].removing = h]
    BY <1>5
  <2>2. h \in Gens \ {g} /\ h # task[p][i].prev /\ "partial" \in DirStates
    BY DEF Prunable, DirStates
  <2> QED
    BY <1>3, <2>1, <2>2
<1>6. CASE /\ r # NoGen /\ Becomes(r, "absent")
           /\ task' = [task EXCEPT ![p][i].removing = NoGen]
  <2>1. r \in Gens \ {g} /\ "absent" \in DirStates
    BY <1>1, <1>6 DEF DirStates
  <2> QED
    BY <1>3, <1>6, <2>1
<1>7. CASE disk' = Flushed /\ Fails(p, i, "refreshed") /\ UNCHANGED files
  BY <1>1, <1>4, <1>7, OverTask, OutcomeNames
<1>8. CASE Degrades(p, i, "refreshed") /\ UNCHANGED <<files, disk>>
  BY <1>1, <1>4, <1>8, OverTask, OutcomeNames
<1> QED
  BY <1>5, <1>6, <1>7, <1>8 DEF Prune, Fails, Degrades

\* What a task is when it begins.
LEMMA FetchingTyped ==
    ASSUME NEW now \in Times
    PROVE  /\ Fetching(now) \in Task
           /\ Fetching(now).phase = "fetching"
           /\ Fetching(now).removing = NoGen
<1>1. /\ "fetching" \in AsyncPhases \cup LockedPhases \cup {"publish", "readback"}
      /\ "refreshed" \in Outcomes
  BY DEF AsyncPhases, Outcomes
<1>2. NoTask \in Task /\ NoTask.removing = NoGen
  BY <1>1, GensAssumption DEF Task, NoTask, AsyncPhases, Times
<1> QED
  BY <1>1, <1>2 DEF Fetching, Task

\* What a call is when it waits, reads or is answered.
LEMMA CallTyped ==
    /\ NoCall \in Call /\ NoCall.phase = "idle"
    /\ \A i \in Slots : Waiting(i) \in Call /\ Waiting(i).phase = "waiting"
    /\ \A g \in Gens \cup {NoGen} : /\ Reading(g) \in Call
                                    /\ Reading(g).phase = "reading"
                                    /\ Reading(g).named = g
    /\ \A a \in Answers : Answered(a) \in Call /\ Answered(a).phase = "idle"
<1>1. "none" \in Answers
  BY DEF Answers
<1>2. NoCall \in Call /\ NoCall.phase = "idle"
  BY <1>1 DEF NoCall, Call
<1>3. \A i \in Slots : Waiting(i) \in Call /\ Waiting(i).phase = "waiting"
  BY <1>2 DEF Waiting, Call
<1>4. \A g \in Gens \cup {NoGen} : /\ Reading(g) \in Call
                                   /\ Reading(g).phase = "reading"
                                   /\ Reading(g).named = g
  BY <1>2 DEF Reading, Call
<1>5. \A a \in Answers : Answered(a) \in Call /\ Answered(a).phase = "idle"
  BY <1>2 DEF Answered, Call
<1> QED
  BY <1>2, <1>3, <1>4, <1>5

\* A task that ends is forgotten, and nobody waits for it any more.
LEMMA EndInv ==
    ASSUME Inv, NEW p \in Procs, NEW i \in Slots, NEW result \in Answers,
           End(p, i, result), task[p][i].phase # "none",
           UNCHANGED <<cache, proc, setting>>
    PROVE  Inv'
<1>1. UNCHANGED <<files, disk, current, pointers>>
  BY DEF cache
<1>2. /\ NoTask \in Task /\ NoTask.phase = "none" /\ NoTask.removing = NoGen
      /\ TaskInv(NoTask)
  BY GensAssumption DEF NoTask, Task, Times, AsyncPhases, Outcomes, TaskInv,
     LockedPhases
<1>3. SetsTask(p, i, NoTask)
  BY <1>2, TaskSet DEF End, Inv
<1>4. inflight' \in [Procs -> Slots \cup {0}] /\ inflight[p] = i /\ inflight'[p] = 0
      /\ \A q \in Procs \ {p} : inflight'[q] = inflight[q]
  BY DEF End, Inv, TypeOK, FlightInv
<1>5. /\ call' \in [Callers -> Call]
      /\ \A c \in Callers : call'[c] = call[c] \/ call'[c].phase = "idle"
      /\ \A q \in Procs \ {p} : call'[q] = call[q]
  <2>1. call \in [Callers -> Call] /\ \A q \in Procs : q \in Callers /\ Home(q) = q
    BY DEF Inv, TypeOK, Call, Callers, Home
  <2> QED
    BY <2>1, CallTyped DEF End
<1>6. TypeOK'
  BY <1>1, <1>3, <1>4, <1>5 DEF Inv, TypeOK, SetsTask, Task, Call
<1>7. CurrentIsComplete' /\ \A g \in Gens : files'[g] \in disk'[g]
  BY <1>1 DEF Inv, CurrentIsComplete
<1>8. ASSUME NEW q \in Procs PROVE FlightInv(q)'
  BY <1>2, <1>3, <1>4, <1>5, <1>8 DEF Inv, FlightInv, SetsTask, Slots
<1>9. LockInv'
  <2>1. \A q \in Procs, j \in Slots :
           task'[q][j].phase \in LockedPhases => task[q][j].phase \in LockedPhases
    BY <1>2, <1>3 DEF SetsTask, LockedPhases
  <2>2. \A c \in Clients : call'[c].phase = "reading" => call[c].phase = "reading"
    BY <1>5 DEF Callers
  <2> QED
    BY <2>1, <2>2 DEF Inv, LockInv
<1>10. ASSUME NEW q \in Procs, NEW j \in Slots PROVE TaskInv(task[q][j])'
  <2>1. TaskInv(task'[q][j])
    BY <1>2, <1>3 DEF Inv, SetsTask
  <2> QED
    BY <2>1, SameCache
<1>11. ASSUME NEW c \in Callers PROVE CallInv(c)'
  BY <1>1, <1>5 DEF Inv, CallInv
<1> QED
  BY <1>6, <1>7, <1>8, <1>9, <1>10, <1>11 DEF Inv

\* A call that changes while the cache, the processes and the tasks do not.
LEMMA CallStepInv ==
    ASSUME Inv, UNCHANGED <<cache, proc, task, inflight, setting>>,
           NEW c \in Clients, NEW k \in Call, call' = [call EXCEPT ![c] = k],
           k.phase = "reading" => Unwritten /\ files[k.named] = "complete"
    PROVE  Inv'
<1>1. UNCHANGED <<files, disk, current, pointers>>
  BY DEF cache
<1>2. /\ call' \in [Callers -> Call] /\ call'[c] = k
      /\ \A b \in Callers \ {c} : call'[b] = call[b]
  BY DEF Inv, TypeOK, Call, Callers
<1>3. TypeOK'
  BY <1>1, <1>2 DEF Inv, TypeOK, Call
<1>4. CurrentIsComplete' /\ \A g \in Gens : files'[g] \in disk'[g]
  BY <1>1 DEF Inv, CurrentIsComplete
<1>5. \A q \in Procs : FlightInv(q)'
  BY <1>2, GensAssumption DEF Inv, FlightInv, Callers
<1>6. LockInv'
  BY <1>2 DEF Inv, LockInv, Unwritten, Callers
<1>7. ASSUME NEW q \in Procs, NEW j \in Slots PROVE TaskInv(task[q][j])'
  BY SameCache DEF Inv
<1>8. ASSUME NEW b \in Callers PROVE CallInv(b)'
  BY <1>1, <1>2 DEF Inv, CallInv
<1> QED
  BY <1>3, <1>4, <1>5, <1>6, <1>7, <1>8 DEF Inv

\* Processes and calls change, the cache and the tasks do not.
LEMMA ServeInv ==
    ASSUME Inv, UNCHANGED <<cache, task, inflight, setting>>,
           proc' \in [Procs -> {"down", "starting", "up", "curated", "closing"}],
           \A p \in Procs :
              /\ proc'[p] \in {"down", "curated"} => inflight[p] = 0
              /\ proc'[p] = "starting" => inflight[p] = 0 \/ call'[p].phase # "idle",
           call' \in [Callers -> Call],
           \A c \in Callers : call'[c] = call[c] \/ call'[c].phase # "reading"
    PROVE  Inv'
<1>1. UNCHANGED <<files, disk, current, pointers>>
  BY DEF cache
<1>2. TypeOK'
  BY <1>1 DEF Inv, TypeOK, Call
<1>3. CurrentIsComplete' /\ \A g \in Gens : files'[g] \in disk'[g]
  BY <1>1 DEF Inv, CurrentIsComplete
<1>4. \A q \in Procs : FlightInv(q)'
  BY DEF Inv, FlightInv
<1>5. LockInv'
  BY DEF Inv, LockInv, Callers
<1>6. ASSUME NEW q \in Procs, NEW j \in Slots PROVE TaskInv(task[q][j])'
  BY SameCache DEF Inv
<1>7. ASSUME NEW b \in Callers PROVE CallInv(b)'
  BY <1>1 DEF Inv, CallInv
<1> QED
  BY <1>2, <1>3, <1>4, <1>5, <1>6, <1>7 DEF Inv

\* A refresh that begins is the only one of its process.
LEMMA BeginInv ==
    ASSUME Inv, UNCHANGED <<cache, setting>>,
           NEW p \in Procs, NEW i \in Slots, NEW now \in Times, inflight[p] = 0,
           task' = [task EXCEPT ![p][i] = Fetching(now)],
           inflight' = [inflight EXCEPT ![p] = i],
           proc' \in [Procs -> {"down", "starting", "up", "curated", "closing"}],
           proc'[p] \notin {"down", "curated"},
           proc'[p] = "starting" => call'[p].phase # "idle",
           \A q \in Procs \ {p} : proc'[q] = proc[q] /\ call'[q] = call[q],
           call' \in [Callers -> Call],
           \A c \in Callers : call'[c] = call[c] \/ call'[c].phase # "reading"
    PROVE  Inv'
<1>1. UNCHANGED <<files, disk, current, pointers>>
  BY DEF cache
<1>2. PICK k \in Task : /\ k = Fetching(now)
                        /\ k.phase = "fetching" /\ k.removing = NoGen
  BY FetchingTyped
<1>3. SetsTask(p, i, k) /\ TaskInv(k)
  BY <1>2, TaskSet DEF Inv, TaskInv, LockedPhases
<1>4. /\ inflight' \in [Procs -> Slots \cup {0}] /\ inflight'[p] = i
      /\ \A q \in Procs \ {p} : inflight'[q] = inflight[q]
  BY DEF Inv, TypeOK
<1>5. TypeOK'
  BY <1>1, <1>3, <1>4 DEF Inv, TypeOK, SetsTask, Task, Call
<1>6. CurrentIsComplete' /\ \A g \in Gens : files'[g] \in disk'[g]
  BY <1>1 DEF Inv, CurrentIsComplete
<1>7. ASSUME NEW q \in Procs PROVE FlightInv(q)'
  BY <1>2, <1>3, <1>4, <1>7 DEF Inv, FlightInv, SetsTask, Slots
<1>8. LockInv'
  BY <1>2, <1>3 DEF Inv, LockInv, SetsTask, LockedPhases, Callers
<1>9. ASSUME NEW q \in Procs, NEW j \in Slots PROVE TaskInv(task[q][j])'
  <2>1. TaskInv(task'[q][j])
    BY <1>3 DEF Inv, SetsTask
  <2> QED
    BY <2>1, SameCache
<1>10. ASSUME NEW b \in Callers PROVE CallInv(b)'
  BY <1>1 DEF Inv, CallInv
<1> QED
  BY <1>5, <1>6, <1>7, <1>8, <1>9, <1>10 DEF Inv

-----------------------------------------------------------------------------
(* Processes, callers and readers.                                         *)

\* A startup begins the first refresh of its process.
LEMMA StartInv ==
    ASSUME Inv, NEW p \in Procs, Start(p)
    PROVE  Inv'
<1>1. /\ proc[p] = "down" /\ inflight[p] = 0 /\ UNCHANGED <<cache, setting>>
      /\ proc \in [Procs -> {"down", "starting", "up", "curated", "closing"}]
      /\ call \in [Callers -> Call] /\ p \in Callers
  BY DEF Start, Inv, FlightInv, TypeOK, Call, Callers
<1>2. CASE /\ proc' = [proc EXCEPT ![p] = "curated"]
           /\ UNCHANGED <<task, call, inflight>>
  BY <1>1, <1>2, ServeInv DEF Inv, FlightInv
<1>3. ASSUME proc' = [proc EXCEPT ![p] = "starting"], NEW now \in Times,
             task' = [task EXCEPT ![p][1] = Fetching(now)],
             call' = [call EXCEPT ![p] = Waiting(1)],
             inflight' = [inflight EXCEPT ![p] = 1]
      PROVE  Inv'
  <2>1. Waiting(1) \in Call /\ Waiting(1).phase = "waiting"
    BY CallTyped DEF Slots
  <2>2. /\ call' \in [Callers -> Call] /\ call'[p].phase = "waiting"
        /\ \A c \in Callers : c # p => call'[c] = call[c]
    BY <1>1, <1>3, <2>1
  <2>3. 1 \in Slots
    BY DEF Slots
  <2>4. \A q \in Procs \ {p} : proc'[q] = proc[q] /\ call'[q] = call[q]
    BY <1>1, <1>3, <2>2 DEF Callers
  <2>5. /\ proc'[p] = "starting"
        /\ proc' \in [Procs -> {"down", "starting", "up", "curated", "closing"}]
    BY <1>1, <1>3
  <2> QED
    BY <1>1, <1>3, <2>2, <2>3, <2>4, <2>5, BeginInv
<1> QED
  BY <1>2, <1>3 DEF Start

\* The startup has its answer, a process closes or has closed.
LEMMA LifeInv ==
    ASSUME Inv, NEW p \in Procs, Started(p) \/ Closed(p)
    PROVE  Inv'
<1>1. /\ proc \in [Procs -> {"down", "starting", "up", "curated", "closing"}]
      /\ call \in [Callers -> Call] /\ FlightInv(p) /\ p \in Callers
      /\ \A q \in Procs : FlightInv(q)
      /\ NoCall \in Call /\ NoCall.phase = "idle"
      /\ UNCHANGED <<cache, task, inflight, setting>>
  BY CallTyped DEF Started, Closed, Inv, TypeOK, Call, Callers
<1>2. CASE Started(p)
  <2>1. inflight[p] = 0
    BY <1>1, <1>2 DEF Started, FlightInv
  <2>2. /\ call' \in [Callers -> Call]
        /\ \A c \in Callers : call'[c] = call[c] \/ call'[c].phase # "reading"
        /\ \A q \in Procs \ {p} : call'[q] = call[q] /\ proc'[q] = proc[q]
        /\ proc' \in [Procs -> {"down", "starting", "up", "curated", "closing"}]
    BY <1>1, <1>2 DEF Started, Callers
  <2> QED
    BY <1>1, <2>1, <2>2, ServeInv DEF FlightInv
<1>3. CASE Closed(p)
  BY <1>1, <1>3, ServeInv DEF Closed, FlightInv
<1> QED
  BY <1>2, <1>3

\* aclose cancels what is still fetching and nothing else.
LEMMA CloseInv ==
    ASSUME Inv, NEW p \in Procs, Close(p)
    PROVE  Inv'
<1>1. /\ UNCHANGED <<files, disk, current, pointers, inflight, call, setting>>
      /\ \A q \in Procs : FlightInv(q)
      /\ task \in [Procs -> [Slots -> Task]] /\ TypeOK
  BY DEF Close, Inv, TypeOK, Task, cache
<1>2. /\ proc' \in [Procs -> {"down", "starting", "up", "curated", "closing"}]
      /\ proc'[p] = "closing" /\ \A q \in Procs \ {p} : proc'[q] = proc[q]
  BY <1>1 DEF Close, TypeOK
<1>3. ASSUME NEW q \in Procs, NEW j \in Slots
      PROVE  /\ task'[q][j] \in Task
             /\ \/ task'[q][j] = task[q][j]
                \/ /\ task[q][j].phase \in AsyncPhases
                   /\ task[q][j].phase # "none"
                   /\ task'[q][j].phase = "cancelling"
                   /\ task'[q][j].removing = task[q][j].removing
  <2>1. task[q][j] \in Task
    BY <1>1
  <2> DEFINE k == [task[q][j] EXCEPT !.phase = "cancelling"]
  <2>2. k \in Task /\ k.phase = "cancelling" /\ k.removing = task[q][j].removing
    BY <2>1 DEF Task, AsyncPhases
  <2>3. \/ task'[q][j] = task[q][j]
        \/ q = p /\ j = inflight[p] /\ task'[q][j] = k
    BY <1>1 DEF Close
  <2> HIDE DEF k
  <2>4. CASE q = p /\ j = inflight[p] /\ task'[q][j] = k
    BY <1>1, <2>2, <2>4 DEF Close, LoopFree, FlightInv
  <2> QED
    BY <2>1, <2>3, <2>4
<1>4. task' \in [Procs -> [Slots -> Task]]
  <2>1. task' = [task EXCEPT ![p] = [i \in Slots |-> task'[p][i]]]
    BY <1>1 DEF Close
  <2>2. [i \in Slots |-> task'[p][i]] \in [Slots -> Task]
    BY <1>3
  <2> QED
    BY <1>1, <2>1, <2>2
<1>5. TypeOK'
  BY <1>1, <1>2, <1>4 DEF TypeOK, Task
<1>6. CurrentIsComplete' /\ \A g \in Gens : files'[g] \in disk'[g]
  BY <1>1 DEF Inv, CurrentIsComplete
<1>7. ASSUME NEW q \in Procs PROVE FlightInv(q)'
  BY <1>1, <1>2, <1>3 DEF FlightInv, AsyncPhases
<1>8. LockInv'
  BY <1>1, <1>3 DEF Inv, LockInv, AsyncPhases, LockedPhases
<1>9. ASSUME NEW q \in Procs, NEW j \in Slots PROVE TaskInv(task[q][j])'
  <2>1. TaskInv(task'[q][j])
    BY <1>3 DEF Inv, TaskInv, AsyncPhases, LockedPhases
  <2> QED
    BY <1>1, <2>1, SameCache DEF cache
<1>10. ASSUME NEW b \in Callers PROVE CallInv(b)'
  BY <1>1 DEF Inv, CallInv
<1> QED
  BY <1>5, <1>6, <1>7, <1>8, <1>9, <1>10 DEF Inv

\* A caller joins, begins or abandons a refresh, or reads the cache.
LEMMA ClientInv ==
    ASSUME Inv, NEW c \in Clients, NEW now \in Times,
           \/ Abandon(c) \/ ReadPointer(c) \/ Refresh(c, now)
           \/ ReadGeneration(c, now)
    PROVE  Inv'
<1>1. /\ call \in [Callers -> Call] /\ c \in Callers /\ UNCHANGED <<cache, setting>>
      /\ c \notin Procs /\ Server[c] \in Procs
  BY GensAssumption DEF Abandon, ReadPointer, Refresh, ReadGeneration, Inv, TypeOK,
     Call, Callers
\* An answer is stored.
<1>2. ASSUME UNCHANGED <<proc, task, inflight>>, NEW answer \in Answers,
             call' = [call EXCEPT ![c] = Answered(answer)]
      PROVE  Inv'
  <2>1. Answered(answer) \in Call /\ Answered(answer).phase = "idle"
    BY CallTyped
  <2> QED
    BY <1>1, <1>2, <2>1, CallStepInv
<1>3. CASE Abandon(c)
  BY <1>2, <1>3 DEF Abandon, Answers
<1>4. CASE ReadGeneration(c, now)
  BY <1>2, <1>4 DEF ReadGeneration, Answers
<1>5. CASE ReadPointer(c)
  <2>1. CASE call' = [call EXCEPT ![c] = Reading(current)]
             /\ current # NoGen
    <3>1. Reading(current) \in Call /\ Reading(current).named = current
      BY CallTyped DEF Inv, TypeOK
    <3>2. files[current] = "complete"
      BY <2>1 DEF Inv, TypeOK, CurrentIsComplete
    <3> QED
      BY <1>1, <1>5, <2>1, <3>1, <3>2, CallStepInv DEF ReadPointer
  <2>2. CASE \E answer \in {"absent", "unreadable"} :
                call' = [call EXCEPT ![c] = Answered(answer)]
    BY <1>2, <1>5, <2>2 DEF ReadPointer, Answers
  <2> QED
    BY <1>5, <2>1, <2>2 DEF ReadPointer
<1>6. CASE Refresh(c, now)
  <2> DEFINE p == Server[c]
  <2>1. CASE call' = [call EXCEPT ![c] = Answered("closed")]
             /\ UNCHANGED <<task, inflight>>
    BY <1>2, <1>6, <2>1 DEF Refresh, Answers
  <2>2. ASSUME NEW i \in Slots,
               call' = [call EXCEPT ![c] = Waiting(i)]
        PROVE  /\ call' \in [Callers -> Call]
               /\ call'[c].phase = "waiting"
               /\ \A b \in Callers \ {c} : call'[b] = call[b]
    <3>1. Waiting(i) \in Call /\ Waiting(i).phase = "waiting"
      BY CallTyped
    <3> QED
      BY <1>1, <2>2, <3>1
  <2>3. CASE /\ proc[p] = "up" /\ inflight[p] # 0
             /\ call' = [call EXCEPT ![c] = Waiting(inflight[p])]
             /\ UNCHANGED <<task, inflight>>
    <3>1. inflight[p] \in Slots
      BY <1>1, <2>3 DEF Inv, TypeOK
    <3> QED
      BY <1>1, <1>6, <2>2, <2>3, <3>1, ServeInv
         DEF Refresh, Inv, TypeOK, FlightInv, Callers
  <2>4. ASSUME proc[p] = "up", inflight[p] = 0, NEW i \in Slots,
               task' = [task EXCEPT ![p][i] = Fetching(now)],
               inflight' = [inflight EXCEPT ![p] = i],
               call' = [call EXCEPT ![c] = Waiting(i)]
        PROVE  Inv'
    <3>1. /\ proc' = proc
          /\ proc \in [Procs -> {"down", "starting", "up", "curated", "closing"}]
      BY <1>6 DEF Refresh, Inv, TypeOK
    <3>2. \A q \in Procs : q \in Callers /\ q # c
      BY <1>1 DEF Callers
    <3> QED
      BY <1>1, <2>2, <2>4, <3>1, <3>2, BeginInv
  <2> QED
    BY <1>6, <2>1, <2>3, <2>4 DEF Refresh
<1> QED
  BY <1>3, <1>4, <1>5, <1>6

\* The answer of a task is one of those a call can have.
LEMMA ReadBackInv ==
    ASSUME Inv, NEW p \in Procs, NEW i \in Slots,
           ReadBack(p, i) \/ Cancelled(p, i)
    PROVE  Inv'
<1>1. /\ task[p][i].phase # "none"
      /\ UNCHANGED <<cache, proc, setting>>
      /\ task[p][i].outcome \in Outcomes
  BY DEF ReadBack, Cancelled, Inv, TypeOK
<1>2. \E result \in Answers : End(p, i, result)
  <2>1. {"raised", "unreadable", "cancelled", "publication_failed", "cache_corrupt"} \subseteq Answers
        /\ Outcomes \subseteq Answers
    BY DEF Answers, Outcomes
  <2>3. CASE Cancelled(p, i)
    BY <2>1, <2>3 DEF Cancelled
  <2>4. CASE ReadBack(p, i)
    <3> DEFINE t == task[p][i]
               age == Evaluated(current, t.now)
               absent == IF t.outcome \in {"refreshed", "noop"}
                         THEN "publication_failed" ELSE t.outcome
               shown == Shaped(t.outcome, age)
    <3>1. shown \in {"raised", t.outcome}
      BY DEF Shaped
    <3>2. shown \in Answers /\ absent \in Answers
      BY <1>1, <2>1, <3>1
    <3>3. "unreadable" \in Answers /\ "cache_corrupt" \in Answers
      BY <2>1
    <3>4. \/ End(p, i, "unreadable") \/ End(p, i, absent)
          \/ End(p, i, "cache_corrupt") \/ End(p, i, shown)
      BY <2>4 DEF ReadBack
    <3> HIDE DEF absent, shown
    <3> QED
      BY <3>2, <3>3, <3>4
  <2> QED
    BY <2>3, <2>4
<1> QED
  BY <1>1, <1>2, EndInv

\* Processes die; when all of them do, the disk may have lost what was not flushed.
LEMMA DeadInv ==
    ASSUME Inv, NEW ps \in SUBSET Procs, Dead(ps),
           (UNCHANGED cache) \/ ps = Procs,
           files' \in [Gens -> DirStates],
           disk' \in [Gens -> (SUBSET DirStates) \ {{}}],
           current' \in pointers', pointers' \subseteq Gens \cup {NoGen},
           CurrentIsComplete', \A g \in Gens : files'[g] \in disk'[g]
    PROVE  Inv'
<1>1. /\ NoTask \in Task /\ NoTask.phase = "none" /\ NoTask.removing = NoGen
  BY GensAssumption DEF NoTask, Task, Times, AsyncPhases, Outcomes, LockedPhases
<1>2. /\ task \in [Procs -> [Slots -> Task]] /\ call \in [Callers -> Call]
      /\ TypeOK /\ NoCall \in Call /\ NoCall.phase = "idle"
  BY CallTyped DEF Inv, TypeOK, Task, Call
<1>3. /\ \A q \in Procs : task'[q] \in [Slots -> Task]
      /\ \A q \in Procs, j \in Slots :
            IF q \in ps THEN task'[q][j] = NoTask ELSE task'[q][j] = task[q][j]
      /\ task' \in [Procs -> [Slots -> Task]]
  BY <1>1, <1>2 DEF Dead
<1>4. /\ \A q \in Procs : IF q \in ps THEN proc'[q] = "down" /\ inflight'[q] = 0
                          ELSE proc'[q] = proc[q] /\ inflight'[q] = inflight[q]
      /\ proc' \in [Procs -> {"down", "starting", "up", "curated", "closing"}]
      /\ inflight' \in [Procs -> Slots \cup {0}]
  BY <1>2 DEF Dead, TypeOK
<1>5. /\ call' \in [Callers -> Call]
      /\ \A c \in Callers : call'[c] = NoCall \/ (call'[c] = call[c] /\ Home(c) \notin ps)
      /\ \A q \in Procs : q \notin ps => call'[q] = call[q]
  <2>1. \A q \in Procs : q \in Callers /\ Home(q) = q
    BY DEF Callers, Home
  <2> QED
    BY <1>2, <2>1 DEF Dead
<1>6. TypeOK'
  BY <1>2, <1>3, <1>4, <1>5 DEF TypeOK, Task, Call, Dead
<1>7. ASSUME NEW q \in Procs PROVE FlightInv(q)'
  <2>1. FlightInv(q) /\ 0 \notin Slots
    BY DEF Inv, Slots
  <2>2. CASE q \in ps
    <3>1. /\ \A j \in Slots : task'[q][j].phase = "none"
          /\ inflight'[q] = 0 /\ proc'[q] = "down"
      BY <1>1, <1>3, <1>4, <2>2
    <3> QED
      BY <2>1, <3>1 DEF FlightInv
  <2>3. CASE q \notin ps
    <3>1. /\ \A j \in Slots : task'[q][j] = task[q][j]
          /\ inflight'[q] = inflight[q] /\ proc'[q] = proc[q] /\ call'[q] = call[q]
      BY <1>3, <1>4, <1>5, <2>3
    <3> QED
      BY <2>1, <3>1 DEF FlightInv
  <2> QED
    BY <2>2, <2>3
<1>8. LockInv'
  <2>1. \A q \in Procs, j \in Slots :
           task'[q][j].phase \in LockedPhases => task[q][j].phase \in LockedPhases
    BY <1>1, <1>3 DEF LockedPhases
  <2>2. \A c \in Clients : call'[c].phase = "reading" => call[c].phase = "reading"
    BY <1>2, <1>5 DEF Callers
  <2> QED
    BY <2>1, <2>2 DEF Inv, LockInv
<1>9. ASSUME NEW q \in Procs, NEW j \in Slots PROVE TaskInv(task[q][j])'
  <2>1. CASE q \in ps
    BY <1>1, <1>3, <2>1 DEF TaskInv, LockedPhases
  <2>2. CASE q \notin ps
    <3>1. TaskInv(task'[q][j])
      BY <1>3, <2>2 DEF Inv
    <3> QED
      BY <2>2, <3>1, SameCache
  <2> QED
    BY <2>1, <2>2
<1>10. ASSUME NEW c \in Callers PROVE CallInv(c)'
  <2>1. Home(c) \in Procs
    BY GensAssumption DEF Home, Callers
  <2>2. CASE call'[c] = NoCall
    BY <1>2, <2>2 DEF CallInv
  <2>3. CASE call'[c] = call[c] /\ Home(c) \notin ps
    BY <2>1, <2>3 DEF Inv, CallInv, cache
  <2> QED
    BY <1>5, <2>2, <2>3
<1> QED
  BY <1>6, <1>7, <1>8, <1>9, <1>10 DEF Inv

\* One process dies, or the power fails.
LEMMA CrashInv ==
    ASSUME Inv, PowerLoss \/ \E p \in Procs : Crash(p)
    PROVE  Inv'
<1>1. CASE \E p \in Procs : Crash(p)
  <2>1. PICK p \in Procs : Crash(p)
    BY <1>1
  <2>2. UNCHANGED <<files, disk, current, pointers>> /\ UNCHANGED cache /\ Dead({p})
    BY <2>1 DEF Crash, cache
  <2>3. CurrentIsComplete'
    BY <2>2 DEF Inv, CurrentIsComplete
  <2> QED
    BY <2>2, <2>3, DeadInv DEF Inv, TypeOK
<1>2. CASE PowerLoss
  <2>1. /\ files' \in [Gens -> DirStates] /\ Dead(Procs)
        /\ \A g \in Gens : files'[g] \in disk[g] /\ files'[g] \in disk'[g]
        /\ disk' \in [Gens -> (SUBSET DirStates) \ {{}}]
        /\ \A g \in Gens : disk'[g] = {files'[g]}
        /\ current' \in pointers' /\ pointers' = {current'} /\ current' \in pointers
    BY <1>2 DEF PowerLoss
  <2>2. CurrentIsComplete' /\ pointers' \subseteq Gens \cup {NoGen}
    BY <2>1 DEF Inv, TypeOK, CurrentIsComplete
  <2> QED
    BY <2>1, <2>2, DeadInv
<1> QED
  BY <1>1, <1>2

-----------------------------------------------------------------------------
(* The invariant of the specification.                                     *)

\* It holds at the start.
LEMMA InitInv == Init => Inv
<1> SUFFICES ASSUME Init PROVE Inv
  OBVIOUS
<1>1. /\ NoTask \in Task /\ NoTask.phase = "none" /\ NoTask.removing = NoGen
      /\ NoCall \in Call /\ NoCall.phase = "idle"
  BY CallTyped, GensAssumption
     DEF NoTask, Task, Times, AsyncPhases, Outcomes, LockedPhases
<1>2. /\ \A p \in Procs : proc[p] = "down" /\ inflight[p] = 0
      /\ \A p \in Procs, i \in Slots : task[p][i] = NoTask
      /\ \A c \in Callers : call[c] = NoCall
      /\ task \in [Procs -> [Slots -> Task]] /\ call \in [Callers -> Call]
  BY <1>1 DEF Init
<1>3. TypeOK
  BY <1>2 DEF Init, TypeOK, DirStates, Task, Call
<1>4. CurrentIsComplete /\ \A g \in Gens : files[g] \in disk[g]
  BY DEF Init, CurrentIsComplete
<1>5. ASSUME NEW p \in Procs PROVE FlightInv(p)
  BY <1>1, <1>2 DEF FlightInv, Slots
<1>6. LockInv
  BY <1>1, <1>2 DEF LockInv, LockedPhases
<1>7. ASSUME NEW p \in Procs, NEW i \in Slots PROVE TaskInv(task[p][i])
  BY <1>1, <1>2 DEF TaskInv, LockedPhases
<1>8. ASSUME NEW c \in Callers PROVE CallInv(c)
  BY <1>1, <1>2 DEF CallInv
<1> QED
  BY <1>3, <1>4, <1>5, <1>6, <1>7, <1>8 DEF Inv

\* Every step preserves it.
LEMMA NextInv == Inv /\ [Next]_vars => Inv'
<1> SUFFICES ASSUME Inv, [Next]_vars PROVE Inv'
  OBVIOUS
<1>1. ASSUME NEW p \in Procs, NEW i \in Slots, Fetched(p, i) PROVE Inv'
  BY <1>1, FetchedInv
<1>2. ASSUME NEW p \in Procs, NEW i \in Slots, Decide(p, i) PROVE Inv'
  BY <1>2, DecideInv
<1>3. ASSUME NEW p \in Procs, NEW i \in Slots, Stage(p, i) PROVE Inv'
  BY <1>3, StageInv
<1>4. ASSUME NEW p \in Procs, NEW i \in Slots, Rename(p, i) PROVE Inv'
  BY <1>4, RenameInv
<1>5. ASSUME NEW p \in Procs, NEW i \in Slots, FlushGens(p, i) PROVE Inv'
  BY <1>5, FlushGensInv
<1>6. ASSUME NEW p \in Procs, NEW i \in Slots, Point(p, i) PROVE Inv'
  BY <1>6, PointInv
<1>7. ASSUME NEW p \in Procs, NEW i \in Slots, FlushPointer(p, i) PROVE Inv'
  BY <1>7, FlushPointerInv
<1>8. ASSUME NEW p \in Procs, NEW i \in Slots, Prune(p, i) PROVE Inv'
  BY <1>8, PruneInv
<1>9. ASSUME NEW p \in Procs, NEW i \in Slots, ReadBack(p, i) \/ Cancelled(p, i)
      PROVE  Inv'
  BY <1>9, ReadBackInv
<1>10. ASSUME NEW p \in Procs,
              Start(p) \/ Started(p) \/ Close(p) \/ Closed(p) \/ Crash(p)
       PROVE  Inv'
  BY <1>10, StartInv, LifeInv, CloseInv, CrashInv
<1>11. ASSUME NEW c \in Clients, Abandon(c) \/ ReadPointer(c) PROVE Inv'
  BY <1>11, ClientInv, GensAssumption DEF Times
<1>12. ASSUME NEW c \in Clients, NEW now \in Times,
              Refresh(c, now) \/ ReadGeneration(c, now)
       PROVE  Inv'
  BY <1>12, ClientInv
<1>13. CASE PowerLoss
  BY <1>13, CrashInv
<1>14. CASE UNCHANGED vars
  <2>1. /\ UNCHANGED <<files, disk, current, pointers>>
        /\ UNCHANGED <<proc, task, inflight, call, setting>>
        /\ UNCHANGED cache
    BY <1>14 DEF vars, cache
  <2>2. TypeOK' /\ CurrentIsComplete' /\ \A g \in Gens : files'[g] \in disk'[g]
    BY <2>1 DEF Inv, TypeOK, CurrentIsComplete
  <2>3. ASSUME NEW p \in Procs, NEW i \in Slots PROVE TaskInv(task[p][i])'
    BY <2>1, SameCache DEF Inv
  <2> QED
    BY <2>1, <2>2, <2>3 DEF Inv, FlightInv, LockInv, CallInv
<1> QED
  BY <1>1, <1>2, <1>3, <1>4, <1>5, <1>6, <1>7, <1>8, <1>9, <1>10, <1>11, <1>12,
     <1>13, <1>14
     DEF Next

\* It holds in every behaviour.
LEMMA SpecInv == Spec => []Inv
<1> QED
  BY InitInv, NextInv, PTL DEF Spec

-----------------------------------------------------------------------------
(* Results.                                                                *)

\* A process has one task at most, since its phases follow inflight.
LEMMA OneTask ==
    ASSUME Inv
    PROVE  SingleFlight
<1> SUFFICES ASSUME NEW p \in Procs
             PROVE  /\ Cardinality({i \in Slots : task[p][i].phase # "none"}) <= 1
                    /\ proc[p] = "down" => \A i \in Slots : task[p][i].phase = "none"
  BY DEF SingleFlight
<1>1. FlightInv(p) /\ 0 \notin Slots
  BY DEF Inv, Slots
<1> DEFINE S == {i \in Slots : task[p][i].phase # "none"}
<1>2. S \subseteq {inflight[p]}
  BY <1>1 DEF FlightInv
<1>3. IsFiniteSet({inflight[p]}) /\ Cardinality({inflight[p]}) = 1
  BY FS_Singleton
<1>4. Cardinality(S) <= 1
  BY <1>2, <1>3, FS_Subset, ZenonT(30)
<1>5. proc[p] = "down" => \A i \in Slots : task[p][i].phase = "none"
  BY <1>1 DEF FlightInv
<1> QED
  BY <1>4, <1>5

\* The directory, the tasks and the calls are what the code can build, what
\* current.json names is complete at every moment and after every power loss,
\* and a process has one refresh under way and none when it is down.
THEOREM CacheSafety == Spec => []CacheSound
<1>1. Inv => CacheSound
  BY OneTask DEF Inv, CacheSound
<1> QED
  BY <1>1, SpecInv, PTL

\* A set of two names has at most two members.
LEMMA AtMostTwo ==
    ASSUME NEW a, NEW b, NEW S, S \subseteq {a, b}
    PROVE  Cardinality(S) <= 2
<1>1. IsFiniteSet({a}) /\ Cardinality({a}) = 1
  BY FS_Singleton
<1>2. /\ IsFiniteSet({a} \cup {b})
      /\ Cardinality({a} \cup {b}) = IF b \in {a} THEN 1 ELSE 2
  BY <1>1, FS_AddElement
<1>3. {a, b} = {a} \cup {b}
  OBVIOUS
<1>4. IsFiniteSet({a, b}) /\ Cardinality({a, b}) \in {1, 2}
  BY <1>2, <1>3
<1>5. Cardinality(S) <= Cardinality({a, b}) /\ Cardinality(S) \in Nat
  BY <1>4, FS_Subset, FS_CardinalityType
<1> QED
  BY <1>4, <1>5

\* Only pruning leaves the phase of pruning, and it ends with two generations.
LEMMA PruneKeepsTwo ==
    ASSUME Inv, NEW p \in Procs, NEW i \in Slots, Prune(p, i),
           task'[p][i].phase = "readback", ~ task'[p][i].degraded
    PROVE  Cardinality({g \in Gens : files'[g] = "complete"}) <= 2
<1>1. task \in [Procs -> [Slots -> Task]] /\ task[p][i] \in Task
  BY DEF Inv, TypeOK, Task
<1>2. task[p][i].phase = "prune"
  BY DEF Prune
<1>3. ASSUME NEW r \in Gens \cup {NoGen}, task' = [task EXCEPT ![p][i].removing = r]
      PROVE  FALSE
  <2>1. task'[p][i] = [task[p][i] EXCEPT !.removing = r]
    BY <1>1, <1>3
  <2> QED
    BY <1>1, <1>2, <2>1 DEF Task
<1>4. ASSUME Degrades(p, i, "refreshed") PROVE FALSE
  BY <1>4, OverTask, OutcomeNames DEF Inv, SetsTask
<1>5. Prunable(p, i) = {} /\ UNCHANGED files
  <2>1. \A h \in Prunable(p, i) : h \in Gens \cup {NoGen}
    BY DEF Prunable
  <2> QED
    BY <1>3, <1>4, <2>1 DEF Prune, Degrades
<1>6. {g \in Gens : files'[g] = "complete"} \subseteq {task[p][i].gen, task[p][i].prev}
  BY <1>5 DEF Prunable
<1> QED
  BY <1>6, AtMostTwo

\* A task that prunes either stays in the phase, or its own step ends it.
LEMMA PruneEnds ==
    ASSUME Inv, [Next]_vars, NEW p \in Procs, NEW i \in Slots,
           task[p][i].phase = "prune", task'[p][i].phase = "readback"
    PROVE  Prune(p, i)
<1>1. task \in [Procs -> [Slots -> Task]] /\ TypeOK
  BY DEF Inv, TypeOK, Task
<1>2. NoTask.phase = "none"
  BY DEF NoTask
<1>3. ASSUME NEW q \in Procs, NEW j \in Slots, NEW k,
             task' = [task EXCEPT ![q][j] = k]
      PROVE  q = p /\ j = i
  BY <1>1, <1>3
<1>4. ASSUME NEW q \in Procs, NEW j \in Slots, NEW k, SetsTask(q, j, k)
      PROVE  q = p /\ j = i
  BY <1>4 DEF SetsTask
<1>5. ASSUME NEW q \in Procs, NEW j \in Slots,
             \/ Fetched(q, j) \/ Decide(q, j) \/ Stage(q, j) \/ Rename(q, j)
             \/ FlushGens(q, j) \/ Point(q, j) \/ FlushPointer(q, j)
      PROVE  FALSE
  <2>1. q = p /\ j = i
    <3>1. \E k : task' = [task EXCEPT ![q][j] = k]
      <4>1. ASSUME NEW outcome, NEW degraded \in BOOLEAN, Over(q, j, outcome, degraded)
            PROVE  \E k : task' = [task EXCEPT ![q][j] = k]
        BY <4>1, ZenonT(30) DEF Over
      <4>2. ASSUME NEW phase, Step(q, j, phase)
            PROVE  \E k : task' = [task EXCEPT ![q][j] = k]
        BY <4>2, ZenonT(30) DEF Step
      <4>3. ASSUME Corrupt(q, j)
            PROVE  \E k : task' = [task EXCEPT ![q][j] = k]
        BY <4>3, ZenonT(30) DEF Corrupt
      <4>4. CASE Fetched(q, j)
        BY <4>1, <4>4, ZenonT(30) DEF Fetched
      <4>5. CASE Decide(q, j)
        BY <4>1, <4>3, <4>5, ZenonT(30) DEF Decide
      <4>6. CASE Stage(q, j) \/ Rename(q, j) \/ FlushGens(q, j)
        BY <4>1, <4>2, <4>3, <4>6, ZenonT(30) DEF Stage, Rename, FlushGens
      <4>7. CASE Point(q, j) \/ FlushPointer(q, j)
        BY <4>1, <4>2, <4>7, ZenonT(30) DEF Point, FlushPointer
      <4> QED
        BY <1>5, <4>4, <4>5, <4>6, <4>7
    <3> QED
      BY <1>3, <3>1
  <2> QED
    BY <1>5, <2>1 DEF Fetched, Decide, Stage, Rename, FlushGens, Point, FlushPointer
<1>6. ASSUME NEW q \in Procs, NEW j \in Slots, Prune(q, j) PROVE q = p /\ j = i
  BY <1>1, <1>6 DEF Prune, Over
<1>7. ASSUME NEW q \in Procs, NEW j \in Slots, ReadBack(q, j) \/ Cancelled(q, j)
      PROVE  FALSE
  <2>1. task' = [task EXCEPT ![q][j] = NoTask]
    BY <1>7 DEF ReadBack, Cancelled, End
  <2> QED
    BY <1>1, <1>2, <2>1
<1>8. ASSUME NEW q \in Procs, Start(q) \/ Started(q) \/ Closed(q) PROVE FALSE
  <2>1. 1 \in Slots
    BY DEF Slots
  <2> QED
    BY <1>1, <1>8, <2>1, FetchingTyped DEF Start, Started, Closed
<1>9. ASSUME NEW q \in Procs, Close(q) PROVE FALSE
  <2>1. task'[p][i] \in {task[p][i], [task[p][i] EXCEPT !.phase = "cancelling"]}
    BY <1>1, <1>9 DEF Close
  <2>2. [task[p][i] EXCEPT !.phase = "cancelling"].phase = "cancelling"
    BY <1>1 DEF Task
  <2> QED
    BY <2>1, <2>2
<1>10. ASSUME NEW ps \in SUBSET Procs, Dead(ps) PROVE FALSE
  <2>1. task'[p][i] \in {task[p][i], NoTask}
    BY <1>1, <1>10 DEF Dead
  <2> QED
    BY <1>2, <2>1
<1>11. ASSUME NEW c \in Clients, NEW now \in Times,
              \/ Abandon(c) \/ ReadPointer(c) \/ Refresh(c, now)
              \/ ReadGeneration(c, now)
       PROVE  FALSE
  <2>1. PICK k \in Task : k = Fetching(now) /\ k.phase = "fetching"
    BY FetchingTyped
  <2>2. \/ task' = task
        \/ \E j \in Slots : task' = [task EXCEPT ![Server[c]][j] = k]
    BY <1>11, <2>1 DEF Abandon, ReadPointer, Refresh, ReadGeneration
  <2> QED
    BY <1>1, <2>1, <2>2, GensAssumption
<1>12. 1 \in Times
  BY GensAssumption DEF Times
<1>13. ASSUME NEW c \in Clients, Abandon(c) \/ ReadPointer(c) PROVE FALSE
  BY <1>11, <1>12, <1>13
<1>14. ASSUME NEW q \in Procs, Crash(q) PROVE FALSE
  BY <1>10, <1>14 DEF Crash
<1>15. CASE PowerLoss
  BY <1>10, <1>15 DEF PowerLoss
<1>16. CASE UNCHANGED vars
  BY <1>16 DEF vars
<1> QED
  BY <1>5, <1>6, <1>7, <1>8, <1>9, <1>11, <1>13, <1>14, <1>15, <1>16 DEF Next

\* Only a publication that found nothing newer replaces what is current.
LEMMA CurrentOnlyGrows ==
    ASSUME Inv, [Next]_vars, current' # current
    PROVE  \/ Later(current', current)
           \/ current' \in pointers /\ \A p \in Procs : proc'[p] = "down"
<1>1. CASE PowerLoss
  BY <1>1 DEF PowerLoss, Dead
<1>2. ASSUME NEW p \in Procs, NEW i \in Slots, Point(p, i)
      PROVE  Later(current', current)
  <2>1. current' = task[p][i].gen
    BY <1>2 DEF Point
  <2>2. TaskInv(task[p][i])
    BY DEF Inv
  <2> QED
    BY <1>2, <2>1, <2>2 DEF Point, TaskInv, BeforePoint
<1> QED
  BY <1>1, <1>2, ZenonT(60)
     DEF Next, Start, Started, Close, Closed, Crash, Fetched, Cancelled, Decide, Stage,
     Rename, FlushGens, FlushPointer, Prune, ReadBack, Abandon, ReadPointer,
     Refresh, ReadGeneration, vars, cache

\* Current evidence is only ever replaced by later evidence, and a refresh
\* that degraded nothing leaves two generations.
THEOREM NewestStaysSafe == Spec => NewestStays
<1>1. Inv /\ [Next]_vars => NewestStep
  <2> SUFFICES ASSUME Inv, [Next]_vars PROVE NewestStep
    OBVIOUS
  <2>1. current' # current =>
          \/ Later(current', current)
          \/ current' \in pointers /\ \A p \in Procs : proc'[p] = "down"
    BY CurrentOnlyGrows
  <2>2. ASSUME NEW p \in Procs, NEW i \in Slots, task[p][i].phase = "prune",
               task'[p][i].phase = "readback", ~ task'[p][i].degraded
        PROVE  Cardinality({g \in Gens : files'[g] = "complete"}) <= 2
    BY <2>2, PruneEnds, PruneKeepsTwo
  <2> QED
    BY <2>1, <2>2 DEF NewestStep
<1> QED
  BY <1>1, SpecInv, PTL DEF Spec, NewestStays

\* A result shows what the cache holds, as old as it is for the caller.
LEMMA ReadBackAnswers ==
    ASSUME Inv, NEW p \in Procs, NEW i \in Slots, ReadBack(p, i)
    PROVE  \E a \in Answers :
              End(p, i, a) /\ \A c \in Callers : AnswerIsTrue(task[p][i], c, a)
<1> DEFINE t == task[p][i]
           age == Evaluated(current, t.now)
<1>1. /\ t.phase = "readback" /\ t.outcome \in Outcomes /\ BeforeAnswer(t)
      /\ t.gen \in Gens \cup {NoGen} /\ t.now \in Times
      /\ current \in pointers /\ current \in Gens \cup {NoGen}
  BY DEF ReadBack, Inv, TypeOK, TaskInv
<1>2. /\ {"raised", "unreadable", "publication_failed", "cache_corrupt"} \subseteq Answers
      /\ Outcomes \subseteq Answers
  BY DEF Answers, Outcomes
\* Evidence that has expired for the caller is older than what was fetched.
<1>3. t.outcome \in {"refreshed", "noop"} => age \in {"valid", "future"}
  <2>1. SUFFICES ASSUME t.outcome \in {"refreshed", "noop"}, age = "expired" PROVE FALSE
    BY DEF Evaluated
  <2>2. /\ t.gen \in Gens /\ ~ Later(t.gen, current)
        /\ Evaluated(t.gen, t.now) = "valid"
    BY <1>1, <2>1 DEF BeforeAnswer
  <2>3. current.stamp >= t.gen.stamp /\ current.stamp \in Nat /\ t.gen.stamp \in Nat
    BY <1>1, <2>2, LaterOrder
  <2>4. t.now > current.stamp + Stale
    BY <2>1 DEF Evaluated
  <2>5. ~ (t.now > t.gen.stamp + Stale)
    BY <2>2 DEF Evaluated
  <2>6. t.now \in Nat /\ Stale \in Nat
    BY <1>1, GensAssumption DEF Times
  <2> QED
    BY <2>3, <2>4, <2>5, <2>6
<1>4. CASE End(p, i, "unreadable")
  BY <1>2, <1>4 DEF AnswerIsTrue
<1>5. CASE current = NoGen /\ End(p, i, IF t.outcome \in {"refreshed", "noop"}
                                        THEN "publication_failed" ELSE t.outcome)
  <2>1. PICK a \in Answers : /\ End(p, i, a)
                             /\ a = "publication_failed" \/ a = t.outcome
                             /\ a \notin {"refreshed", "noop"}
    BY <1>1, <1>2, <1>5
  <2>2. a \notin {"corrupt", "raised"} /\ (a = "cache_corrupt" => t.io)
    BY <1>1, <2>1 DEF BeforeAnswer, Outcomes
  <2>3. \A c \in Callers : AnswerIsTrue(t, c, a)
    BY <2>1, <2>2 DEF AnswerIsTrue
  <2> QED
    BY <2>1, <2>3
<1>6. CASE /\ current # NoGen /\ (files[current] # "complete" \/ age = "future")
           /\ End(p, i, "cache_corrupt")
  <2>1. age = "future"
    BY <1>1, <1>6 DEF Inv, CurrentIsComplete
  <2> QED
    BY <1>2, <1>6, <2>1 DEF AnswerIsTrue
<1>7. CASE /\ current # NoGen /\ age # "future" /\ End(p, i, Shaped(t.outcome, age))
  <2> DEFINE shown == Shaped(t.outcome, age)
  <2>1. \/ shown = t.outcome /\ ~ (t.outcome \in {"refreshed", "noop"} /\ age # "valid")
        \/ shown = "raised" /\ t.outcome \in {"cache_corrupt", "refreshed", "noop"}
           /\ (t.outcome \in {"refreshed", "noop"} => age # "valid")
    BY DEF Shaped
  <2>2. PICK a \in Answers :
          /\ End(p, i, a)
          /\ \/ a = t.outcome /\ ~ (t.outcome \in {"refreshed", "noop"} /\ age # "valid")
             \/ a = "raised" /\ t.outcome \in {"cache_corrupt", "refreshed", "noop"}
                /\ (t.outcome \in {"refreshed", "noop"} => age # "valid")
    <3> HIDE DEF age
    <3> QED
      BY <1>1, <1>2, <1>7, <2>1
  <2>3. CASE a = "raised"
    <3>1. t.outcome = "cache_corrupt" /\ t.io
      BY <1>1, <1>3, <1>7, <2>2, <2>3 DEF BeforeAnswer, Outcomes
    <3>2. \A c \in Callers : AnswerIsTrue(t, c, a)
      BY <2>3, <3>1 DEF AnswerIsTrue
    <3> QED
      BY <2>2, <3>2
  <2>4. CASE a # "raised"
    <3>1. /\ a = t.outcome /\ a \notin {"corrupt", "raised"}
          /\ a \in {"refreshed", "noop"} => age = "valid"
      BY <1>1, <2>2, <2>4 DEF Outcomes
    <3>2. \A c \in Callers : AnswerIsTrue(t, c, a)
      BY <1>1, <3>1 DEF AnswerIsTrue, BeforeAnswer
    <3> QED
      BY <2>2, <3>2
  <2> QED
    BY <2>3, <2>4
<1> HIDE DEF age
<1> QED
  <2>1. \/ End(p, i, "unreadable")
        \/ current = NoGen /\ End(p, i, IF t.outcome \in {"refreshed", "noop"}
                                        THEN "publication_failed" ELSE t.outcome)
        \/ /\ current # NoGen /\ (files[current] # "complete" \/ age = "future")
           /\ End(p, i, "cache_corrupt")
        \/ /\ current # NoGen /\ age # "future" /\ End(p, i, Shaped(t.outcome, age))
    BY DEF ReadBack, age
  <2> QED
    BY <1>4, <1>5, <1>6, <1>7, <2>1

\* Answers that say nothing of the cache are true.
LEMMA NoClaim ==
    ASSUME NEW t, NEW c, NEW a \in {"none", "cancelled", "closed", "absent",
                                    "available", "unreadable"}
    PROVE  AnswerIsTrue(t, c, a)
  BY DEF AnswerIsTrue

\* A task that ends answers the calls that wait for it and no others.
LEMMA EndAnswers ==
    ASSUME Inv, NEW p \in Procs, NEW i \in Slots, NEW a \in Answers, End(p, i, a),
           \A c \in Callers : AnswerIsTrue(task[p][i], c, a),
           NEW c \in Callers, call'[c].phase = "idle", call[c].phase # "idle"
    PROVE  AnswerIsTrue(Awaited(c), c, call'[c].answer)
<1>1. Home(c) = p /\ call[c].slot = i /\ call'[c] = Answered(a)
  BY DEF End
<1>2. Awaited(c) = task[p][i]
  BY <1>1 DEF Awaited, Slots
<1>3. Answered(a).answer = a
  BY CallTyped DEF Answered, NoCall
<1> QED
  BY <1>1, <1>2, <1>3

\* Whoever gets an answer gets a true one.
LEMMA StepAnswers ==
    ASSUME Inv, [Next]_vars, NEW c \in Callers,
           call'[c].phase = "idle", call[c].phase # "idle"
    PROVE  AnswerIsTrue(Awaited(c), c, call'[c].answer)
<1>1. call \in [Callers -> Call] /\ NoCall.answer = "none" /\ NoCall.phase = "idle"
  BY DEF Inv, TypeOK, Call, NoCall
<1>2. \A a : Answered(a).answer = a
  <2>1. NoCall \in [phase : {"idle"}, slot : {0}, named : {NoGen}, answer : {"none"}]
    BY DEF NoCall
  <2> QED
    BY <2>1 DEF Answered
<1>3. \A b \in Clients : b \in Callers /\ b \notin Procs
  BY GensAssumption DEF Callers
<1>4. ASSUME NEW b \in Callers, NEW k \in Call, k.phase # "idle",
             call' = [call EXCEPT ![b] = k]
      PROVE  FALSE
  BY <1>1, <1>4
<1>5. ASSUME NEW b \in Callers,
             NEW a \in {"none", "cancelled", "closed", "absent", "available", "unreadable"},
             call' = [call EXCEPT ![b] = Answered(a)]
      PROVE  AnswerIsTrue(Awaited(c), c, call'[c].answer)
  <2>1. b = c /\ call'[c].answer = a
    BY <1>1, <1>2, <1>5
  <2> QED
    BY <2>1, NoClaim
<1>6. call' # call
  OBVIOUS
<1>7. ASSUME NEW p \in Procs, NEW i \in Slots, ReadBack(p, i)
      PROVE  AnswerIsTrue(Awaited(c), c, call'[c].answer)
  BY <1>7, ReadBackAnswers, EndAnswers
<1>8. ASSUME NEW p \in Procs, NEW i \in Slots, Cancelled(p, i)
      PROVE  AnswerIsTrue(Awaited(c), c, call'[c].answer)
  <2>1. "cancelled" \in Answers /\ End(p, i, "cancelled")
    BY <1>8 DEF Answers, Cancelled
  <2>2. \A b \in Callers : AnswerIsTrue(task[p][i], b, "cancelled")
    BY NoClaim
  <2> QED
    BY <2>1, <2>2, EndAnswers
<1>9. ASSUME NEW ps \in SUBSET Procs, Dead(ps)
      PROVE  AnswerIsTrue(Awaited(c), c, call'[c].answer)
  <2>1. call'[c].answer = "none"
    BY <1>1, <1>9 DEF Dead
  <2> QED
    BY <2>1, NoClaim
<1>10. ASSUME NEW p \in Procs, Start(p) PROVE FALSE
  <2>1. Waiting(1) \in Call /\ Waiting(1).phase = "waiting" /\ p \in Callers
    BY CallTyped DEF Slots, Callers
  <2> QED
    BY <1>4, <1>6, <1>10, <2>1 DEF Start
<1>11. ASSUME NEW p \in Procs, Started(p) PROVE FALSE
  BY <1>1, <1>11 DEF Started, Callers
<1>12. ASSUME NEW b \in Clients, Abandon(b)
       PROVE  AnswerIsTrue(Awaited(c), c, call'[c].answer)
  BY <1>3, <1>5, <1>12 DEF Abandon
<1>13. ASSUME NEW b \in Clients, ReadPointer(b) PROVE FALSE
  BY <1>1, <1>3, <1>13, CallTyped DEF ReadPointer
<1>14. ASSUME NEW b \in Clients, NEW now \in Times, Refresh(b, now) PROVE FALSE
  BY <1>1, <1>3, <1>14, CallTyped DEF Refresh
<1>15. ASSUME NEW b \in Clients, NEW now \in Times, ReadGeneration(b, now)
       PROVE  AnswerIsTrue(Awaited(c), c, call'[c].answer)
  <2>1. call[b].phase = "reading" /\ files[call[b].named] = "complete"
    BY <1>3, <1>15 DEF ReadGeneration, Inv, CallInv
  <2>2. PICK a \in {"available", "corrupt", "unreadable"} :
           call' = [call EXCEPT ![b] = Answered(a)]
    BY <1>15 DEF ReadGeneration
  <2>3. CASE a = "corrupt"
    <3>1. b = c /\ call'[c].answer = "corrupt"
      BY <1>1, <1>2, <1>3, <2>2, <2>3
    <3> QED
      BY <2>1, <3>1 DEF AnswerIsTrue
  <2> QED
    BY <1>3, <1>5, <2>2, <2>3
<1>16. ASSUME NEW p \in Procs, Crash(p)
       PROVE  AnswerIsTrue(Awaited(c), c, call'[c].answer)
  BY <1>9, <1>16 DEF Crash
<1>17. CASE PowerLoss
  BY <1>9, <1>17 DEF PowerLoss
<1>18. ASSUME NEW p \in Procs, NEW i \in Slots,
              \/ Close(p) \/ Closed(p) \/ Fetched(p, i) \/ Decide(p, i) \/ Stage(p, i)
              \/ Rename(p, i) \/ FlushGens(p, i) \/ Point(p, i)
              \/ FlushPointer(p, i) \/ Prune(p, i)
       PROVE  FALSE
  BY <1>6, <1>18, ZenonT(30) DEF Close, Closed, Fetched, Decide, Stage, Rename, FlushGens,
     Point, FlushPointer, Prune
<1>19. 1 \in Slots
  BY DEF Slots
<1> QED
  BY <1>6, <1>7, <1>8, <1>10, <1>11, <1>12, <1>13, <1>14, <1>15, <1>16, <1>17, <1>18,
     <1>19
     DEF Next, vars

\* Refreshes report success only for evidence that is there, valid and not
\* older than what they fetched, call a cache corrupt only when a clock was
\* set back, and raise only when they could not read.
THEOREM AnswersSafe == Spec => AnswersSound
<1>1. Inv /\ [Next]_vars =>
         \A c \in Callers :
            call'[c].phase = "idle" /\ call[c].phase # "idle" =>
               AnswerIsTrue(Awaited(c), c, call'[c].answer)
  BY StepAnswers
<1> QED
  BY <1>1, SpecInv, PTL DEF Spec, AnswersSound

-----------------------------------------------------------------------------
(* The Provider Intent store.                                              *)

----------------------------------------------------------------------------
(* The invariant.                                                          *)

Lives == {"active", "superseded", "legacy_unbound"}

Evidence(d, s) == {a \in d.audit : a.series = s}

\* The seven tables of a store, so that an update of one leaves the others.
Tables(d) ==
    d = [schema |-> d.schema, records |-> d.records, audit |-> d.audit,
         requests |-> d.requests, active |-> d.active,
         operations |-> d.operations, opAudit |-> d.opAudit]

\* A record is of a guest; legacy evidence, and only it, of no incarnation.
RecordTyped(r) ==
    /\ r = PI!Record(r.series, r.version, r.life, r.value)
    /\ r.series = PI!Series(r.series.guest, r.series.print)
    /\ r.series.guest \in Guests
    /\ r.series.print \in Prints \cup {None}
    /\ r.version \in Nat \ {0}
    /\ r.life \in Lives
    /\ r.life = "legacy_unbound" <=> r.series.print = None
    /\ r.value \in Values

\* One row per version, one audit event per row.
VersionsUnique(d) ==
    \A r, q \in d.records : r.series = q.series /\ r.version = q.version => r = q

AuditOfRecords(d) ==
    \A a \in d.audit : \E r \in d.records : r.series = a.series /\ r.version = a.version

\* What HistoryValid counts is finite.
HistoriesFinite(d) ==
    \A s \in PI!StoredSeries(d) : IsFiniteSet(PI!History(d, s)) /\ IsFiniteSet(Evidence(d, s))

\* A version that is not active is followed by none, or is legacy evidence.
OnlyActiveContinues(d) ==
    \A r, q \in d.records :
        r.series = q.series /\ r.version < q.version => r.life # "superseded"

\* The request of an imported entry is that of a row with the entry's value.
SourcesKept(d) ==
    \A q \in d.requests : \A p \in Policies : \A g \in DOMAIN p :
        q.id = PI!IdSource(p, g) =>
            \E r \in PI!History(d, PI!Series(g, None)) : r.value = p[g]

\* Records, audit and requests, in every schema.
EvidenceSound(d) ==
    /\ Tables(d)
    /\ \A r \in d.records : RecordTyped(r)
    /\ VersionsUnique(d)
    /\ AuditOfRecords(d)
    /\ HistoriesFinite(d)
    /\ \A s \in PI!StoredSeries(d) : PI!HistoryValid(d, s)
    /\ PI!RequestsValid(d)
    /\ OnlyActiveContinues(d)
    /\ SourcesKept(d)

\* The active coordinates of a P3 store.
ActiveSound(d) ==
    /\ PI!OneActivePerGuest(d)
    /\ d.active = {PI!ActiveRow(r) : r \in PI!ActiveRecords(d)}

\* The operations and their domain audit.
OperationsSound(d) ==
    /\ \A o \in d.operations :
          o = [id |-> o.command.id, command |-> o.command,
               outcome |-> o.outcome, version |-> o.version]
    /\ \A o, u \in d.operations : o.id = u.id => o = u
    /\ {o.id : o \in d.operations} = {e.request : e \in d.opAudit}
    /\ \A o \in d.operations : PI!OperationValid(d, o)

\* A store that the code can have made.
Sound(d) ==
    /\ d.schema \in {"absent", "p2c", "p3"}
    /\ EvidenceSound(d)
    /\ OperationsSound(d)
    /\ d.schema = "absent" => d = PI!EmptyStore("absent")
    /\ d.schema # "p3" => d.active = {} /\ d.operations = {} /\ d.opAudit = {}
    /\ d.schema = "p3" => ActiveSound(d)

\* What is stored of an incarnation was asked for it.
StoredWasAsked ==
    \A r \in db.records : r.series.print \in Prints =>
        <<r.series.guest, r.series.print, r.value>> \in asked

ServedTyped(k) ==
    /\ k = [pc |-> k.pc, command |-> k.command, seen |-> k.seen,
            listed |-> k.listed, answer |-> k.answer]
    /\ k.pc \in {"idle", "observe", "write", "resolve"}
    /\ k.pc \in {"observe", "write"} => k.command \in PI!Command /\ k.listed = None
    /\ k.pc = "resolve" => k.listed \in [Guests -> Prints \cup {None, Unknown}]

\* Everything around the store.
WorldInv ==
    /\ scope \in IntentSettings
    /\ core \in {"down", "legacy", "p2c", "p3"}
    /\ policy \in Policies
    /\ loaded \in Policies \cup {None}
    /\ live \in [Guests -> Prints \cup {None}]
    /\ DOMAIN served = Calls
    /\ \A c \in Calls : ServedTyped(served[c])
    /\ asked \subseteq Guests \X Prints \X Values

IntentsInv ==
           /\ WorldInv
           /\ Sound(db)
           /\ StoredWasAsked
           /\ PI!ActivatedIsImported
           /\ PI!AnswerIsStored
           /\ PI!ConfiguredWasAsked

----------------------------------------------------------------------------
(* Lemmas about the histories of a store.                                  *)

\* What the store counts is what the library's facts count.
LEMMA SameCount == \A S : PI!Cardinality(S) = Cardinality(S)
BY DEF Cardinality, PI!Cardinality

\* The row that no other of its series exceeds is the one that is read.
LEMMA LatestIs ==
    ASSUME NEW d, VersionsUnique(d), \A q \in d.records : RecordTyped(q),
           NEW r \in d.records,
           \A q \in d.records : q.series = r.series => q.version <= r.version
    PROVE  PI!Latest(d, r.series) = r
<1> DEFINE Last(x) == x \in PI!History(d, r.series)
                      /\ \A q \in PI!History(d, r.series) : q.version <= x.version
<1>1. Last(r)
  BY DEF PI!History
<1>2. Last(PI!Latest(d, r.series))
  BY <1>1 DEF PI!Latest
<1>3. \A q \in d.records : q.version \in Nat
  BY DEF RecordTyped
<1> QED
  BY <1>1, <1>2, <1>3 DEF PI!History, VersionsUnique

\* A series without rows has neither versions nor audit events.
LEMMA NoHistory ==
    ASSUME NEW d, EvidenceSound(d), NEW s, s \notin PI!StoredSeries(d)
    PROVE  /\ PI!History(d, s) = {} /\ Evidence(d, s) = {}
           /\ IsFiniteSet(PI!History(d, s)) /\ IsFiniteSet(Evidence(d, s))
           /\ Cardinality(PI!History(d, s)) = 0 /\ Cardinality(Evidence(d, s)) = 0
<1>1. PI!History(d, s) = {} /\ Evidence(d, s) = {}
  BY DEF EvidenceSound, AuditOfRecords, PI!History, Evidence, PI!StoredSeries
<1> QED
  BY <1>1, FS_EmptySet

\* The versions of a series count its rows, and its last row is the count's.
LEMMA LatestFacts ==
    ASSUME NEW d, EvidenceSound(d), NEW s \in PI!StoredSeries(d)
    PROVE  /\ PI!Latest(d, s) \in d.records /\ PI!Latest(d, s).series = s
           /\ PI!Latest(d, s).version = Cardinality(PI!History(d, s))
           /\ Cardinality(PI!History(d, s)) \in Nat \ {0}
           /\ \A q \in PI!History(d, s) : q.version \in 1..Cardinality(PI!History(d, s))
<1> DEFINE n == Cardinality(PI!History(d, s))
<1>1. n \in Nat
  BY FS_CardinalityType DEF EvidenceSound, HistoriesFinite
<1>2. PI!History(d, s) # {}
  BY DEF PI!StoredSeries, PI!History
<1>3. {r.version : r \in PI!History(d, s)} = 1..n
  BY SameCount DEF EvidenceSound, PI!HistoryValid
<1> HIDE DEF n
<1>4. n \in Nat \ {0}
  BY <1>1, <1>2, <1>3
<1>5. n \in {r.version : r \in PI!History(d, s)}
  BY <1>3, <1>4
<1>6. PICK r \in PI!History(d, s) : r.version = n
  BY <1>5
<1>7. \A q \in PI!History(d, s) : q.version \in 1..n
  BY <1>3
<1>8. r \in d.records /\ r.series = s
  BY <1>6 DEF PI!History
<1>9. \A q \in d.records : q.series = s => q.version <= r.version
  BY <1>6, <1>7, <1>4 DEF PI!History
<1>10. PI!Latest(d, s) = r
  BY <1>8, <1>9, LatestIs DEF EvidenceSound
<1> QED
  BY <1>4, <1>6, <1>7, <1>8, <1>10 DEF n

----------------------------------------------------------------------------
(* What a write adds to the histories.                                     *)

EventOf(r) == IF r.version = 1 THEN "created"
              ELSE IF r.life = "superseded" THEN "superseded" ELSE "updated"

\* r is the next row of its series in d.
FollowsOn(d, r) ==
    /\ RecordTyped(r)
    /\ r.version = Cardinality(PI!History(d, r.series)) + 1
    /\ r.series \in PI!StoredSeries(d) => PI!Latest(d, r.series).life # "superseded"

\* a is the audit event of r, and its request is in d.
Audited(d, r, a) ==
    /\ a.series = r.series /\ a.version = r.version /\ a.event = EventOf(r)
    /\ \E q \in d.requests : /\ q.id = a.request /\ q.digest = a.digest
                             /\ q.outcome = EventOf(r) /\ q.record = r

\* A request that a write adds is that of a new row, or completes an import.
Accounted(q, N, aud) ==
    /\ \/ \E r \in N : aud[r].request = q.id
       \/ q.outcome = "imported" /\ q.id = PI!IdImport(q.digest)
    /\ \A p \in Policies : \A g \in DOMAIN p :
          q.id = PI!IdSource(p, g) =>
             \E r \in N : r.series = PI!Series(g, None) /\ r.value = p[g]

\* d2 is d with the rows N, of a series each, and their audit events.
Appends(d, d2, N, aud) ==
    /\ \A r \in N : FollowsOn(d, r) /\ Audited(d2, r, aud[r])
    /\ \A r, q \in N : r.series = q.series => r = q
    /\ d2.records = d.records \cup N
    /\ d2.audit = d.audit \cup {aud[r] : r \in N}
    /\ d.requests \subseteq d2.requests
    /\ \A q \in d2.requests \ d.requests : Accounted(q, N, aud)

\* The history of a series that a write adds to has one row and one event more.
LEMMA OneMore ==
    ASSUME NEW d, NEW d2, NEW N, NEW aud, EvidenceSound(d), Appends(d, d2, N, aud),
           NEW r \in N
    PROVE  LET s == r.series
               n == Cardinality(PI!History(d, s))
           IN  /\ n \in Nat /\ r.version = n + 1
               /\ PI!History(d2, s) = PI!History(d, s) \cup {r}
               /\ Evidence(d2, s) = Evidence(d, s) \cup {aud[r]}
               /\ \A q \in PI!History(d, s) : q.version \in 1..n
               /\ {q.version : q \in PI!History(d, s)} = 1..n
               /\ IsFiniteSet(PI!History(d2, s)) /\ IsFiniteSet(Evidence(d2, s))
               /\ Cardinality(PI!History(d2, s)) = n + 1
               /\ Cardinality(Evidence(d2, s)) = n + 1
<1> DEFINE s == r.series
           n == Cardinality(PI!History(d, s))
<1>1. /\ IsFiniteSet(PI!History(d, s)) /\ IsFiniteSet(Evidence(d, s))
      /\ n \in Nat /\ Cardinality(Evidence(d, s)) = n
      /\ {q.version : q \in PI!History(d, s)} = 1..n
  <2>1. CASE s \in PI!StoredSeries(d)
    BY <2>1, FS_CardinalityType, SameCount
    DEF EvidenceSound, HistoriesFinite, PI!HistoryValid, Evidence
  <2>2. CASE s \notin PI!StoredSeries(d)
    BY <2>2, NoHistory
  <2> QED
    BY <2>1, <2>2
<1>2. r.version = n + 1
  BY DEF Appends, FollowsOn
<1>3. PI!History(d2, s) = PI!History(d, s) \cup {r}
  BY DEF Appends, PI!History
<1>4. \A q \in N : aud[q].series = q.series /\ aud[q].version = q.version
  BY DEF Appends, Audited
<1>5. Evidence(d2, s) = Evidence(d, s) \cup {aud[r]}
  BY <1>4 DEF Appends, Evidence
<1>6. \A q \in PI!History(d, s) : q.version \in 1..n
  BY <1>1
<1>7. r \notin PI!History(d, s)
  BY <1>1, <1>2, <1>6
<1>8. aud[r] \notin Evidence(d, s)
  <2>1. SUFFICES ASSUME aud[r] \in Evidence(d, s) PROVE FALSE
    OBVIOUS
  <2>2. PICK q \in d.records : q.series = s /\ q.version = n + 1
    BY <2>1, <1>4, <1>2 DEF Evidence, EvidenceSound, AuditOfRecords
  <2> QED
    BY <2>2, <1>1, <1>6 DEF PI!History
<1>9. IsFiniteSet(PI!History(d2, s)) /\ Cardinality(PI!History(d2, s)) = n + 1
  BY <1>1, <1>3, <1>7, FS_AddElement
<1>10. IsFiniteSet(Evidence(d2, s)) /\ Cardinality(Evidence(d2, s)) = n + 1
  BY <1>1, <1>5, <1>8, FS_AddElement
<1> QED
  BY <1>1, <1>2, <1>3, <1>5, <1>6, <1>9, <1>10

\* A series that a write does not add to keeps its history.
LEMMA NoneMore ==
    ASSUME NEW d, NEW d2, NEW N, NEW aud, EvidenceSound(d), Appends(d, d2, N, aud),
           NEW s, \A r \in N : r.series # s
    PROVE  PI!History(d2, s) = PI!History(d, s) /\ Evidence(d2, s) = Evidence(d, s)
<1>1. \A q \in N : aud[q].series = q.series
  BY DEF Appends, Audited
<1> QED
  BY <1>1 DEF Appends, PI!History, Evidence

\* The last rows after a write: the new ones, and those of the other series.
LEMMA LatestAfter ==
    ASSUME NEW d, NEW d2, NEW N, NEW aud, EvidenceSound(d), Appends(d, d2, N, aud)
    PROVE  /\ VersionsUnique(d2)
           /\ \A r \in d2.records : RecordTyped(r)
           /\ PI!StoredSeries(d2) = PI!StoredSeries(d) \cup {r.series : r \in N}
           /\ \A r \in N : PI!Latest(d2, r.series) = r
           /\ \A s \in PI!StoredSeries(d) :
                 (\A r \in N : r.series # s) => PI!Latest(d2, s) = PI!Latest(d, s)
<1>1. \A r \in d2.records : RecordTyped(r)
  BY DEF Appends, FollowsOn, EvidenceSound
<1>2. \A r \in N, q \in d.records :
         r.series = q.series => /\ q.version <= r.version /\ q.version # r.version
                                /\ q.version \in Nat /\ r.version \in Nat
  <2>1. SUFFICES ASSUME NEW r \in N, NEW q \in d.records, r.series = q.series
                 PROVE /\ q.version <= r.version /\ q.version # r.version
                       /\ q.version \in Nat /\ r.version \in Nat
    OBVIOUS
  <2>2. q \in PI!History(d, r.series)
    BY <2>1 DEF PI!History
  <2>3. q.version \in 1..Cardinality(PI!History(d, r.series))
    BY <2>2, OneMore
  <2>4. /\ Cardinality(PI!History(d, r.series)) \in Nat
        /\ r.version = Cardinality(PI!History(d, r.series)) + 1
    BY OneMore
  <2> QED
    BY <2>3, <2>4
<1>3. VersionsUnique(d2)
  BY <1>2 DEF VersionsUnique, Appends, EvidenceSound
<1>4. PI!StoredSeries(d2) = PI!StoredSeries(d) \cup {r.series : r \in N}
  BY DEF PI!StoredSeries, Appends
<1>5. ASSUME NEW r \in N PROVE PI!Latest(d2, r.series) = r
  <2>1. r \in d2.records
    BY DEF Appends
  <2>2. r.version <= r.version
    BY OneMore
  <2>3. \A q \in d2.records : q.series = r.series => q.version <= r.version
    BY <1>2, <2>2 DEF Appends
  <2> QED
    BY <1>1, <1>3, <2>1, <2>3, LatestIs
<1>6. ASSUME NEW s \in PI!StoredSeries(d), \A r \in N : r.series # s
      PROVE  PI!Latest(d2, s) = PI!Latest(d, s)
  <2>1. PI!Latest(d, s) \in d2.records /\ PI!Latest(d, s).series = s
    BY LatestFacts DEF Appends
  <2>2. \A q \in d2.records : q.series = s => q \in PI!History(d, s)
    BY <1>6 DEF Appends, PI!History
  <2>3. \A q \in d2.records : q.series = s => q.version <= PI!Latest(d, s).version
    BY <2>2, LatestFacts
  <2> QED
    BY <1>1, <1>3, <2>1, <2>3, LatestIs
<1> QED
  BY <1>1, <1>3, <1>4, <1>5, <1>6

\* A valid history stays valid where a write adds nothing to it.
LEMMA HistoryKept ==
    ASSUME NEW d, NEW d2, NEW s, PI!HistoryValid(d, s),
           PI!History(d2, s) = PI!History(d, s), Evidence(d2, s) = Evidence(d, s),
           d.requests \subseteq d2.requests
    PROVE  PI!HistoryValid(d2, s)
BY DEF PI!HistoryValid, Evidence

\* A history with its next row is valid.
LEMMA HistoryGrown ==
    ASSUME NEW d, NEW d2, NEW N, NEW aud, EvidenceSound(d), Appends(d, d2, N, aud),
           NEW r \in N
    PROVE  PI!HistoryValid(d2, r.series)
<1> DEFINE s == r.series
           n == Cardinality(PI!History(d, s))
           Backed(x, D) ==
              \E a \in Evidence(D, s), q \in D.requests :
                 /\ a.version = x.version
                 /\ q.id = a.request /\ q.digest = a.digest
                 /\ a.event = EventOf(x) /\ q.outcome = EventOf(x)
                 /\ q.record = x
<1>1. /\ n \in Nat /\ r.version = n + 1
      /\ PI!History(d2, s) = PI!History(d, s) \cup {r}
      /\ Evidence(d2, s) = Evidence(d, s) \cup {aud[r]}
      /\ {q.version : q \in PI!History(d, s)} = 1..n
      /\ Cardinality(PI!History(d2, s)) = n + 1
      /\ Cardinality(Evidence(d2, s)) = n + 1
  BY OneMore
<1>2. {q.version : q \in PI!History(d2, s)} = 1..(n + 1)
  <2>1. {q.version : q \in PI!History(d2, s)} = {q.version : q \in PI!History(d, s)} \cup {r.version}
    BY <1>1
  <2>2. (1..n) \cup {n + 1} = 1..(n + 1)
    BY <1>1
  <2> QED
    BY <1>1, <2>1, <2>2
<1>3. \A x \in PI!History(d, s) : Backed(x, d)
  <2>1. CASE s \in PI!StoredSeries(d)
    BY <2>1 DEF EvidenceSound, PI!HistoryValid, Evidence, EventOf
  <2>2. CASE s \notin PI!StoredSeries(d)
    BY <2>2, NoHistory
  <2> QED
    BY <2>1, <2>2
<1>4. \A x \in PI!History(d, s) : Backed(x, d2)
  BY <1>1, <1>3 DEF Appends
<1>5. Backed(r, d2)
  <2>1. Audited(d2, r, aud[r]) /\ aud[r] \in Evidence(d2, s)
    BY <1>1 DEF Appends
  <2> QED
    BY <2>1 DEF Audited
<1>6. \A x \in PI!History(d2, s) : Backed(x, d2)
  BY <1>1, <1>4, <1>5
<1> QED
  BY <1>1, <1>2, <1>6, SameCount DEF PI!HistoryValid, Evidence, EventOf

\* A write that appends leaves the evidence as sound as it was.
LEMMA AppendSound ==
    ASSUME NEW d, NEW d2, NEW N, NEW aud, EvidenceSound(d), Appends(d, d2, N, aud),
           Tables(d2)
    PROVE  EvidenceSound(d2)
<1>1. /\ VersionsUnique(d2)
      /\ \A r \in d2.records : RecordTyped(r)
      /\ PI!StoredSeries(d2) = PI!StoredSeries(d) \cup {r.series : r \in N}
  BY LatestAfter
<1>2. /\ d2.records = d.records \cup N
      /\ d2.audit = d.audit \cup {aud[r] : r \in N}
      /\ d.requests \subseteq d2.requests
      /\ \A r \in N : aud[r].series = r.series /\ aud[r].version = r.version
  BY DEF Appends, Audited
<1>3. AuditOfRecords(d2)
  BY <1>2 DEF AuditOfRecords, EvidenceSound
<1>4. \A s \in PI!StoredSeries(d2) : /\ IsFiniteSet(PI!History(d2, s))
                                     /\ IsFiniteSet(Evidence(d2, s))
                                     /\ PI!HistoryValid(d2, s)
  <2>1. SUFFICES ASSUME NEW s \in PI!StoredSeries(d2)
                 PROVE  /\ IsFiniteSet(PI!History(d2, s)) /\ IsFiniteSet(Evidence(d2, s))
                        /\ PI!HistoryValid(d2, s)
    OBVIOUS
  <2>2. CASE \E r \in N : r.series = s
    BY <2>2, OneMore, HistoryGrown
  <2>3. CASE \A r \in N : r.series # s
    <3>1. s \in PI!StoredSeries(d)
      BY <1>1, <2>3
    <3>2. PI!History(d2, s) = PI!History(d, s) /\ Evidence(d2, s) = Evidence(d, s)
      BY <2>3, NoneMore
    <3> QED
      BY <1>2, <3>1, <3>2, HistoryKept DEF EvidenceSound, HistoriesFinite
  <2> QED
    BY <2>2, <2>3
<1>5. PI!RequestsValid(d2)
  <2>1. SUFFICES ASSUME NEW q \in d2.requests
                 PROVE  \/ \E a \in d2.audit : a.request = q.id
                        \/ q.outcome = "imported" /\ q.id = PI!IdImport(q.digest)
    BY DEF PI!RequestsValid
  <2>2. CASE q \in d.requests
    BY <2>2, <1>2 DEF EvidenceSound, PI!RequestsValid
  <2>3. CASE q \notin d.requests
    BY <2>3, <1>2 DEF Appends, Accounted
  <2> QED
    BY <2>2, <2>3
<1>6. OnlyActiveContinues(d2)
  <2>1. SUFFICES ASSUME NEW r \in d2.records, NEW q \in d2.records,
                        r.series = q.series, r.version < q.version
                 PROVE  r.life # "superseded"
    BY DEF OnlyActiveContinues
  <2>2. CASE q \in N
    <3>1. r \in d.records
      <4>1. r \in N => r = q
        BY <2>1, <2>2 DEF Appends
      <4>2. r # q
        BY <2>1, <1>1 DEF RecordTyped
      <4> QED
        BY <4>1, <4>2, <1>2
    <3>2. r.series \in PI!StoredSeries(d) /\ r \in PI!History(d, r.series)
      BY <3>1 DEF PI!StoredSeries, PI!History
    <3>3. PI!Latest(d, r.series).life # "superseded"
      BY <2>1, <2>2, <3>2 DEF Appends, FollowsOn
    <3>4. CASE r = PI!Latest(d, r.series)
      BY <3>3, <3>4
    <3>5. CASE r # PI!Latest(d, r.series)
      <4>1. /\ PI!Latest(d, r.series) \in d.records /\ PI!Latest(d, r.series).series = r.series
            /\ r.version <= PI!Latest(d, r.series).version
            /\ r.version \in Nat /\ PI!Latest(d, r.series).version \in Nat
        BY <3>2, LatestFacts
      <4>2. r.version < PI!Latest(d, r.series).version
        BY <3>1, <3>5, <4>1 DEF EvidenceSound, VersionsUnique
      <4> QED
        BY <3>1, <4>1, <4>2 DEF EvidenceSound, OnlyActiveContinues
    <3> QED
      BY <3>4, <3>5
  <2>3. CASE r \in N /\ q \in d.records
    <3>1. q \in PI!History(d, r.series)
      BY <2>1, <2>3 DEF PI!History
    <3>2. /\ q.version <= Cardinality(PI!History(d, r.series))
          /\ q.version \in Nat /\ Cardinality(PI!History(d, r.series)) \in Nat
          /\ r.version = Cardinality(PI!History(d, r.series)) + 1
      BY <2>3, <3>1, OneMore
    <3> QED
      BY <2>1, <3>2
  <2>4. CASE r \in d.records /\ q \in d.records
    BY <2>1, <2>4 DEF EvidenceSound, OnlyActiveContinues
  <2> QED
    BY <1>2, <2>2, <2>3, <2>4
<1>7. SourcesKept(d2)
  <2>1. SUFFICES ASSUME NEW q \in d2.requests, NEW p \in Policies, NEW g \in DOMAIN p,
                        q.id = PI!IdSource(p, g)
                 PROVE  \E r \in PI!History(d2, PI!Series(g, None)) : r.value = p[g]
    BY DEF SourcesKept
  <2>2. CASE q \in d.requests
    BY <2>1, <2>2, <1>2 DEF EvidenceSound, SourcesKept, PI!History
  <2>3. CASE q \notin d.requests
    BY <2>1, <2>3, <1>2 DEF Appends, Accounted, PI!History
  <2> QED
    BY <2>2, <2>3
<1> QED
  BY <1>1, <1>3, <1>4, <1>5, <1>6, <1>7 DEF EvidenceSound, HistoriesFinite

\* The active records after a write: the new active ones, and those of the
\* other series.
LEMMA ActiveAfter ==
    ASSUME NEW d, NEW d2, NEW N, NEW aud, EvidenceSound(d), Appends(d, d2, N, aud)
    PROVE  PI!ActiveRecords(d2) =
              {r \in PI!ActiveRecords(d) : \A q \in N : q.series # r.series}
                 \cup {r \in N : r.life = "active"}
<1>1. /\ PI!StoredSeries(d2) = PI!StoredSeries(d) \cup {r.series : r \in N}
      /\ \A r \in N : PI!Latest(d2, r.series) = r
      /\ \A s \in PI!StoredSeries(d) :
            (\A r \in N : r.series # s) => PI!Latest(d2, s) = PI!Latest(d, s)
  BY LatestAfter
<1>2. \A s \in PI!StoredSeries(d) : PI!Latest(d, s).series = s
  BY LatestFacts
<1>3. ASSUME NEW x
      PROVE  x \in PI!Current(d2) <=>
                \/ x \in N
                \/ x \in PI!Current(d) /\ \A q \in N : q.series # x.series
  <2>1. x \in PI!Current(d2) => \/ x \in N
                                \/ x \in PI!Current(d) /\ \A q \in N : q.series # x.series
    BY <1>1, <1>2 DEF PI!Current
  <2>2. x \in N => x \in PI!Current(d2)
    BY <1>1 DEF PI!Current
  <2>3. x \in PI!Current(d) /\ (\A q \in N : q.series # x.series) => x \in PI!Current(d2)
    BY <1>1, <1>2 DEF PI!Current
  <2> QED
    BY <2>1, <2>2, <2>3
<1> QED
  BY <1>3 DEF PI!ActiveRecords

----------------------------------------------------------------------------
(* What a write does to the active rows and to the operations.             *)

\* One active record per guest, and its row, after a write that drops the rows
\* of the series it appends to and inserts those of its active rows.
LEMMA ActiveSoundAfter ==
    ASSUME NEW d, NEW d2, NEW N, NEW aud, EvidenceSound(d), Appends(d, d2, N, aud),
           ActiveSound(d),
           d2.active = {a \in d.active : \A q \in N : q.series # a.series}
                          \cup {PI!ActiveRow(r) : r \in {q \in N : q.life = "active"}},
           \A r \in N, x \in PI!ActiveRecords(d) :
              r.life = "active" /\ x.series.guest = r.series.guest =>
                 \E q \in N : q.series = x.series,
           \A r, q \in N : /\ r.life = "active" /\ q.life = "active"
                           /\ r.series.guest = q.series.guest
                           => r = q
    PROVE  ActiveSound(d2)
<1> DEFINE kept == {r \in PI!ActiveRecords(d) : \A q \in N : q.series # r.series}
           new == {r \in N : r.life = "active"}
<1>1. PI!ActiveRecords(d2) = kept \cup new
  BY ActiveAfter
<1>2. PI!OneActivePerGuest(d2)
  <2>1. \A a, b \in kept : a.series.guest = b.series.guest => a = b
    BY DEF ActiveSound, PI!OneActivePerGuest
  <2>2. \A a \in kept, b \in new : a.series.guest # b.series.guest
    OBVIOUS
  <2> QED
    BY <1>1, <2>1, <2>2 DEF PI!OneActivePerGuest
<1>3. \A r : PI!ActiveRow(r).series = r.series
  BY DEF PI!ActiveRow
<1>4. {a \in d.active : \A q \in N : q.series # a.series} = {PI!ActiveRow(r) : r \in kept}
  BY <1>3 DEF ActiveSound
<1>5. d2.active = {PI!ActiveRow(r) : r \in PI!ActiveRecords(d2)}
  BY <1>1, <1>4
<1> QED
  BY <1>2, <1>5 DEF ActiveSound

\* The operations and their audit, after one more.
AddsOperation(d, d2, cmd, outcome, n, E) ==
    /\ PI!Replays(d, cmd) = {}
    /\ d.records \subseteq d2.records
    /\ d2.operations = d.operations \cup
          {[id |-> cmd.id, command |-> cmd, outcome |-> outcome, version |-> n]}
    /\ d2.opAudit = d.opAudit \cup E
    /\ E # {} /\ \A e \in E : e.request = cmd.id /\ e.record \in d2.records
    /\ LET expected == IF outcome = "rebound" THEN {"superseded", "rebound"}
                       ELSE {outcome}
       IN  {e.event : e \in E} = expected /\ Cardinality(E) = Cardinality(expected)
    /\ \E r \in d2.records : /\ r.series = PI!Series(cmd.guest, cmd.print)
                             /\ r.version = n /\ r.value = cmd.value

\* An operation of a fresh request id leaves the operations as sound as they were.
LEMMA OperationsSoundAfter ==
    ASSUME NEW d, NEW d2, OperationsSound(d), NEW cmd, NEW outcome, NEW n, NEW E,
           AddsOperation(d, d2, cmd, outcome, n, E)
    PROVE  OperationsSound(d2)
<1> USE DEF AddsOperation
<1> DEFINE op == [id |-> cmd.id, command |-> cmd, outcome |-> outcome, version |-> n]
           Events(D, o) == {e \in D.opAudit : e.request = o.id}
<1>1. \A o \in d.operations : o.id # cmd.id
  BY DEF PI!Replays
<1>2. \A e \in d.opAudit : e.request # cmd.id
  BY <1>1 DEF OperationsSound
<1>3. \A o \in d2.operations :
         o = [id |-> o.command.id, command |-> o.command,
              outcome |-> o.outcome, version |-> o.version]
  BY DEF OperationsSound
<1>4. \A o, u \in d2.operations : o.id = u.id => o = u
  BY <1>1 DEF OperationsSound
<1>5. {o.id : o \in d2.operations} = {e.request : e \in d2.opAudit}
  <2>1. {o.id : o \in d2.operations} = {o.id : o \in d.operations} \cup {cmd.id}
    <3>1. d2.operations = d.operations \cup {op} /\ op.id = cmd.id
      OBVIOUS
    <3> HIDE DEF op
    <3> QED
      BY <3>1
  <2>2. {e.request : e \in d2.opAudit} = {e.request : e \in d.opAudit} \cup {cmd.id}
    OBVIOUS
  <2> QED
    BY <2>1, <2>2 DEF OperationsSound
<1>6. \A o \in d.operations : PI!OperationValid(d2, o)
  <2>1. SUFFICES ASSUME NEW o \in d.operations PROVE PI!OperationValid(d2, o)
    OBVIOUS
  <2>2. Events(d2, o) = Events(d, o)
    BY <1>1
  <2>3. PI!OperationValid(d, o)
    BY DEF OperationsSound
  <2> QED
    BY <2>2, <2>3 DEF PI!OperationValid
<1>7. PI!OperationValid(d2, op)
  <2>1. Events(d2, op) = E
    BY <1>2
  <2> QED
    BY <2>1, SameCount DEF PI!OperationValid
<1> QED
  BY <1>3, <1>4, <1>5, <1>6, <1>7 DEF OperationsSound

----------------------------------------------------------------------------
(* The tables that each write changes.                                     *)

\* d with other records, audit events and requests.
WithRows(d, x, y, z) == [d EXCEPT !.records = x, !.audit = y, !.requests = z]

\* What an update of some tables leaves of a store.
LEMMA UpdateRows ==
    ASSUME NEW d, Tables(d), NEW x, NEW y, NEW z, NEW e,
           e = WithRows(d, x, y, z)
    PROVE  e = [schema |-> d.schema, records |-> x, audit |-> y, requests |-> z,
                active |-> d.active, operations |-> d.operations,
                opAudit |-> d.opAudit]
<1>1. PICK a, b, c, q, t, o, u :
         d = [schema |-> a, records |-> b, audit |-> c, requests |-> q, active |-> t,
              operations |-> o, opAudit |-> u]
  BY DEF Tables
<1> QED
  BY <1>1 DEF WithRows

\* An update of the operations and their audit leaves the other tables.
LEMMA UpdateOperations ==
    ASSUME NEW d, Tables(d), NEW x, NEW y, NEW e,
           e = [d EXCEPT !.operations = x, !.opAudit = y]
    PROVE  e = [schema |-> d.schema, records |-> d.records, audit |-> d.audit,
                requests |-> d.requests, active |-> d.active, operations |-> x,
                opAudit |-> y]
<1>1. PICK a, b, c, q, t, o, u :
         d = [schema |-> a, records |-> b, audit |-> c, requests |-> q, active |-> t,
              operations |-> o, opAudit |-> u]
  BY DEF Tables
<1> QED
  BY <1>1

\* So does one of the active rows, which a migration makes with the new schema.
LEMMA UpdateActive ==
    ASSUME NEW d, Tables(d), NEW x, NEW y, NEW e,
           e = [d EXCEPT !.schema = x, !.active = y]
    PROVE  e = [schema |-> x, records |-> d.records, audit |-> d.audit,
                requests |-> d.requests, active |-> y, operations |-> d.operations,
                opAudit |-> d.opAudit]
<1>1. PICK a, b, c, q, t, o, u :
         d = [schema |-> a, records |-> b, audit |-> c, requests |-> q, active |-> t,
              operations |-> o, opAudit |-> u]
  BY DEF Tables
<1> QED
  BY <1>1

\* What _persist_mutation makes of the tables: a row, its event and its request.
LEMMA PersistedTables ==
    ASSUME NEW d, Tables(d), NEW r, NEW id, NEW digest, NEW event
    PROVE  LET e == PI!Persisted(d, r, id, digest, event)
           IN  /\ Tables(e) /\ e.schema = d.schema
               /\ e.records = d.records \cup {r}
               /\ e.audit = d.audit \cup
                     {[series |-> r.series, version |-> r.version, request |-> id,
                       digest |-> digest, event |-> event]}
               /\ e.requests = d.requests \cup
                     {[id |-> id, digest |-> digest, outcome |-> event, record |-> r]}
               /\ e.active = d.active /\ e.operations = d.operations
               /\ e.opAudit = d.opAudit
<1> DEFINE x == d.records \cup {r}
           y == d.audit \cup
                  {[series |-> r.series, version |-> r.version, request |-> id,
                    digest |-> digest, event |-> event]}
           z == d.requests \cup
                  {[id |-> id, digest |-> digest, outcome |-> event, record |-> r]}
           e == PI!Persisted(d, r, id, digest, event)
<1>1. e = WithRows(d, x, y, z)
  BY DEF PI!Persisted, WithRows
<1> HIDE DEF e, x, y, z
<1>2. e = [schema |-> d.schema, records |-> x, audit |-> y, requests |-> z,
           active |-> d.active, operations |-> d.operations, opAudit |-> d.opAudit]
  BY <1>1, UpdateRows
<1>3. /\ Tables(e) /\ e.schema = d.schema /\ e.records = x /\ e.audit = y
      /\ e.requests = z /\ e.active = d.active /\ e.operations = d.operations
      /\ e.opAudit = d.opAudit
  BY <1>2 DEF Tables
<1> QED
  BY <1>3 DEF e, x, y, z

\* What _insert_ and _update_active_coordinate make of them: the row of one series.
LEMMA WithActiveTables ==
    ASSUME NEW d, Tables(d), NEW r
    PROVE  LET e == PI!WithActive(d, r)
           IN  /\ Tables(e) /\ e.schema = d.schema
               /\ e.records = d.records /\ e.audit = d.audit
               /\ e.requests = d.requests
               /\ e.active = {a \in d.active : a.series # r.series} \cup {PI!ActiveRow(r)}
               /\ e.operations = d.operations /\ e.opAudit = d.opAudit
<1>1. PICK a, b, c, q, t, o, u :
         d = [schema |-> a, records |-> b, audit |-> c, requests |-> q, active |-> t,
              operations |-> o, opAudit |-> u]
  BY DEF Tables
<1> DEFINE e == PI!WithActive(d, r)
           rows == {x \in d.active : x.series # r.series} \cup {PI!ActiveRow(r)}
<1>a. e = [d EXCEPT !.active = rows]
  BY DEF PI!WithActive
<1> HIDE DEF e, rows
<1>2. e = [schema |-> a, records |-> b, audit |-> c, requests |-> q,
           active |-> rows, operations |-> o, opAudit |-> u]
  BY <1>1, <1>a
<1>3. Tables(e)
  BY <1>2 DEF Tables
<1> QED
  BY <1>1, <1>2, <1>3 DEF e, rows

\* What _delete_active_coordinate makes of them.
LEMMA WithoutActiveTables ==
    ASSUME NEW d, Tables(d), NEW s
    PROVE  LET e == PI!WithoutActive(d, s)
           IN  /\ Tables(e) /\ e.schema = d.schema
               /\ e.records = d.records /\ e.audit = d.audit
               /\ e.requests = d.requests
               /\ e.active = {a \in d.active : a.series # s}
               /\ e.operations = d.operations /\ e.opAudit = d.opAudit
<1>1. PICK a, b, c, q, t, o, u :
         d = [schema |-> a, records |-> b, audit |-> c, requests |-> q, active |-> t,
              operations |-> o, opAudit |-> u]
  BY DEF Tables
<1> DEFINE e == PI!WithoutActive(d, s)
<1>2. e = [schema |-> a, records |-> b, audit |-> c, requests |-> q,
           active |-> {x \in t : x.series # s},
           operations |-> o, opAudit |-> u]
  BY <1>1 DEF PI!WithoutActive
<1> HIDE DEF e
<1>3. Tables(e)
  BY <1>2 DEF Tables
<1> QED
  BY <1>1, <1>2, <1>3 DEF e

\* What the operation of mutate_coordinate and its domain audit make of them.
LEMMA OperationTables ==
    ASSUME NEW d, Tables(d), NEW cmd, NEW outcome, NEW n, NEW events
    PROVE  LET e == PI!Operation(d, cmd, outcome, n, events)
           IN  /\ Tables(e) /\ e.schema = d.schema
               /\ e.records = d.records /\ e.audit = d.audit
               /\ e.requests = d.requests /\ e.active = d.active
               /\ e.operations = d.operations \cup
                     {[id |-> cmd.id, command |-> cmd, outcome |-> outcome,
                       version |-> n]}
               /\ e.opAudit = d.opAudit \cup
                     {[request |-> cmd.id, record |-> w[1], event |-> w[2]] :
                        w \in events}
<1> DEFINE x == d.operations \cup
                  {[id |-> cmd.id, command |-> cmd, outcome |-> outcome,
                    version |-> n]}
           y == d.opAudit \cup
                  {[request |-> cmd.id, record |-> w[1], event |-> w[2]] :
                     w \in events}
           e == PI!Operation(d, cmd, outcome, n, events)
<1>1. e = [d EXCEPT !.operations = x, !.opAudit = y]
  BY DEF PI!Operation
<1> HIDE DEF e, x, y
<1>2. e = [schema |-> d.schema, records |-> d.records, audit |-> d.audit,
           requests |-> d.requests, active |-> d.active, operations |-> x,
           opAudit |-> y]
  BY <1>1, UpdateOperations
<1>3. /\ Tables(e) /\ e.schema = d.schema /\ e.records = d.records
      /\ e.audit = d.audit /\ e.requests = d.requests /\ e.active = d.active
      /\ e.operations = x /\ e.opAudit = y
  BY <1>2 DEF Tables
<1> QED
  BY <1>3 DEF e, x, y

\* The first row of a series, and the next one of an active series.
LEMMA NextRow ==
    ASSUME NEW d, EvidenceSound(d), NEW g \in Guests, NEW p \in Prints,
           NEW v \in Values
    PROVE  /\ PI!History(d, PI!Series(g, p)) = {} =>
                 FollowsOn(d, PI!Record(PI!Series(g, p), 1, "active", v))
           /\ \A r \in d.records, life \in {"active", "superseded"} :
                 r = PI!Latest(d, r.series) /\ r.life = "active" =>
                    FollowsOn(d, PI!NextVersion(r, life, v))
<1>1. ASSUME PI!History(d, PI!Series(g, p)) = {}
      PROVE  FollowsOn(d, PI!Record(PI!Series(g, p), 1, "active", v))
  <2>1. PI!Series(g, p) \notin PI!StoredSeries(d)
    BY <1>1 DEF PI!History, PI!StoredSeries
  <2>2. Cardinality(PI!History(d, PI!Series(g, p))) = 0
    BY <2>1, NoHistory
  <2> QED
    BY <2>1, <2>2, IntentsHold
    DEF PI!IntentsAssumption, FollowsOn, RecordTyped, PI!Record, PI!Series, Lives
<1>2. ASSUME NEW r \in d.records, NEW life \in {"active", "superseded"},
             r = PI!Latest(d, r.series), r.life = "active"
      PROVE  FollowsOn(d, PI!NextVersion(r, life, v))
  <2>1. r.series \in PI!StoredSeries(d)
    BY DEF PI!StoredSeries
  <2>2. RecordTyped(r)
    BY DEF EvidenceSound
  <2>3. /\ r.version = Cardinality(PI!History(d, r.series)) /\ r.version \in Nat \ {0}
    BY <1>2, <2>1, LatestFacts
  <2> DEFINE x == PI!NextVersion(r, life, v)
  <2>4. /\ x.series = r.series /\ x.version = r.version + 1
        /\ x.life = life /\ x.value = v
        /\ x = PI!Record(x.series, x.version, x.life, x.value)
    BY DEF PI!NextVersion, PI!Record
  <2>5. r.series.print \in Prints /\ r.series.print # None
    BY <1>2, <2>2 DEF RecordTyped
  <2> HIDE DEF x
  <2>6. RecordTyped(x)
    BY <2>2, <2>3, <2>4, <2>5 DEF RecordTyped, Lives
  <2>7. FollowsOn(d, x)
    BY <1>2, <2>3, <2>4, <2>6 DEF FollowsOn
  <2> QED
    BY <2>7 DEF x
<1> QED
  BY <1>1, <1>2

\* The audit event of a mutation.
AuditOf(r, id, digest) ==
    [series |-> r.series, version |-> r.version, request |-> id, digest |-> digest,
     event |-> EventOf(r)]

\* An id of a client's request is not one of an imported entry.
NotSource(id) == \A p \in Policies : \A g \in DOMAIN p : id # PI!IdSource(p, g)

\* The ids that a mutation derives from a request are none of an imported entry.
LEMMA RequestIds ==
    ASSUME NEW r
    PROVE  NotSource(PI!Id(r)) /\ NotSource(PI!IdSupersede(r)) /\ NotSource(PI!IdActivate(r))
<1>1. \A p \in Policies : \A g \in DOMAIN p :
         g # "request" /\ g # "supersede" /\ g # "activate"
  BY IntentsHold DEF PI!IntentsAssumption
<1> QED
  BY <1>1 DEF NotSource, PI!Id, PI!IdSupersede, PI!IdActivate, PI!IdSource

\* One row, its audit event and its request, as _persist_mutation writes them.
LEMMA PersistedAppends ==
    ASSUME NEW d, NEW d2, NEW r, FollowsOn(d, r), NEW id, NEW digest, NotSource(id),
           d2.records = d.records \cup {r},
           d2.audit = d.audit \cup {AuditOf(r, id, digest)},
           d2.requests = d.requests \cup
              {[id |-> id, digest |-> digest, outcome |-> EventOf(r), record |-> r]}
    PROVE  \E aud : Appends(d, d2, {r}, aud)
<1> DEFINE aud == [x \in {r} |-> AuditOf(r, id, digest)]
           new == [id |-> id, digest |-> digest, outcome |-> EventOf(r), record |-> r]
<1>1. aud[r] = AuditOf(r, id, digest)
  OBVIOUS
<1>2. Audited(d2, r, aud[r])
  <2>1. new \in d2.requests
    OBVIOUS
  <2>2. /\ new.id = aud[r].request /\ new.digest = aud[r].digest
        /\ new.outcome = EventOf(r) /\ new.record = r
    BY <1>1 DEF AuditOf
  <2> QED
    BY <1>1, <2>1, <2>2 DEF Audited, AuditOf
<1>3. \A q \in d2.requests \ d.requests : Accounted(q, {r}, aud)
  <2>1. \A q \in d2.requests \ d.requests : q.id = id
    OBVIOUS
  <2>2. aud[r].request = id
    BY <1>1 DEF AuditOf
  <2> QED
    BY <2>1, <2>2 DEF Accounted, NotSource
<1>4. {aud[x] : x \in {r}} = {AuditOf(r, id, digest)}
  BY <1>1
<1> HIDE DEF aud
<1> QED
  BY <1>2, <1>3, <1>4 DEF Appends

----------------------------------------------------------------------------
(* Each write keeps a store sound.                                         *)

\* What is never lost in a write, and what the rows it adds say.
Grew(d, d2, given) ==
    /\ d.records \subseteq d2.records
    /\ d.operations \subseteq d2.operations
    /\ \A r \in d2.records : r.series.print \in Prints =>
          \/ \E q \in d.records : q.series = r.series /\ q.value = r.value
          \/ <<r.series.guest, r.series.print, r.value>> \in given

Asks(cmd) == <<cmd.guest, cmd.print, cmd.value>>

\* An active record is the last row of a series of a guest and an incarnation.
LEMMA ActiveIs ==
    ASSUME NEW d, EvidenceSound(d), NEW r \in PI!ActiveRecords(d)
    PROVE  /\ r \in d.records /\ r = PI!Latest(d, r.series) /\ r.life = "active"
           /\ r.series \in PI!StoredSeries(d) /\ RecordTyped(r)
           /\ r.series.print \in Prints /\ r.series.guest \in Guests
<1>1. PICK s \in PI!StoredSeries(d) : r = PI!Latest(d, s) /\ r.life = "active"
  BY DEF PI!ActiveRecords, PI!Current
<1>2. r \in d.records /\ r.series = s
  BY <1>1, LatestFacts
<1>3. RecordTyped(r)
  BY <1>2 DEF EvidenceSound
<1> QED
  BY <1>1, <1>2, <1>3 DEF RecordTyped

\* The active records of the store are those whose series ends in one.
LEMMA IsActive ==
    ASSUME NEW d, EvidenceSound(d), NEW s \in PI!StoredSeries(d),
           PI!Latest(d, s).life = "active"
    PROVE  PI!Latest(d, s) \in PI!ActiveRecords(d)
BY DEF PI!ActiveRecords, PI!Current

\* One more row, of a guest that has no other active series.
LEMMA OneRowSound ==
    ASSUME NEW d, NEW d2, NEW r, NEW id, NEW digest,
           EvidenceSound(d), ActiveSound(d), FollowsOn(d, r), NotSource(id),
           r.life \in {"active", "superseded"},
           Tables(d2),
           d2.records = d.records \cup {r},
           d2.audit = d.audit \cup {AuditOf(r, id, digest)},
           d2.requests = d.requests \cup
              {[id |-> id, digest |-> digest, outcome |-> EventOf(r), record |-> r]},
           d2.active = {a \in d.active : a.series # r.series}
                          \cup (IF r.life = "active" THEN {PI!ActiveRow(r)} ELSE {}),
           r.life = "active" => \A x \in PI!ActiveRecords(d) :
              x.series.guest = r.series.guest => x.series = r.series
    PROVE  EvidenceSound(d2) /\ ActiveSound(d2)
<1>1. PICK aud : Appends(d, d2, {r}, aud)
  BY PersistedAppends
<1>2. EvidenceSound(d2)
  BY <1>1, AppendSound
<1>3. d2.active = {a \in d.active : \A q \in {r} : q.series # a.series}
                     \cup {PI!ActiveRow(x) : x \in {q \in {r} : q.life = "active"}}
  <2>1. CASE r.life = "active"
    <3>1. {q \in {r} : q.life = "active"} = {r}
      BY <2>1
    <3> QED
      BY <2>1, <3>1
  <2>2. CASE r.life # "active"
    <3>1. {q \in {r} : q.life = "active"} = {}
      BY <2>2
    <3> QED
      BY <2>2, <3>1
  <2> QED
    BY <2>1, <2>2
<1>4. ActiveSound(d2)
  <2>1. \A x \in {r}, y \in PI!ActiveRecords(d) :
           x.life = "active" /\ y.series.guest = x.series.guest =>
              \E q \in {r} : q.series = y.series
    <3>1. \A y \in PI!ActiveRecords(d) :
             r.life = "active" /\ y.series.guest = r.series.guest => r.series = y.series
      OBVIOUS
    <3> QED
      BY <3>1
  <2>2. \A x, y \in {r} : x = y
    BY Zenon
  <2> QED
    BY <1>1, <1>3, <2>1, <2>2, ActiveSoundAfter
<1> QED
  BY <1>2, <1>4

\* Rows that are added leave the operations as sound as they were.
LEMMA OperationsKept ==
    ASSUME NEW d, NEW d2, OperationsSound(d), d.records \subseteq d2.records,
           d2.operations = d.operations, d2.opAudit = d.opAudit
    PROVE  OperationsSound(d2)
BY DEF OperationsSound, PI!OperationValid

\* What the active records of a guest are to a command of its own incarnation.
LEMMA BoundRow ==
    ASSUME NEW d, EvidenceSound(d), ActiveSound(d), NEW cmd,
           NEW r \in PI!ActiveOf(d, cmd.guest), r.series = PI!Series(cmd.guest, cmd.print)
    PROVE  /\ PI!Latest(d, PI!Series(cmd.guest, cmd.print)) = r
           /\ \A x \in PI!ActiveRecords(d) : x.series.guest = cmd.guest => x = r
<1>1. r \in PI!ActiveRecords(d) /\ r.series.guest = cmd.guest
  BY DEF PI!ActiveOf
<1> QED
  BY <1>1, ActiveIs DEF ActiveSound, PI!OneActivePerGuest

\* mutate_coordinate creates.
LEMMA CreatedSound ==
    ASSUME NEW d, Sound(d), d.schema = "p3", NEW cmd,
           cmd.guest \in Guests, cmd.print \in Prints, cmd.value \in Values,
           PI!Replays(d, cmd) = {}, PI!ActiveOf(d, cmd.guest) = {}, PI!FirstBinding(d, cmd)
    PROVE  Sound(PI!Created(d, cmd)) /\ Grew(d, PI!Created(d, cmd), {Asks(cmd)})
<1> DEFINE s == PI!Series(cmd.guest, cmd.print)
           r == PI!Record(s, 1, "active", cmd.value)
           d1 == PI!Persisted(d, r, PI!Id(cmd.id), cmd, "created")
           d2 == PI!WithActive(d1, r)
           d3 == PI!Operation(d2, cmd, "created", 1, {<<r, "created">>})
           E == {[request |-> cmd.id, record |-> w[1], event |-> w[2]] :
                   w \in {<<r, "created">>}}
<1>0. PI!Created(d, cmd) = d3
  BY DEF PI!Created
<1>1. /\ EvidenceSound(d) /\ OperationsSound(d) /\ ActiveSound(d) /\ Tables(d)
  BY DEF Sound, EvidenceSound
<1>2. FollowsOn(d, r)
  BY <1>1, NextRow DEF PI!FirstBinding
<1>3. /\ r.series = s /\ r.version = 1 /\ r.life = "active" /\ r.value = cmd.value
      /\ EventOf(r) = "created"
      /\ s.guest = cmd.guest /\ s.print = cmd.print
  BY DEF PI!Record, EventOf, PI!Series
<1> HIDE DEF r, s
<1>4. /\ Tables(d1) /\ d1.schema = "p3" /\ d1.records = d.records \cup {r}
      /\ d1.audit = d.audit \cup {AuditOf(r, PI!Id(cmd.id), cmd)}
      /\ d1.requests = d.requests \cup
            {[id |-> PI!Id(cmd.id), digest |-> cmd, outcome |-> EventOf(r), record |-> r]}
      /\ d1.active = d.active /\ d1.operations = d.operations
      /\ d1.opAudit = d.opAudit
  BY <1>1, <1>3, PersistedTables DEF AuditOf
<1> HIDE DEF d1
<1>5. /\ Tables(d2) /\ d2.schema = "p3" /\ d2.records = d1.records
      /\ d2.audit = d1.audit /\ d2.requests = d1.requests
      /\ d2.active = {a \in d.active : a.series # r.series} \cup {PI!ActiveRow(r)}
      /\ d2.operations = d.operations /\ d2.opAudit = d.opAudit
  <2>1. /\ Tables(d2) /\ d2.schema = d1.schema /\ d2.records = d1.records
        /\ d2.audit = d1.audit /\ d2.requests = d1.requests
        /\ d2.active = {a \in d1.active : a.series # r.series} \cup {PI!ActiveRow(r)}
        /\ d2.operations = d1.operations /\ d2.opAudit = d1.opAudit
    BY <1>4, WithActiveTables
  <2> QED
    BY <1>4, <2>1
<1> HIDE DEF d2
<1>6. /\ Tables(d3) /\ d3.schema = "p3" /\ d3.records = d1.records
      /\ d3.audit = d1.audit /\ d3.requests = d1.requests /\ d3.active = d2.active
      /\ d3.operations = d.operations \cup
            {[id |-> cmd.id, command |-> cmd, outcome |-> "created", version |-> 1]}
      /\ d3.opAudit = d.opAudit \cup E
  BY <1>5, OperationTables
<1> HIDE DEF d3, E
<1>7. EvidenceSound(d3) /\ ActiveSound(d3)
  <2>1. \A x \in PI!ActiveRecords(d) : x.series.guest # r.series.guest
    BY <1>3 DEF PI!ActiveOf
  <2> QED
    BY <1>1, <1>2, <1>3, <1>4, <1>5, <1>6, <2>1, RequestIds, OneRowSound
<1>8. OperationsSound(d3)
  <2> DEFINE event == [request |-> cmd.id, record |-> r, event |-> "created"]
  <2>1. E = {event}
    BY DEF E
  <2>2. event.request = cmd.id /\ event.record = r /\ event.event = "created"
    OBVIOUS
  <2> HIDE DEF event
  <2>a. Cardinality({event}) = 1
    BY FS_Singleton
  <2>3. /\ E # {} /\ Cardinality(E) = 1 /\ {e.event : e \in E} = {"created"}
        /\ \A e \in E : e.request = cmd.id /\ e.record = r
    BY <2>1, <2>2, <2>a
  <2>4. Cardinality({"created"}) = 1
    BY FS_Singleton
  <2>5. r \in d3.records /\ d.records \subseteq d3.records
    BY <1>4, <1>6
  <2>6. AddsOperation(d, d3, cmd, "created", 1, E)
    BY <1>3, <1>6, <2>3, <2>4, <2>5 DEF AddsOperation, s
  <2> QED
    BY <1>1, <2>6, OperationsSoundAfter
<1>9. Grew(d, d3, {Asks(cmd)})
  <2>1. <<r.series.guest, r.series.print, r.value>> = Asks(cmd)
    BY <1>3 DEF Asks
  <2> QED
    BY <1>4, <1>6, <2>1 DEF Grew
<1> QED
  BY <1>0, <1>6, <1>7, <1>8, <1>9 DEF Sound

\* mutate_coordinate updates the record that is bound.
LEMMA UpdatedSound ==
    ASSUME NEW d, Sound(d), d.schema = "p3", NEW cmd,
           cmd.guest \in Guests, cmd.print \in Prints, cmd.value \in Values,
           PI!Replays(d, cmd) = {}, NEW old \in PI!ActiveOf(d, cmd.guest),
           old.series = PI!Series(cmd.guest, cmd.print)
    PROVE  Sound(PI!Updated(d, cmd)) /\ Grew(d, PI!Updated(d, cmd), {Asks(cmd)})
<1> DEFINE s == PI!Series(cmd.guest, cmd.print)
           r == PI!NextVersion(old, "active", cmd.value)
           d1 == PI!Persisted(d, r, PI!Id(cmd.id), cmd, "updated")
           d2 == PI!WithActive(d1, r)
           d3 == PI!Operation(d2, cmd, "updated", r.version, {<<r, "updated">>})
           E == {[request |-> cmd.id, record |-> w[1], event |-> w[2]] :
                   w \in {<<r, "updated">>}}
<1>1. /\ EvidenceSound(d) /\ OperationsSound(d) /\ ActiveSound(d) /\ Tables(d)
  BY DEF Sound, EvidenceSound
<1>a. /\ PI!Latest(d, s) = old
      /\ \A x \in PI!ActiveRecords(d) : x.series.guest = cmd.guest => x = old
  BY <1>1, BoundRow
<1>b. /\ old \in d.records /\ old = PI!Latest(d, old.series) /\ old.life = "active"
      /\ RecordTyped(old)
  BY <1>1, ActiveIs DEF PI!ActiveOf
<1>0. PI!Updated(d, cmd) = d3
  BY <1>a DEF PI!Updated
<1>2. FollowsOn(d, r)
  BY <1>1, <1>b, NextRow
<1>3. /\ r.series = s /\ r.life = "active" /\ r.value = cmd.value
      /\ r.version = old.version + 1 /\ EventOf(r) = "updated"
      /\ s.guest = cmd.guest /\ s.print = cmd.print
  BY <1>b DEF PI!Record, PI!NextVersion, EventOf, PI!Series, RecordTyped
<1> HIDE DEF r, s
<1>4. /\ Tables(d1) /\ d1.schema = "p3" /\ d1.records = d.records \cup {r}
      /\ d1.audit = d.audit \cup {AuditOf(r, PI!Id(cmd.id), cmd)}
      /\ d1.requests = d.requests \cup
            {[id |-> PI!Id(cmd.id), digest |-> cmd, outcome |-> EventOf(r), record |-> r]}
      /\ d1.active = d.active /\ d1.operations = d.operations
      /\ d1.opAudit = d.opAudit
  BY <1>1, <1>3, PersistedTables DEF AuditOf
<1> HIDE DEF d1
<1>5. /\ Tables(d2) /\ d2.schema = "p3" /\ d2.records = d1.records
      /\ d2.audit = d1.audit /\ d2.requests = d1.requests
      /\ d2.active = {a \in d.active : a.series # r.series} \cup {PI!ActiveRow(r)}
      /\ d2.operations = d.operations /\ d2.opAudit = d.opAudit
  <2>1. /\ Tables(d2) /\ d2.schema = d1.schema /\ d2.records = d1.records
        /\ d2.audit = d1.audit /\ d2.requests = d1.requests
        /\ d2.active = {a \in d1.active : a.series # r.series} \cup {PI!ActiveRow(r)}
        /\ d2.operations = d1.operations /\ d2.opAudit = d1.opAudit
    BY <1>4, WithActiveTables
  <2> QED
    BY <1>4, <2>1
<1> HIDE DEF d2
<1>6. /\ Tables(d3) /\ d3.schema = "p3" /\ d3.records = d1.records
      /\ d3.audit = d1.audit /\ d3.requests = d1.requests /\ d3.active = d2.active
      /\ d3.operations = d.operations \cup
            {[id |-> cmd.id, command |-> cmd, outcome |-> "updated",
              version |-> r.version]}
      /\ d3.opAudit = d.opAudit \cup E
  BY <1>5, OperationTables
<1> HIDE DEF d3, E
<1>7. EvidenceSound(d3) /\ ActiveSound(d3)
  <2>1. \A x \in PI!ActiveRecords(d) :
           x.series.guest = r.series.guest => x.series = r.series
    BY <1>3, <1>a DEF s
  <2> QED
    BY <1>1, <1>2, <1>3, <1>4, <1>5, <1>6, <2>1, RequestIds, OneRowSound
<1>8. OperationsSound(d3)
  <2> DEFINE event == [request |-> cmd.id, record |-> r, event |-> "updated"]
  <2>1. E = {event}
    BY DEF E
  <2>2. event.request = cmd.id /\ event.record = r /\ event.event = "updated"
    OBVIOUS
  <2> HIDE DEF event
  <2>a. Cardinality({event}) = 1
    BY FS_Singleton
  <2>3. /\ E # {} /\ Cardinality(E) = 1 /\ {e.event : e \in E} = {"updated"}
        /\ \A e \in E : e.request = cmd.id /\ e.record = r
    BY <2>1, <2>2, <2>a
  <2>4. Cardinality({"updated"}) = 1
    BY FS_Singleton
  <2>5. r \in d3.records /\ d.records \subseteq d3.records
    BY <1>4, <1>6
  <2>6. AddsOperation(d, d3, cmd, "updated", r.version, E)
    BY <1>3, <1>6, <2>3, <2>4, <2>5 DEF AddsOperation, s
  <2> QED
    BY <1>1, <2>6, OperationsSoundAfter
<1>9. Grew(d, d3, {Asks(cmd)})
  <2>1. <<r.series.guest, r.series.print, r.value>> = Asks(cmd)
    BY <1>3 DEF Asks
  <2> QED
    BY <1>4, <1>6, <2>1 DEF Grew
<1> QED
  BY <1>0, <1>6, <1>7, <1>8, <1>9 DEF Sound

\* mutate_coordinate binds a guest to another incarnation.
LEMMA ReboundSound ==
    ASSUME NEW d, Sound(d), d.schema = "p3", NEW cmd,
           cmd.guest \in Guests, cmd.print \in Prints, cmd.value \in Values,
           PI!Replays(d, cmd) = {}, PI!ActiveOf(d, cmd.guest) # {}, PI!FirstBinding(d, cmd)
    PROVE  Sound(PI!Rebound(d, cmd)) /\ Grew(d, PI!Rebound(d, cmd), {Asks(cmd)})
<1> DEFINE s == PI!Series(cmd.guest, cmd.print)
           previous == CHOOSE r \in PI!ActiveOf(d, cmd.guest) : TRUE
           old == PI!NextVersion(previous, "superseded", previous.value)
           new == PI!Record(s, 1, "active", cmd.value)
           d1 == PI!Persisted(d, old, PI!IdSupersede(cmd.id), cmd, "superseded")
           d2 == PI!Persisted(d1, new, PI!IdActivate(cmd.id), cmd, "created")
           d3 == PI!WithoutActive(d2, previous.series)
           d4 == PI!WithActive(d3, new)
           events == {<<old, "superseded">>, <<new, "rebound">>}
           d5 == PI!Operation(d4, cmd, "rebound", 1, events)
           E == {[request |-> cmd.id, record |-> w[1], event |-> w[2]] : w \in events}
<1>0. PI!Rebound(d, cmd) = d5
  BY DEF PI!Rebound
<1>1. /\ EvidenceSound(d) /\ OperationsSound(d) /\ ActiveSound(d) /\ Tables(d)
  BY DEF Sound, EvidenceSound
<1>2. previous \in PI!ActiveOf(d, cmd.guest)
  OBVIOUS
<1> HIDE DEF previous
<1>3. /\ previous \in d.records /\ previous = PI!Latest(d, previous.series)
      /\ previous.life = "active" /\ RecordTyped(previous)
      /\ previous.series \in PI!StoredSeries(d)
      /\ previous.series.guest = cmd.guest
      /\ \A x \in PI!ActiveRecords(d) : x.series.guest = cmd.guest => x = previous
  BY <1>1, <1>2, ActiveIs DEF PI!ActiveOf, ActiveSound, PI!OneActivePerGuest
<1>4. s \notin PI!StoredSeries(d) /\ s # previous.series
  BY <1>3 DEF PI!FirstBinding, PI!History, PI!StoredSeries
<1>5. FollowsOn(d, old) /\ FollowsOn(d, new)
  BY <1>1, <1>3, NextRow DEF PI!FirstBinding, RecordTyped
<1>6. /\ old.series = previous.series /\ old.life = "superseded"
      /\ old.value = previous.value /\ EventOf(old) = "superseded"
      /\ new.series = s /\ new.version = 1 /\ new.life = "active"
      /\ new.value = cmd.value /\ EventOf(new) = "created"
      /\ s.guest = cmd.guest /\ s.print = cmd.print
  BY <1>3 DEF PI!Record, PI!NextVersion, EventOf, PI!Series, RecordTyped
<1> HIDE DEF old, new, s
<1> DEFINE qOld == [id |-> PI!IdSupersede(cmd.id), digest |-> cmd,
                    outcome |-> "superseded", record |-> old]
           qNew == [id |-> PI!IdActivate(cmd.id), digest |-> cmd,
                    outcome |-> "created", record |-> new]
           aOld == AuditOf(old, PI!IdSupersede(cmd.id), cmd)
           aNew == AuditOf(new, PI!IdActivate(cmd.id), cmd)
<1>7. /\ Tables(d1) /\ d1.schema = "p3" /\ d1.records = d.records \cup {old}
      /\ d1.audit = d.audit \cup {aOld} /\ d1.requests = d.requests \cup {qOld}
      /\ d1.active = d.active /\ d1.operations = d.operations
      /\ d1.opAudit = d.opAudit
  BY <1>1, <1>6, PersistedTables DEF AuditOf
<1> HIDE DEF d1
<1>8. /\ Tables(d2) /\ d2.schema = "p3" /\ d2.records = d1.records \cup {new}
      /\ d2.audit = d1.audit \cup {aNew} /\ d2.requests = d1.requests \cup {qNew}
      /\ d2.active = d.active /\ d2.operations = d.operations
      /\ d2.opAudit = d.opAudit
  BY <1>6, <1>7, PersistedTables DEF AuditOf
<1> HIDE DEF d2
<1>9. /\ Tables(d3) /\ d3.schema = "p3" /\ d3.records = d2.records
      /\ d3.audit = d2.audit /\ d3.requests = d2.requests
      /\ d3.active = {a \in d2.active : a.series # previous.series}
      /\ d3.operations = d.operations /\ d3.opAudit = d.opAudit
  BY <1>8, WithoutActiveTables
<1> HIDE DEF d3
<1>10. /\ Tables(d4) /\ d4.schema = "p3" /\ d4.records = d2.records
       /\ d4.audit = d2.audit /\ d4.requests = d2.requests
       /\ d4.active = {a \in d3.active : a.series # new.series} \cup {PI!ActiveRow(new)}
       /\ d4.operations = d.operations /\ d4.opAudit = d.opAudit
  <2>1. /\ Tables(d4) /\ d4.schema = d3.schema /\ d4.records = d3.records
        /\ d4.audit = d3.audit /\ d4.requests = d3.requests
        /\ d4.active = {a \in d3.active : a.series # new.series} \cup {PI!ActiveRow(new)}
        /\ d4.operations = d3.operations /\ d4.opAudit = d3.opAudit
    <3>1. Tables(d3)
      BY <1>9
    <3> HIDE DEF new
    <3> QED
      BY <3>1, WithActiveTables
  <2> QED
    BY <1>9, <2>1
<1> HIDE DEF d4
<1>11. /\ Tables(d5) /\ d5.schema = "p3" /\ d5.records = d2.records
       /\ d5.audit = d2.audit /\ d5.requests = d2.requests /\ d5.active = d4.active
       /\ d5.operations = d.operations \cup
             {[id |-> cmd.id, command |-> cmd, outcome |-> "rebound", version |-> 1]}
       /\ d5.opAudit = d.opAudit \cup E
  BY <1>10, OperationTables
<1> HIDE DEF d5, E
<1> DEFINE N == {old, new}
           aud == [x \in N |-> IF x = old THEN aOld ELSE aNew]
<1>12. old # new
  BY <1>6
<1>13. aud[old] = aOld /\ aud[new] = aNew
  BY <1>12
<1>14. /\ aOld.series = old.series /\ aOld.version = old.version
       /\ aOld.event = EventOf(old) /\ aOld.request = PI!IdSupersede(cmd.id)
       /\ aOld.digest = cmd
       /\ aNew.series = new.series /\ aNew.version = new.version
       /\ aNew.event = EventOf(new) /\ aNew.request = PI!IdActivate(cmd.id)
       /\ aNew.digest = cmd
  BY DEF AuditOf
<1>15. /\ qOld.id = PI!IdSupersede(cmd.id) /\ qOld.digest = cmd
       /\ qOld.outcome = EventOf(old) /\ qOld.record = old
       /\ qNew.id = PI!IdActivate(cmd.id) /\ qNew.digest = cmd
       /\ qNew.outcome = EventOf(new) /\ qNew.record = new
  BY <1>6
<1> HIDE DEF aud, aOld, aNew, qOld, qNew
<1>16. /\ d5.records = d.records \cup N
       /\ d5.audit = d.audit \cup {aud[x] : x \in N}
       /\ d5.requests = d.requests \cup {qOld, qNew}
  BY <1>7, <1>8, <1>11, <1>13
<1>17. Appends(d, d5, N, aud)
  <2>1. Audited(d5, old, aud[old]) /\ Audited(d5, new, aud[new])
    BY <1>13, <1>14, <1>15, <1>16 DEF Audited
  <2>2. Accounted(qOld, N, aud) /\ Accounted(qNew, N, aud)
    BY <1>13, <1>14, <1>15, RequestIds DEF Accounted, NotSource
  <2>3. \A x, y \in N : x.series = y.series => x = y
    BY <1>4, <1>6
  <2> QED
    BY <1>5, <1>16, <2>1, <2>2, <2>3 DEF Appends
<1>18. EvidenceSound(d5)
  BY <1>1, <1>11, <1>17, AppendSound
<1>19. ActiveSound(d5)
  <2>1. {q \in N : q.life = "active"} = {new}
    BY <1>6
  <2>2. d5.active = {a \in d.active : \A q \in N : q.series # a.series}
                      \cup {PI!ActiveRow(x) : x \in {q \in N : q.life = "active"}}
    <3>1. d5.active = {a \in d.active : a.series # old.series /\ a.series # new.series}
                        \cup {PI!ActiveRow(new)}
      BY <1>6, <1>8, <1>9, <1>10, <1>11
    <3> QED
      BY <3>1, <2>1
  <2>3. \A x \in N, y \in PI!ActiveRecords(d) :
           x.life = "active" /\ y.series.guest = x.series.guest =>
              \E q \in N : q.series = y.series
    BY <1>3, <1>6
  <2>4. \A x, y \in N : /\ x.life = "active" /\ y.life = "active"
                        /\ x.series.guest = y.series.guest
                        => x = y
    <3>1. \A x \in N : x.life = "active" => x = new
      BY <2>1
    <3> HIDE DEF N
    <3> QED
      BY <3>1
  <2> HIDE DEF N
  <2> QED
    BY <1>1, <1>17, <2>2, <2>3, <2>4, ActiveSoundAfter
<1>20. OperationsSound(d5)
  <2> DEFINE eOld == [request |-> cmd.id, record |-> old, event |-> "superseded"]
             eNew == [request |-> cmd.id, record |-> new, event |-> "rebound"]
  <2>1. E = {eOld, eNew}
    BY DEF E
  <2>2. /\ eOld.request = cmd.id /\ eOld.record = old /\ eOld.event = "superseded"
        /\ eNew.request = cmd.id /\ eNew.record = new /\ eNew.event = "rebound"
    OBVIOUS
  <2> HIDE DEF eOld, eNew
  <2>3. /\ E # {} /\ {e.event : e \in E} = {"superseded", "rebound"}
        /\ \A e \in E : e.request = cmd.id /\ e.record \in {old, new}
    BY <2>1, <2>2
  <2>4. \A x, y : x # y => Cardinality({x, y}) = 2
    <3>1. SUFFICES ASSUME NEW x, NEW y, x # y PROVE Cardinality({x, y}) = 2
      OBVIOUS
    <3>2. IsFiniteSet({x}) /\ Cardinality({x}) = 1
      BY FS_Singleton
    <3>3. {x, y} = {x} \cup {y}
      OBVIOUS
    <3>4. y \notin {x}
      BY <3>1
    <3>5. Cardinality({x} \cup {y}) = Cardinality({x}) + 1
      BY <3>2, <3>4, FS_AddElement
    <3> QED
      BY <3>2, <3>3, <3>5
  <2>5. Cardinality(E) = Cardinality({"superseded", "rebound"})
    BY <2>1, <2>2, <2>4
  <2>6. old \in d5.records /\ new \in d5.records /\ d.records \subseteq d5.records
    BY <1>16
  <2>7. AddsOperation(d, d5, cmd, "rebound", 1, E)
    BY <1>6, <1>11, <2>3, <2>5, <2>6 DEF AddsOperation, s
  <2> QED
    BY <1>1, <2>7, OperationsSoundAfter
<1>21. Grew(d, d5, {Asks(cmd)})
  <2>1. <<new.series.guest, new.series.print, new.value>> = Asks(cmd)
    BY <1>6 DEF Asks
  <2>2. \E q \in d.records : q.series = old.series /\ q.value = old.value
    BY <1>3, <1>6
  <2> QED
    BY <1>11, <1>16, <2>1, <2>2 DEF Grew
<1> QED
  BY <1>0, <1>11, <1>18, <1>19, <1>20, <1>21 DEF Sound

\* put writes the next row of a series, the only active one of its guest.
LEMMA PutSound ==
    ASSUME NEW d, Sound(d), d.schema = "p3", NEW r, FollowsOn(d, r), r.life = "active",
           NEW rid, NEW digest,
           \A x \in PI!ActiveRecords(d) :
              x.series.guest = r.series.guest => x.series = r.series
    PROVE  LET e == PI!WithActive(PI!Persisted(d, r, PI!Id(rid), digest, EventOf(r)), r)
           IN  /\ Sound(e)
               /\ Grew(d, e, {<<r.series.guest, r.series.print, r.value>>})
<1> DEFINE d1 == PI!Persisted(d, r, PI!Id(rid), digest, EventOf(r))
           d2 == PI!WithActive(d1, r)
<1>1. /\ EvidenceSound(d) /\ OperationsSound(d) /\ ActiveSound(d) /\ Tables(d)
  BY DEF Sound, EvidenceSound
<1>2. /\ Tables(d1) /\ d1.schema = "p3" /\ d1.records = d.records \cup {r}
      /\ d1.audit = d.audit \cup {AuditOf(r, PI!Id(rid), digest)}
      /\ d1.requests = d.requests \cup
            {[id |-> PI!Id(rid), digest |-> digest, outcome |-> EventOf(r), record |-> r]}
      /\ d1.active = d.active /\ d1.operations = d.operations
      /\ d1.opAudit = d.opAudit
  BY <1>1, PersistedTables DEF AuditOf
<1> HIDE DEF d1
<1>3. /\ Tables(d2) /\ d2.schema = d1.schema /\ d2.records = d1.records
      /\ d2.audit = d1.audit /\ d2.requests = d1.requests
      /\ d2.active = {a \in d1.active : a.series # r.series} \cup {PI!ActiveRow(r)}
      /\ d2.operations = d1.operations /\ d2.opAudit = d1.opAudit
  BY <1>2, WithActiveTables
<1> HIDE DEF d2
<1>4. EvidenceSound(d2) /\ ActiveSound(d2)
  BY <1>1, <1>2, <1>3, RequestIds, OneRowSound
<1>5. OperationsSound(d2)
  BY <1>1, <1>2, <1>3, OperationsKept
<1>6. Grew(d, d2, {<<r.series.guest, r.series.print, r.value>>})
  BY <1>2, <1>3 DEF Grew
<1> QED
  BY <1>2, <1>3, <1>4, <1>5, <1>6 DEF Sound, d1, d2

\* supersede ends a series.
LEMMA SupersedeSound ==
    ASSUME NEW d, Sound(d), d.schema = "p3", NEW r, FollowsOn(d, r),
           r.life = "superseded", r.version # 1,
           \E q \in d.records : q.series = r.series /\ q.value = r.value,
           NEW rid, NEW digest
    PROVE  LET e == PI!WithoutActive(PI!Persisted(d, r, PI!Id(rid), digest, "superseded"), r.series)
           IN  Sound(e) /\ Grew(d, e, {})
<1> DEFINE d1 == PI!Persisted(d, r, PI!Id(rid), digest, "superseded")
           d2 == PI!WithoutActive(d1, r.series)
<1>0. EventOf(r) = "superseded"
  BY DEF EventOf
<1>1. /\ EvidenceSound(d) /\ OperationsSound(d) /\ ActiveSound(d) /\ Tables(d)
  BY DEF Sound, EvidenceSound
<1>2. /\ Tables(d1) /\ d1.schema = "p3" /\ d1.records = d.records \cup {r}
      /\ d1.audit = d.audit \cup {AuditOf(r, PI!Id(rid), digest)}
      /\ d1.requests = d.requests \cup
            {[id |-> PI!Id(rid), digest |-> digest, outcome |-> EventOf(r), record |-> r]}
      /\ d1.active = d.active /\ d1.operations = d.operations
      /\ d1.opAudit = d.opAudit
  BY <1>0, <1>1, PersistedTables DEF AuditOf
<1> HIDE DEF d1
<1>3. /\ Tables(d2) /\ d2.schema = d1.schema /\ d2.records = d1.records
      /\ d2.audit = d1.audit /\ d2.requests = d1.requests
      /\ d2.active = {a \in d1.active : a.series # r.series}
      /\ d2.operations = d1.operations /\ d2.opAudit = d1.opAudit
  BY <1>2, WithoutActiveTables
<1> HIDE DEF d2
<1>4. EvidenceSound(d2) /\ ActiveSound(d2)
  BY <1>1, <1>2, <1>3, RequestIds, OneRowSound
<1>5. OperationsSound(d2)
  BY <1>1, <1>2, <1>3, OperationsKept
<1>6. Grew(d, d2, {})
  BY <1>2, <1>3 DEF Grew
<1> QED
  BY <1>2, <1>3, <1>4, <1>5, <1>6 DEF Sound, d1, d2

----------------------------------------------------------------------------
(* Import, migration, and the stores found at first.                       *)

\* A store of any schema is sound when it is made.
LEMMA EmptySound ==
    ASSUME NEW schema \in {"absent", "p2c", "p3"}
    PROVE  Sound(PI!EmptyStore(schema)) /\ PI!EmptyStore(schema).schema = schema
<1> DEFINE d == PI!EmptyStore(schema)
<1>1. /\ d.schema = schema /\ d.records = {} /\ d.audit = {} /\ d.requests = {}
      /\ d.active = {} /\ d.operations = {} /\ d.opAudit = {} /\ Tables(d)
  BY DEF PI!EmptyStore, Tables
<1>2. schema = "absent" => d = PI!EmptyStore("absent")
  OBVIOUS
<1> HIDE DEF d
<1>3. PI!StoredSeries(d) = {}
  BY <1>1 DEF PI!StoredSeries
<1>4. EvidenceSound(d)
  BY <1>1, <1>3
  DEF EvidenceSound, VersionsUnique, AuditOfRecords, HistoriesFinite, PI!RequestsValid,
      OnlyActiveContinues, SourcesKept
<1>5. PI!ActiveRecords(d) = {}
  BY <1>3 DEF PI!ActiveRecords, PI!Current
<1>6. ActiveSound(d)
  BY <1>1, <1>5 DEF ActiveSound, PI!OneActivePerGuest
<1>7. OperationsSound(d)
  BY <1>1 DEF OperationsSound
<1> QED
  BY <1>1, <1>2, <1>4, <1>6, <1>7 DEF Sound, d

\* The rows of an import, one per entry, and what it makes of the tables.
ImportedRow(d, p, g) ==
    PI!Record(PI!Series(g, None), Cardinality(PI!History(d, PI!Series(g, None))) + 1,
              "legacy_unbound", p[g])

\* What import_legacy_policy makes of the tables: a row for each entry of the file.
LEMMA ImportedTables ==
    ASSUME NEW d, EvidenceSound(d), NEW p \in Policies
    PROVE  LET e == PI!Imported(d, p)
           IN  /\ Tables(e) /\ e.schema = d.schema /\ e.active = d.active
               /\ e.operations = d.operations /\ e.opAudit = d.opAudit
               /\ e.records = d.records \cup {ImportedRow(d, p, g) : g \in DOMAIN p}
               /\ e.audit = d.audit \cup
                     {AuditOf(ImportedRow(d, p, g), PI!IdSource(p, g), PI!IdSource(p, g)) :
                        g \in DOMAIN p}
               /\ e.requests = d.requests \cup
                     {[id |-> PI!IdSource(p, g), digest |-> PI!IdSource(p, g),
                       outcome |-> EventOf(ImportedRow(d, p, g)),
                       record |-> ImportedRow(d, p, g)] : g \in DOMAIN p}
                     \cup {[id |-> PI!IdImport(p), digest |-> p,
                            outcome |-> "imported", record |-> None]}
<1> DEFINE r == [g \in DOMAIN p |-> ImportedRow(d, p, g)]
           event == [g \in DOMAIN p |->
                       IF r[g].version = 1 THEN "created" ELSE "updated"]
           x == d.records \cup {r[g] : g \in DOMAIN p}
           y == d.audit \cup
                  {[series |-> r[g].series, version |-> r[g].version,
                    request |-> PI!IdSource(p, g), digest |-> PI!IdSource(p, g),
                    event |-> event[g]] : g \in DOMAIN p}
           z == d.requests \cup
                  {[id |-> PI!IdSource(p, g), digest |-> PI!IdSource(p, g),
                    outcome |-> event[g], record |-> r[g]] : g \in DOMAIN p}
                  \cup {[id |-> PI!IdImport(p), digest |-> p,
                         outcome |-> "imported", record |-> None]}
           e == PI!Imported(d, p)
<1>1. e = WithRows(d, x, y, z)
  BY SameCount DEF PI!Imported, ImportedRow, WithRows
<1>2. \A g \in DOMAIN p : r[g] = ImportedRow(d, p, g)
                          /\ event[g] = EventOf(ImportedRow(d, p, g))
  BY DEF EventOf, ImportedRow, PI!Record
<1>3. /\ x = d.records \cup {ImportedRow(d, p, g) : g \in DOMAIN p}
      /\ y = d.audit \cup
               {AuditOf(ImportedRow(d, p, g), PI!IdSource(p, g), PI!IdSource(p, g)) :
                  g \in DOMAIN p}
      /\ z = d.requests \cup
               {[id |-> PI!IdSource(p, g), digest |-> PI!IdSource(p, g),
                 outcome |-> EventOf(ImportedRow(d, p, g)),
                 record |-> ImportedRow(d, p, g)] : g \in DOMAIN p}
               \cup {[id |-> PI!IdImport(p), digest |-> p,
                      outcome |-> "imported", record |-> None]}
  <2> HIDE DEF r, event
  <2> QED
    BY <1>2 DEF AuditOf
<1> HIDE DEF e, x, y, z
<1>4. e = [schema |-> d.schema, records |-> x, audit |-> y, requests |-> z,
           active |-> d.active, operations |-> d.operations, opAudit |-> d.opAudit]
  BY <1>1, UpdateRows DEF EvidenceSound
<1>5. /\ Tables(e) /\ e.schema = d.schema /\ e.records = x /\ e.audit = y
      /\ e.requests = z /\ e.active = d.active /\ e.operations = d.operations
      /\ e.opAudit = d.opAudit
  BY <1>4 DEF Tables
<1> QED
  BY <1>3, <1>5 DEF e

\* The row of an entry follows the legacy evidence of its guest.
LEMMA ImportedRowFacts ==
    ASSUME NEW d, EvidenceSound(d), NEW p \in Policies, NEW g \in DOMAIN p
    PROVE  LET r == ImportedRow(d, p, g)
           IN  /\ FollowsOn(d, r) /\ r.series = PI!Series(g, None)
               /\ r.series.guest = g /\ r.series.print = None
               /\ r.life = "legacy_unbound" /\ r.value = p[g]
<1> DEFINE r == ImportedRow(d, p, g)
           s == PI!Series(g, None)
           n == Cardinality(PI!History(d, s))
<1>1. /\ r = PI!Record(s, n + 1, "legacy_unbound", p[g])
      /\ r.series = s /\ r.version = n + 1 /\ r.life = "legacy_unbound"
      /\ r.value = p[g] /\ s.guest = g /\ s.print = None
  BY DEF ImportedRow, PI!Record, PI!Series
<1>2. g \in Guests /\ p[g] \in Values
  BY IntentsHold DEF PI!IntentsAssumption
<1>3. n \in Nat
  <2>1. CASE s \in PI!StoredSeries(d)
    BY <2>1, LatestFacts
  <2>2. CASE s \notin PI!StoredSeries(d)
    BY <2>2, NoHistory
  <2> QED
    BY <2>1, <2>2
<1>4. RecordTyped(r)
  BY <1>1, <1>2, <1>3 DEF RecordTyped, Lives, PI!Series, PI!Record
<1>5. s \in PI!StoredSeries(d) => PI!Latest(d, s).life # "superseded"
  BY <1>1, LatestFacts DEF EvidenceSound, RecordTyped
<1> HIDE DEF r, s, n
<1>6. FollowsOn(d, r)
  BY <1>1, <1>4, <1>5 DEF FollowsOn, n
<1> QED
  BY <1>1, <1>6 DEF r, s

\* import_legacy_policy appends to the legacy evidence of each guest.
LEMMA ImportedSound ==
    ASSUME NEW d, Sound(d), d.schema # "absent", NEW p \in Policies
    PROVE  /\ Sound(PI!Imported(d, p)) /\ Grew(d, PI!Imported(d, p), {})
           /\ PI!Imported(d, p).schema = d.schema
           /\ \A g \in DOMAIN p :
                 \E r \in PI!History(PI!Imported(d, p), PI!Series(g, None)) : r.value = p[g]
           /\ \A r \in PI!Imported(d, p).records \ d.records : r.series.print = None
<1> DEFINE e == PI!Imported(d, p)
           row == [g \in DOMAIN p |-> ImportedRow(d, p, g)]
           N == {row[g] : g \in DOMAIN p}
           audit == [g \in DOMAIN p |-> AuditOf(row[g], PI!IdSource(p, g), PI!IdSource(p, g))]
           aud == [x \in N |-> audit[x.series.guest]]
           request == [g \in DOMAIN p |->
                         [id |-> PI!IdSource(p, g), digest |-> PI!IdSource(p, g),
                          outcome |-> EventOf(row[g]), record |-> row[g]]]
           done == [id |-> PI!IdImport(p), digest |-> p, outcome |-> "imported",
                    record |-> None]
<1>1. /\ EvidenceSound(d) /\ OperationsSound(d)
  BY DEF Sound
<1>2. /\ Tables(e) /\ e.schema = d.schema /\ e.active = d.active
      /\ e.operations = d.operations /\ e.opAudit = d.opAudit
      /\ e.records = d.records \cup N
      /\ e.audit = d.audit \cup {audit[g] : g \in DOMAIN p}
      /\ e.requests = d.requests \cup {request[g] : g \in DOMAIN p} \cup {done}
  BY <1>1, ImportedTables
<1> HIDE DEF e
<1>3. \A g \in DOMAIN p : /\ FollowsOn(d, row[g]) /\ row[g].series = PI!Series(g, None)
                          /\ row[g].series.guest = g /\ row[g].series.print = None
                          /\ row[g].life = "legacy_unbound" /\ row[g].value = p[g]
  BY <1>1, ImportedRowFacts
<1>4. \A g \in DOMAIN p :
         /\ request[g].id = PI!IdSource(p, g) /\ request[g].digest = PI!IdSource(p, g)
         /\ request[g].outcome = EventOf(row[g]) /\ request[g].record = row[g]
         /\ audit[g].series = row[g].series /\ audit[g].version = row[g].version
         /\ audit[g].event = EventOf(row[g])
         /\ audit[g].request = PI!IdSource(p, g) /\ audit[g].digest = PI!IdSource(p, g)
  BY DEF AuditOf
<1>5. done.id = PI!IdImport(p) /\ done.outcome = "imported" /\ done.digest = p
  OBVIOUS
<1> HIDE DEF row, audit, request, done
<1>6. \A g \in DOMAIN p : row[g] \in N /\ aud[row[g]] = audit[g]
  <2>1. \A g \in DOMAIN p : row[g] \in N
    OBVIOUS
  <2>2. \A w \in N : aud[w] = audit[w.series.guest]
    OBVIOUS
  <2> HIDE DEF aud, N
  <2> QED
    BY <1>3, <2>1, <2>2
<1>7. {aud[x] : x \in N} = {audit[g] : g \in DOMAIN p}
  <2>1. \A x \in N : \E g \in DOMAIN p : aud[x] = audit[g]
    <3> HIDE DEF aud
    <3> QED
      BY <1>6
  <2> HIDE DEF aud
  <2> QED
    BY <1>6, <2>1
<1> HIDE DEF aud
<1>8. \A g \in DOMAIN p : Audited(e, row[g], aud[row[g]])
  <2>1. SUFFICES ASSUME NEW g \in DOMAIN p PROVE Audited(e, row[g], aud[row[g]])
    OBVIOUS
  <2>2. request[g] \in e.requests
    BY <1>2
  <2> QED
    BY <1>4, <1>6, <2>2 DEF Audited
<1>9. \A q \in e.requests \ d.requests : Accounted(q, N, aud)
  <2>1. ASSUME NEW g \in DOMAIN p PROVE Accounted(request[g], N, aud)
    <3>1. aud[row[g]].request = request[g].id /\ row[g] \in N
      BY <1>4, <1>6
    <3>2. ASSUME NEW p2 \in Policies, NEW g2 \in DOMAIN p2,
                 request[g].id = PI!IdSource(p2, g2)
          PROVE  row[g].series = PI!Series(g2, None) /\ row[g].value = p2[g2]
      <4>1. p2 = p /\ g2 = g
        BY <1>4, <3>2 DEF PI!IdSource
      <4> QED
        BY <1>3, <4>1
    <3> QED
      BY <3>1, <3>2 DEF Accounted
  <2>2. Accounted(done, N, aud)
    <3>1. \A p2 \in Policies : \A g2 \in DOMAIN p2 : g2 # "import"
      BY IntentsHold DEF PI!IntentsAssumption
    <3> QED
      BY <1>5, <3>1 DEF Accounted, PI!IdImport, PI!IdSource
  <2>3. \A q \in e.requests \ d.requests :
           q = done \/ \E g \in DOMAIN p : q = request[g]
    BY <1>2
  <2> HIDE DEF N
  <2> QED
    BY <2>1, <2>2, <2>3
<1>10. Appends(d, e, N, aud)
  <2>1. \A x, y \in N : x.series = y.series => x = y
    <3>1. SUFFICES ASSUME NEW g \in DOMAIN p, NEW h \in DOMAIN p,
                          row[g].series = row[h].series
                   PROVE  row[g] = row[h]
      OBVIOUS
    <3> QED
      BY <1>3, <3>1
  <2>2. \A x \in N : FollowsOn(d, x) /\ Audited(e, x, aud[x])
    BY <1>3, <1>8
  <2> QED
    BY <1>2, <1>7, <1>9, <2>1, <2>2 DEF Appends
<1>11. EvidenceSound(e)
  BY <1>1, <1>2, <1>10, AppendSound
<1>12. \A x \in N : x.series.print = None /\ x.life = "legacy_unbound"
  BY <1>3
<1>13. d.schema = "p3" => ActiveSound(e)
  <2>1. SUFFICES ASSUME d.schema = "p3" PROVE ActiveSound(e)
    OBVIOUS
  <2>2. ActiveSound(d)
    BY <2>1 DEF Sound
  <2>3. \A a \in d.active : a.series.print # None
    BY <1>1, <2>2, ActiveIs, IntentsHold
    DEF PI!IntentsAssumption, ActiveSound, PI!ActiveRow
  <2>4. {q \in N : q.life = "active"} = {}
    BY <1>12
  <2>5. {a \in d.active : \A q \in N : q.series # a.series} = d.active
    BY <1>12, <2>3
  <2> HIDE DEF N
  <2>6. e.active = {a \in d.active : \A q \in N : q.series # a.series}
                      \cup {PI!ActiveRow(x) : x \in {q \in N : q.life = "active"}}
    BY <1>2, <2>4, <2>5
  <2>7. \A x \in N : x.life # "active"
    BY <1>12
  <2> QED
    BY <1>1, <1>10, <2>2, <2>6, <2>7, ActiveSoundAfter
<1>14. OperationsSound(e)
  BY <1>1, <1>2, OperationsKept
<1>15. Sound(e)
  BY <1>2, <1>11, <1>13, <1>14 DEF Sound
<1>16. Grew(d, e, {})
  BY <1>2, <1>12, IntentsHold DEF PI!IntentsAssumption, Grew
<1>17. \A g \in DOMAIN p : \E x \in PI!History(e, PI!Series(g, None)) : x.value = p[g]
  BY <1>2, <1>3, <1>6 DEF PI!History
<1>18. \A x \in e.records \ d.records : x.series.print = None
  BY <1>2, <1>12
<1> QED
  BY <1>2, <1>15, <1>16, <1>17, <1>18 DEF e

\* The active rows of a migrated store are made from its records.
LEMMA MigratedSound ==
    ASSUME NEW d, Sound(d), PI!P2cValid(d)
    PROVE  Sound(PI!Migrated(d)) /\ Grew(d, PI!Migrated(d), {})
<1> DEFINE e == PI!Migrated(d)
           y == {PI!ActiveRow(r) : r \in PI!ActiveRecords(d)}
<1>1. EvidenceSound(d) /\ OperationsSound(d) /\ PI!OneActivePerGuest(d)
  BY DEF Sound, PI!P2cValid
<1>2. e = [d EXCEPT !.schema = "p3", !.active = y]
  BY DEF PI!Migrated
<1> HIDE DEF e, y
<1>3. e = [schema |-> "p3", records |-> d.records, audit |-> d.audit,
           requests |-> d.requests, active |-> y, operations |-> d.operations,
           opAudit |-> d.opAudit]
  BY <1>1, <1>2, UpdateActive DEF EvidenceSound
<1>4. /\ Tables(e) /\ e.schema = "p3" /\ e.records = d.records /\ e.audit = d.audit
      /\ e.requests = d.requests /\ e.active = y /\ e.operations = d.operations
      /\ e.opAudit = d.opAudit
  BY <1>3 DEF Tables
<1>5. Appends(d, e, {}, <<>>)
  BY <1>4 DEF Appends
<1>6. EvidenceSound(e)
  BY <1>1, <1>4, <1>5, AppendSound
<1>7. PI!ActiveRecords(e) = PI!ActiveRecords(d)
  <2>1. PI!ActiveRecords(e) =
           {r \in PI!ActiveRecords(d) : \A q \in {} : q.series # r.series}
              \cup {r \in {} : r.life = "active"}
    BY <1>1, <1>5, ActiveAfter
  <2> QED
    BY <2>1
<1>8. ActiveSound(e)
  BY <1>1, <1>4, <1>7 DEF ActiveSound, PI!OneActivePerGuest, y
<1>9. OperationsSound(e)
  BY <1>1, <1>4, OperationsKept
<1>10. Grew(d, e, {})
  BY <1>4 DEF Grew
<1> QED
  BY <1>4, <1>6, <1>8, <1>9, <1>10 DEF Sound, e

\* A store of the schema before this one, with an active record of each of B.
LEMMA P2cStoreSound ==
    ASSUME NEW p \in Policies, NEW v \in Values,
           NEW B \in SUBSET {PI!Series(g, q) : g \in Guests, q \in Prints}
    PROVE  /\ Sound(PI!P2cStore(p, B, v)) /\ PI!P2cStore(p, B, v).schema = "p2c"
           /\ PI!P2cStore(p, B, v).operations = {}
           /\ \A r \in PI!P2cStore(p, B, v).records : r.series.print \in Prints =>
                 r.series \in B /\ r.value = v
<1> DEFINE d == PI!Imported(PI!EmptyStore("p2c"), p)
           e == PI!P2cStore(p, B, v)
           row == [b \in B |-> PI!Record(b, 1, "active", v)]
           N == {row[b] : b \in B}
           Tag(b) == <<b.guest, b.print>>
           audit == [b \in B |-> [series |-> b, version |-> 1, request |-> Tag(b),
                                  digest |-> Tag(b), event |-> "created"]]
           aud == [x \in N |-> audit[x.series]]
           request == [b \in B |-> [id |-> Tag(b), digest |-> Tag(b),
                                    outcome |-> "created", record |-> row[b]]]
           x == d.records \cup N
           y == d.audit \cup {audit[b] : b \in B}
           z == d.requests \cup {request[b] : b \in B}
<1>1. /\ Sound(PI!EmptyStore("p2c")) /\ PI!EmptyStore("p2c").schema = "p2c"
      /\ PI!EmptyStore("p2c").records = {} /\ PI!EmptyStore("p2c").operations = {}
      /\ PI!EmptyStore("p2c").opAudit = {} /\ PI!EmptyStore("p2c").active = {}
  BY EmptySound DEF PI!EmptyStore
<1>2. /\ Sound(d) /\ Tables(d) /\ d.schema = "p2c" /\ EvidenceSound(d) /\ OperationsSound(d)
      /\ d.active = {} /\ d.operations = {} /\ d.opAudit = {}
      /\ \A r \in d.records : r.series.print = None
  BY <1>1, ImportedSound DEF Sound, EvidenceSound
<1>3. \A b \in B : /\ row[b].series = b /\ row[b].version = 1
                   /\ row[b].life = "active" /\ row[b].value = v
                   /\ EventOf(row[b]) = "created"
                   /\ row[b] = PI!Record(b, 1, "active", v)
                   /\ b = PI!Series(b.guest, b.print)
                   /\ b.guest \in Guests /\ b.print \in Prints
  BY DEF PI!Record, EventOf, PI!Series
<1>4. \A b \in B :
         /\ request[b].id = Tag(b) /\ request[b].digest = Tag(b)
         /\ request[b].outcome = "created" /\ request[b].record = row[b]
         /\ audit[b].series = b /\ audit[b].version = 1
         /\ audit[b].event = "created"
         /\ audit[b].request = Tag(b) /\ audit[b].digest = Tag(b)
  BY <1>3
<1>5. e = WithRows(d, x, y, z)
  <2> DEFINE A == {[series |-> b, version |-> 1, request |-> <<b.guest, b.print>>,
                    digest |-> <<b.guest, b.print>>, event |-> "created"] : b \in B}
             Q == {[id |-> <<b.guest, b.print>>, digest |-> <<b.guest, b.print>>,
                    outcome |-> "created", record |-> row[b]] : b \in B}
  <2>1. {audit[b] : b \in B} = A /\ {request[b] : b \in B} = Q
    OBVIOUS
  <2>2. e = [d EXCEPT !.records = d.records \cup N, !.audit = d.audit \cup A,
                      !.requests = d.requests \cup Q]
    BY DEF PI!P2cStore
  <2>3. x = d.records \cup N /\ y = d.audit \cup A /\ z = d.requests \cup Q
    BY <2>1
  <2> HIDE DEF A, Q, d, e, N, x, y, z
  <2> QED
    BY <2>2, <2>3 DEF WithRows
<1> HIDE DEF d, e, row, audit, request
<1>6. e = [schema |-> d.schema, records |-> x, audit |-> y, requests |-> z,
           active |-> d.active, operations |-> d.operations, opAudit |-> d.opAudit]
  <2> HIDE DEF aud, N, x, y, z
  <2>1. Tables(d)
    BY <1>2
  <2> QED
    BY <1>5, <2>1, UpdateRows
<1>7. /\ Tables(e) /\ e.schema = "p2c" /\ e.records = x /\ e.audit = y
      /\ e.requests = z /\ e.active = {} /\ e.operations = {} /\ e.opAudit = {}
  BY <1>2, <1>6 DEF Tables
<1>8. \A b \in B : row[b] \in N /\ aud[row[b]] = audit[b]
  <2>1. \A b \in B : row[b] \in N
    OBVIOUS
  <2>2. \A w \in N : aud[w] = audit[w.series]
    OBVIOUS
  <2> HIDE DEF aud, N
  <2> QED
    BY <1>3, <2>1, <2>2
<1>9. {aud[w] : w \in N} = {audit[b] : b \in B}
  <2>1. \A w \in N : \E b \in B : aud[w] = audit[b]
    <3> HIDE DEF aud
    <3> QED
      BY <1>8
  <2> HIDE DEF aud
  <2> QED
    BY <1>8, <2>1
<1> HIDE DEF aud
<1>10. \A b \in B : FollowsOn(d, row[b]) /\ Audited(e, row[b], aud[row[b]])
  <2>1. SUFFICES ASSUME NEW b \in B
                 PROVE  FollowsOn(d, row[b]) /\ Audited(e, row[b], aud[row[b]])
    OBVIOUS
  <2>2. PI!History(d, b) = {}
    BY <1>2, <1>3, IntentsHold DEF PI!IntentsAssumption, PI!History
  <2>3. FollowsOn(d, row[b])
    BY <1>2, <1>3, <2>2, NextRow
  <2>4. request[b] \in e.requests
    BY <1>7
  <2> QED
    BY <1>3, <1>4, <1>8, <2>3, <2>4 DEF Audited
<1>11. \A q \in e.requests \ d.requests : Accounted(q, N, aud)
  <2>1. ASSUME NEW b \in B PROVE Accounted(request[b], N, aud)
    <3>1. aud[row[b]].request = request[b].id /\ row[b] \in N
      BY <1>4, <1>8
    <3>2. \A p2 \in Policies : \A g2 \in DOMAIN p2 : request[b].id # PI!IdSource(p2, g2)
      BY <1>3, <1>4, IntentsHold DEF PI!IntentsAssumption, PI!IdSource
    <3> QED
      BY <3>1, <3>2 DEF Accounted
  <2>2. \A q \in e.requests \ d.requests : \E b \in B : q = request[b]
    BY <1>7
  <2> HIDE DEF N
  <2> QED
    BY <2>1, <2>2
<1>12. Appends(d, e, N, aud)
  <2>1. \A w, u \in N : w.series = u.series => w = u
    BY <1>3
  <2>2. \A w \in N : FollowsOn(d, w) /\ Audited(e, w, aud[w])
    BY <1>10
  <2>3. /\ e.records = d.records \cup N
        /\ e.audit = d.audit \cup {aud[w] : w \in N}
        /\ d.requests \subseteq e.requests
    BY <1>7, <1>9
  <2> HIDE DEF N, x, y, z
  <2> QED
    BY <1>11, <2>1, <2>2, <2>3 DEF Appends
<1>13. EvidenceSound(e)
  BY <1>2, <1>7, <1>12, AppendSound
<1>14. OperationsSound(e)
  BY <1>7 DEF OperationsSound
<1>15. \A r \in e.records : r.series.print \in Prints => r.series \in B /\ r.value = v
  BY <1>2, <1>3, <1>7, IntentsHold DEF PI!IntentsAssumption
<1> QED
  BY <1>7, <1>13, <1>14, <1>15 DEF Sound, e

----------------------------------------------------------------------------
(* The steps.                                                              *)

\* The setting of a behaviour is within the sets of the specification.
LEMMA SettingFacts ==
    ASSUME scope \in IntentSettings
    PROVE  /\ scope.policies \subseteq Policies /\ scope.calls \subseteq Calls
           /\ \A cmd \in PI!Command : /\ cmd.guest \in Guests /\ cmd.print \in Prints
                                      /\ cmd.value \in Values
<1>1. /\ scope.policies \subseteq Policies /\ scope.calls \subseteq Calls
  BY IntentsHold DEF PI!IntentsAssumption
<1> QED
  BY <1>1 DEF PI!Command

\* One request that is served moves on, the others stay as they are.
Serves(c, k) ==
    /\ DOMAIN served' = Calls /\ served'[c] = k
    /\ \A x \in Calls : x # c => served'[x] = served[x]

\* A request that is served moves on: what the others know is kept.
LEMMA Served ==
    ASSUME WorldInv, PI!ConfiguredWasAsked, UNCHANGED scope, asked \subseteq asked',
           NEW c \in Calls, NEW k, ServedTyped(k),
           k.pc = "idle" => k.listed = None, Serves(c, k)
    PROVE  /\ DOMAIN served' = Calls
           /\ (\A x \in Calls : ServedTyped(served[x]))'
           /\ PI!ConfiguredWasAsked'
<1>1. /\ DOMAIN served' = Calls /\ served'[c] = k
      /\ \A x \in Calls : x # c => served'[x] = served[x]
  BY DEF Serves
<1>2. \A x \in Calls : ServedTyped(served'[x])
  BY <1>1 DEF WorldInv
<1>3. (\A x \in Calls : ServedTyped(served[x]))'
  BY <1>2 DEF ServedTyped, PI!Command
<1>4. ASSUME NEW x \in Calls, served'[x].pc = "idle", served'[x].listed # None,
             NEW g \in Guests, served'[x].answer[g].status = "configured"
      PROVE  <<g, served'[x].listed[g], served'[x].answer[g].value>> \in asked'
  <2>1. x # c
    BY <1>1, <1>4
  <2>2. served'[x] = served[x]
    BY <1>1, <2>1
  <2> QED
    BY <1>4, <2>2 DEF PI!ConfiguredWasAsked, PI!At
<1> QED
  BY <1>1, <1>3, <1>4 DEF PI!ConfiguredWasAsked, PI!At

\* A call that has nothing to do is typed, and so is one that starts.
LEMMA IdleTyped ==
    ServedTyped(PI!Idle) /\ PI!Idle.pc = "idle" /\ PI!Idle.listed = None
BY DEF ServedTyped, PI!Idle

\* A refusal, and an answer, free the request.
LEMMA AnswerServes ==
    ASSUME WorldInv, NEW c \in Calls, PI!Answer(c)
    PROVE  Serves(c, PI!Idle)
BY DEF Serves, WorldInv, PI!Answer

\* What is said of the store after a step is said of the next store.
LEMMA SoundNext ==
    ASSUME Sound(db')
    PROVE  Sound(db)'
BY DEF Sound, EvidenceSound, OperationsSound, ActiveSound, Tables, RecordTyped,
       VersionsUnique, AuditOfRecords, HistoriesFinite, OnlyActiveContinues,
       SourcesKept, Evidence, PI!OneActivePerGuest, PI!ActiveRecords, PI!Current,
       PI!StoredSeries, PI!Latest, PI!History, PI!HistoryValid, PI!RequestsValid,
       PI!OperationValid, PI!ActiveRow, PI!EmptyStore, PI!Record, PI!Series, Lives,
       PI!IdImport, PI!IdSource

\* A write that keeps the store sound and only adds what was asked keeps what is
\* said of the store and of the authority on it.
LEMMA Stored ==
    ASSUME IntentsInv, Sound(db'), NEW given, Grew(db, db', given),
           given \subseteq asked', asked \subseteq asked',
           UNCHANGED <<core, policy>>
    PROVE  Sound(db)' /\ StoredWasAsked' /\ PI!ActivatedIsImported'
<1>1. StoredWasAsked'
  <2>1. SUFFICES ASSUME NEW r \in db'.records, r.series.print \in Prints
                 PROVE  <<r.series.guest, r.series.print, r.value>> \in asked'
    BY DEF StoredWasAsked
  <2>2. CASE \E q \in db.records : q.series = r.series /\ q.value = r.value
    BY <2>1, <2>2 DEF IntentsInv, StoredWasAsked
  <2>3. CASE <<r.series.guest, r.series.print, r.value>> \in given
    BY <2>3
  <2> QED
    BY <2>1, <2>2, <2>3 DEF Grew
<1>2. PI!ActivatedIsImported'
  BY DEF IntentsInv, PI!ActivatedIsImported, PI!Activated, Grew, PI!History
<1>3. Sound(db)'
  BY SoundNext
<1> QED
  BY <1>1, <1>2, <1>3

\* The operation that a write adds is the one of its command.
LEMMA WrittenOperation ==
    ASSUME NEW d, Tables(d), NEW cmd, NEW verdict \in {"created", "updated", "rebound"}
    PROVE  \E n : [id |-> cmd.id, command |-> cmd, outcome |-> verdict, version |-> n]
                     \in PI!Written(d, cmd, verdict).operations
<1>1. CASE verdict = "created"
  <2> DEFINE r == PI!Record(PI!Series(cmd.guest, cmd.print), 1, "active", cmd.value)
             d1 == PI!Persisted(d, r, PI!Id(cmd.id), cmd, "created")
             d2 == PI!WithActive(d1, r)
             d3 == PI!Operation(d2, cmd, "created", 1, {<<r, "created">>})
  <2>1. Tables(d1)
    <3> HIDE DEF r
    <3> QED
      BY PersistedTables
  <2>2. Tables(d2)
    <3> HIDE DEF r, d1
    <3> QED
      BY <2>1, WithActiveTables
  <2>3. [id |-> cmd.id, command |-> cmd, outcome |-> "created", version |-> 1]
           \in d3.operations
    <3> HIDE DEF r, d2
    <3> QED
      BY <2>2, OperationTables
  <2>4. PI!Written(d, cmd, verdict) = d3
    BY <1>1 DEF PI!Written, PI!Created
  <2> HIDE DEF d3
  <2> QED
    BY <1>1, <2>3, <2>4
<1>2. CASE verdict = "updated"
  <2> DEFINE r == PI!NextVersion(PI!Latest(d, PI!Series(cmd.guest, cmd.print)), "active", cmd.value)
             d1 == PI!Persisted(d, r, PI!Id(cmd.id), cmd, "updated")
             d2 == PI!WithActive(d1, r)
             d3 == PI!Operation(d2, cmd, "updated", r.version, {<<r, "updated">>})
  <2>1. Tables(d1)
    <3> HIDE DEF r
    <3> QED
      BY PersistedTables
  <2>2. Tables(d2)
    <3> HIDE DEF r, d1
    <3> QED
      BY <2>1, WithActiveTables
  <2>3. [id |-> cmd.id, command |-> cmd, outcome |-> "updated", version |-> r.version]
           \in d3.operations
    <3> HIDE DEF r, d2
    <3> QED
      BY <2>2, OperationTables
  <2>4. PI!Written(d, cmd, verdict) = d3
    BY <1>2 DEF PI!Written, PI!Updated
  <2> HIDE DEF d3
  <2> QED
    BY <1>2, <2>3, <2>4
<1>3. CASE verdict = "rebound"
  <2> DEFINE previous == CHOOSE r \in PI!ActiveOf(d, cmd.guest) : TRUE
             old == PI!NextVersion(previous, "superseded", previous.value)
             new == PI!Record(PI!Series(cmd.guest, cmd.print), 1, "active", cmd.value)
             d1 == PI!Persisted(d, old, PI!IdSupersede(cmd.id), cmd, "superseded")
             d2 == PI!Persisted(d1, new, PI!IdActivate(cmd.id), cmd, "created")
             d3 == PI!WithoutActive(d2, previous.series)
             d4 == PI!WithActive(d3, new)
             d5 == PI!Operation(d4, cmd, "rebound", 1,
                                {<<old, "superseded">>, <<new, "rebound">>})
  <2>1. Tables(d1)
    <3> HIDE DEF old
    <3> QED
      BY PersistedTables
  <2>2. Tables(d2)
    <3> HIDE DEF new, d1
    <3> QED
      BY <2>1, PersistedTables
  <2>3. Tables(d3)
    <3> HIDE DEF d2, previous
    <3> QED
      BY <2>2, WithoutActiveTables
  <2>4. Tables(d4)
    <3> HIDE DEF d3, new
    <3> QED
      BY <2>3, WithActiveTables
  <2>5. [id |-> cmd.id, command |-> cmd, outcome |-> "rebound", version |-> 1]
           \in d5.operations
    <3> HIDE DEF d4, old, new
    <3> QED
      BY <2>4, OperationTables
  <2>6. PI!Written(d, cmd, verdict) = d5
    BY <1>3 DEF PI!Written, PI!Rebound
  <2> HIDE DEF d5
  <2> QED
    BY <1>3, <2>5, <2>6
<1> QED
  BY <1>1, <1>2, <1>3

\* Whatever a mutation is found to be, the store it leaves is sound.
LEMMA WrittenSound ==
    ASSUME NEW d, Sound(d), NEW cmd, cmd.guest \in Guests, cmd.print \in Prints,
           cmd.value \in Values, NEW seen,
           PI!Verdict(d, cmd, seen) \in {"created", "updated", "rebound"}
    PROVE  /\ Sound(PI!Written(d, cmd, PI!Verdict(d, cmd, seen)))
           /\ Grew(d, PI!Written(d, cmd, PI!Verdict(d, cmd, seen)), {Asks(cmd)})
<1> DEFINE rows == PI!ActiveOf(d, cmd.guest)
           bound == {r \in rows : r.series = PI!Series(cmd.guest, cmd.print)}
           verdict == PI!Verdict(d, cmd, seen)
<1>1. /\ PI!Replays(d, cmd) = {} /\ PI!P3Valid(d) /\ verdict = PI!Binding(d, cmd, rows)
  BY DEF PI!Verdict
<1>2. d.schema = "p3"
  BY <1>1 DEF PI!P3Valid
<1>3. CASE bound # {} /\ (\E r \in bound : r.version = cmd.expected)
  <2>1. verdict = "updated"
    BY <1>1, <1>3 DEF PI!Binding
  <2>2. PICK old \in bound : old.version = cmd.expected
    BY <1>3
  <2>3. old \in PI!ActiveOf(d, cmd.guest) /\ old.series = PI!Series(cmd.guest, cmd.print)
    BY <2>2
  <2>4. PI!Written(d, cmd, verdict) = PI!Updated(d, cmd)
    BY <2>1 DEF PI!Written
  <2> QED
    BY <1>1, <1>2, <2>3, <2>4, UpdatedSound
<1>4. CASE ~(bound # {} /\ (\E r \in bound : r.version = cmd.expected))
  <2>1. CASE rows = {} /\ PI!FirstBinding(d, cmd)
    <3>1. verdict = "created"
      BY <1>1, <1>4, <2>1 DEF PI!Binding
    <3>2. PI!Written(d, cmd, verdict) = PI!Created(d, cmd)
      BY <3>1 DEF PI!Written
    <3> QED
      BY <1>1, <1>2, <2>1, <3>2, CreatedSound
  <2>2. CASE rows # {} /\ bound = {} /\ PI!FirstBinding(d, cmd)
    <3>1. verdict = "rebound"
      BY <1>1, <1>4, <2>2 DEF PI!Binding
    <3>2. PI!Written(d, cmd, verdict) = PI!Rebound(d, cmd)
      BY <3>1 DEF PI!Written
    <3> QED
      BY <1>1, <1>2, <2>2, <3>2, ReboundSound
  <2>3. CASE ~(rows = {} /\ PI!FirstBinding(d, cmd))
             /\ ~(rows # {} /\ bound = {} /\ PI!FirstBinding(d, cmd))
    <3>1. verdict = "conflict"
      BY <1>1, <1>4, <2>3 DEF PI!Binding
    <3> QED
      BY <3>1
  <2> QED
    BY <2>1, <2>2, <2>3
<1> QED
  BY <1>3, <1>4

\* In a sound store each record of an incarnation is of one series and the
\* store's own validation finds nothing to refuse.
LEMMA SoundValid ==
    ASSUME NEW d, Sound(d), d.schema = "p3"
    PROVE  PI!P3Valid(d)
<1>1. EvidenceSound(d) /\ OperationsSound(d) /\ ActiveSound(d)
  BY DEF Sound
<1>2. {a.series : a \in d.audit} = PI!StoredSeries(d)
  <2>1. \A a \in d.audit : a.series \in PI!StoredSeries(d)
    BY <1>1 DEF EvidenceSound, AuditOfRecords, PI!StoredSeries
  <2>2. ASSUME NEW s \in PI!StoredSeries(d) PROVE \E a \in d.audit : a.series = s
    <3>1. PICK r \in d.records : r.series = s
      BY DEF PI!StoredSeries
    <3>2. PI!HistoryValid(d, s) /\ r \in PI!History(d, s)
      BY <1>1, <3>1 DEF EvidenceSound, PI!History
    <3> QED
      BY <3>2 DEF PI!HistoryValid
  <2> QED
    BY <2>1, <2>2
<1> QED
  BY <1>1, <1>2 DEF PI!P3Valid, EvidenceSound, OperationsSound, ActiveSound

\* What the reader takes for configured is a record of the incarnation it listed.
LEMMA Resolved ==
    ASSUME NEW d, EvidenceSound(d), NEW g, NEW p \in Prints \cup {None, Unknown},
           PI!Resolution(d, g, p).status = "configured"
    PROVE  \E r \in d.records : /\ r.series = PI!Series(g, p) /\ p \in Prints
                                /\ r.value = PI!Resolution(d, g, p).value
<1> DEFINE rows == PI!ActiveOf(d, g)
<1>0. None \notin Prints /\ Unknown \notin Prints /\ None # Unknown
  BY IntentsHold DEF PI!IntentsAssumption
<1>1. CASE p = None /\ rows # {}
  <2>1. PI!Resolution(d, g, p).status = "missing"
    BY <1>0, <1>1 DEF PI!Resolution
  <2> QED
    BY <2>1
<1>2. CASE p = None /\ rows = {}
  <2>1. PI!Resolution(d, g, p).status = "unlisted"
    BY <1>0, <1>2 DEF PI!Resolution
  <2> QED
    BY <2>1
<1>3. CASE p = Unknown
  <2>1. PI!Resolution(d, g, p).status = "identity_unavailable"
    BY <1>0, <1>3 DEF PI!Resolution
  <2> QED
    BY <2>1
<1>4. CASE p \in Prints /\ \E r \in rows : PI!Matches(r, g, p)
  <2> DEFINE r == CHOOSE x \in rows : PI!Matches(x, g, p)
  <2>1. r \in rows /\ PI!Matches(r, g, p)
    BY <1>4
  <2>2. PI!Resolution(d, g, p).value = r.value
    BY <1>0, <1>4 DEF PI!Resolution
  <2>3. r \in d.records
    <3>1. r \in PI!ActiveRecords(d)
      BY <2>1 DEF PI!ActiveOf
    <3> HIDE DEF r
    <3> QED
      BY <3>1, ActiveIs
  <2> HIDE DEF r
  <2> QED
    BY <1>4, <2>1, <2>2, <2>3 DEF PI!Matches
<1>5. CASE p \in Prints /\ \A r \in rows : ~PI!Matches(r, g, p)
  <2>1. PI!Resolution(d, g, p).status \in
           {"incarnation_mismatch", "legacy_unbound_evidence", "no_active_intent"}
    BY <1>0, <1>5 DEF PI!Resolution
  <2> QED
    BY <2>1
<1> QED
  BY <1>1, <1>2, <1>3, <1>4, <1>5

\* The state that the program starts in.
LEMMA IntentsInit == PI!Init => IntentsInv
<1> SUFFICES ASSUME PI!Init PROVE IntentsInv
  OBVIOUS
<1>1. scope \in IntentSettings /\ policy \in Policies /\ loaded = None
  BY SettingFacts DEF PI!Init
<1>2. WorldInv
  <2>1. asked \subseteq Guests \X Prints \X Values
    BY DEF PI!Init, PI!Series
  <2>2. core \in {"down", "legacy", "p2c", "p3"} /\ live \in [Guests -> Prints \cup {None}]
    BY DEF PI!Init
  <2>3. DOMAIN served = Calls /\ \A c \in Calls : served[c] = PI!Idle
    BY DEF PI!Init
  <2> QED
    BY <1>1, <2>1, <2>2, <2>3, IdleTyped DEF WorldInv
<1>3. PI!AnswerIsStored /\ PI!ConfiguredWasAsked
  <2>1. told = {} /\ \A c \in Calls : served[c].listed = None
    BY DEF PI!Init, PI!Idle
  <2> QED
    BY <2>1 DEF PI!AnswerIsStored, PI!ConfiguredWasAsked
<1>4. PICK schema \in scope.stores :
        \/ /\ schema = "absent"
           /\ db = PI!EmptyStore("absent") /\ core = "legacy" /\ asked = {}
        \/ /\ schema = "p3"
           /\ db = PI!Imported(PI!EmptyStore("p3"), policy)
           /\ core = "p3" /\ asked = {}
        \/ /\ schema = "p2c"
           /\ \E B \in SUBSET {PI!Series(g, p) : g \in Guests, p \in Prints},
                 v \in Values :
                 /\ db = PI!P2cStore(policy, B, v)
                 /\ asked = {<<b.guest, b.print, v>> : b \in B}
           /\ core = "down"
  BY DEF PI!Init
<1>5. CASE db = PI!EmptyStore("absent") /\ core = "legacy"
  <2>1. Sound(db)
    BY <1>5, EmptySound
  <2>2. db.records = {}
    BY <1>5 DEF PI!EmptyStore
  <2> QED
    BY <1>2, <1>3, <1>5, <2>1, <2>2
    DEF IntentsInv, StoredWasAsked, PI!ActivatedIsImported, PI!Activated
<1>6. CASE db = PI!Imported(PI!EmptyStore("p3"), policy)
  <2>1. Sound(PI!EmptyStore("p3")) /\ PI!EmptyStore("p3").schema = "p3"
    BY EmptySound
  <2>2. PI!EmptyStore("p3").records = {}
    BY DEF PI!EmptyStore
  <2>3. /\ Sound(db)
        /\ \A g \in DOMAIN policy :
              \E r \in PI!History(db, PI!Series(g, None)) : r.value = policy[g]
        /\ \A r \in db.records : r.series.print = None
    BY <1>1, <1>6, <2>1, <2>2, ImportedSound
  <2> QED
    BY <1>2, <1>3, <2>3, IntentsHold
    DEF PI!IntentsAssumption, IntentsInv, StoredWasAsked, PI!ActivatedIsImported
<1>7. ASSUME NEW B \in SUBSET {PI!Series(g, p) : g \in Guests, p \in Prints},
             NEW v \in Values, core = "down",
             db = PI!P2cStore(policy, B, v), asked = {<<b.guest, b.print, v>> : b \in B}
      PROVE  IntentsInv
  <2>1. /\ Sound(db)
        /\ \A r \in db.records : r.series.print \in Prints => r.series \in B /\ r.value = v
    BY <1>1, <1>7, P2cStoreSound
  <2>2. StoredWasAsked
    BY <1>7, <2>1 DEF StoredWasAsked
  <2> QED
    BY <1>2, <1>3, <1>7, <2>1, <2>2 DEF IntentsInv, PI!ActivatedIsImported, PI!Activated
<1> QED
  BY <1>4, <1>5, <1>6, <1>7

\* What a step of one served request leaves: the store, the authority, and what
\* was asked and answered.
LEMMA OnlyServed ==
    ASSUME IntentsInv, UNCHANGED <<scope, db, core, policy, loaded, live, told, asked>>,
           NEW c \in Calls, NEW k, ServedTyped(k), k.pc = "idle" => k.listed = None,
           Serves(c, k)
    PROVE  IntentsInv'
<1>1. asked \subseteq asked' /\ WorldInv /\ PI!ConfiguredWasAsked
  BY DEF IntentsInv
<1>2. /\ DOMAIN served' = Calls /\ (\A x \in Calls : ServedTyped(served[x]))'
      /\ PI!ConfiguredWasAsked'
  BY <1>1, Served
<1>3. WorldInv'
  BY <1>1, <1>2 DEF WorldInv
<1>4. Sound(db)' /\ StoredWasAsked' /\ PI!ActivatedIsImported'
  <2>1. Sound(db) /\ Sound(db')
    BY DEF IntentsInv
  <2>2. Grew(db, db', {})
    BY DEF Grew
  <2> QED
    BY <1>1, <2>1, <2>2, Stored
<1>5. PI!AnswerIsStored'
  BY DEF IntentsInv, PI!AnswerIsStored
<1> QED
  BY <1>2, <1>3, <1>4, <1>5 DEF IntentsInv

\* Verify: the listing is looked at and the command is taken or refused.
LEMMA VerifyInv ==
    ASSUME IntentsInv, UNCHANGED scope, NEW c \in Calls, NEW cmd \in PI!Command, PI!Verify(c, cmd)
    PROVE  IntentsInv'
<1>1. UNCHANGED <<scope, db, core, policy, loaded, live, told, asked>>
  BY DEF PI!Verify, PI!rest
<1>2. CASE served' = [served EXCEPT ![c] = [PI!Idle EXCEPT !.pc = "observe", !.command = cmd]]
  <2>1. PICK k : k = [PI!Idle EXCEPT !.pc = "observe", !.command = cmd]
    OBVIOUS
  <2>2. k = [pc |-> "observe", command |-> cmd, seen |-> {}, listed |-> None,
             answer |-> None]
    BY <2>1 DEF PI!Idle
  <2>3. ServedTyped(k) /\ k.pc # "idle"
    BY <2>2 DEF ServedTyped
  <2>4. Serves(c, k)
    BY <1>2, <2>1 DEF Serves, IntentsInv, WorldInv
  <2> QED
    BY <1>1, <2>3, <2>4, OnlyServed
<1>3. CASE PI!Answer(c)
  BY <1>1, <1>3, IdleTyped, AnswerServes, OnlyServed DEF IntentsInv
<1> QED
  BY <1>2, <1>3 DEF PI!Verify

\* Observe: the generation is read, or the store is refused.
LEMMA ObserveInv ==
    ASSUME IntentsInv, UNCHANGED scope, NEW c \in Calls, PI!Observe(c)
    PROVE  IntentsInv'
<1>1. UNCHANGED <<scope, db, core, policy, loaded, live, told, asked>>
  BY DEF PI!Observe, PI!rest
<1>2. DOMAIN served = Calls /\ ServedTyped(served[c]) /\ served[c].pc = "observe"
  BY DEF IntentsInv, WorldInv, PI!Observe, PI!At
<1>3. PICK cmd, seen, listed, answer :
         /\ served[c] = [pc |-> "observe", command |-> cmd, seen |-> seen,
                         listed |-> listed, answer |-> answer]
         /\ cmd \in PI!Command /\ listed = None
  BY <1>2 DEF ServedTyped
<1>4. CASE PI!Answer(c)
  BY <1>1, <1>4, IdleTyped, AnswerServes, OnlyServed DEF IntentsInv
<1>5. ASSUME NEW g, served' = [served EXCEPT ![c].pc = "write", ![c].seen = g]
      PROVE  IntentsInv'
  <2> DEFINE k == [pc |-> "write", command |-> cmd, seen |-> g, listed |-> listed,
                   answer |-> answer]
  <2>1. PICK old : old = served[c]
    OBVIOUS
  <2>a. old = [pc |-> "observe", command |-> cmd, seen |-> seen, listed |-> listed,
               answer |-> answer]
    BY <1>3, <2>1
  <2>2. PICK new : new = [old EXCEPT !.pc = "write", !.seen = g]
    OBVIOUS
  <2>3. new = [pc |-> "write", command |-> cmd, seen |-> g, listed |-> listed,
              answer |-> answer]
    BY <2>a, <2>2
  <2>4. Serves(c, new)
    BY <1>2, <1>5, <2>1, <2>2 DEF Serves
  <2>5. ServedTyped(k) /\ k.pc # "idle"
    BY <1>3 DEF ServedTyped
  <2>6. new = k
    BY <2>3
  <2> HIDE DEF k
  <2> QED
    BY <1>1, <2>4, <2>5, <2>6, OnlyServed
<1> QED
  BY <1>4, <1>5 DEF PI!Observe

\* List: the pass has the guests and reads the store next.
LEMMA ListInv ==
    ASSUME IntentsInv, UNCHANGED scope, NEW c \in Calls, PI!List(c)
    PROVE  IntentsInv'
<1>1. UNCHANGED <<scope, db, core, policy, loaded, live, told, asked>>
  BY DEF PI!List, PI!rest
<1>2. PICK listing \in PI!Listings :
         served' = [served EXCEPT ![c] = [PI!Idle EXCEPT !.pc = "resolve", !.listed = listing]]
  BY DEF PI!List
<1>0. PICK k : k = [PI!Idle EXCEPT !.pc = "resolve", !.listed = listing]
  OBVIOUS
<1>3. listing \in [Guests -> Prints \cup {None, Unknown}]
  BY DEF PI!Listings, IntentsInv, WorldInv
<1>4. k = [pc |-> "resolve", command |-> None, seen |-> {}, listed |-> listing,
           answer |-> None]
  BY <1>0 DEF PI!Idle
<1>5. ServedTyped(k) /\ k.pc # "idle"
  BY <1>3, <1>4 DEF ServedTyped
<1>6. Serves(c, k)
  BY <1>0, <1>2 DEF Serves, IntentsInv, WorldInv
<1> QED
  BY <1>1, <1>5, <1>6, OnlyServed

\* Resolve: each guest that is configured has a record of the incarnation listed.
LEMMA ResolveInv ==
    ASSUME IntentsInv, UNCHANGED scope, NEW c \in Calls, PI!Resolve(c)
    PROVE  IntentsInv'
<1>1. UNCHANGED <<scope, db, core, policy, loaded, live, told, asked>>
  BY DEF PI!Resolve, PI!rest
<1>2. DOMAIN served = Calls /\ ServedTyped(served[c]) /\ served[c].pc = "resolve"
  BY DEF IntentsInv, WorldInv, PI!Resolve, PI!At
<1>3. PICK cmd, seen, listed, answer :
         /\ served[c] = [pc |-> "resolve", command |-> cmd, seen |-> seen,
                         listed |-> listed, answer |-> answer]
         /\ listed \in [Guests -> Prints \cup {None, Unknown}]
  BY <1>2 DEF ServedTyped
<1> DEFINE A == [g \in Guests |->
                  IF PI!Readable THEN PI!Resolution(db, g, listed[g])
                  ELSE [status |-> "unavailable", print |-> None, value |-> None]]
           k == [pc |-> "idle", command |-> cmd, seen |-> seen, listed |-> listed,
                 answer |-> A]
<1>4. served' = [served EXCEPT ![c].pc = "idle", ![c].answer = A]
  <2>1. served[c].listed = listed
    BY <1>3
  <2> QED
    BY <2>1 DEF PI!Resolve
<1>5. \A g \in Guests : A[g].status = "configured" => <<g, listed[g], A[g].value>> \in asked
  <2>1. SUFFICES ASSUME NEW g \in Guests, A[g].status = "configured"
                 PROVE  <<g, listed[g], A[g].value>> \in asked
    OBVIOUS
  <2>2. A[g] = PI!Resolution(db, g, listed[g])
    BY <2>1
  <2>3. listed[g] \in Prints \cup {None, Unknown} /\ EvidenceSound(db)
    BY <1>3 DEF IntentsInv, Sound
  <2> HIDE DEF A
  <2>4. PICK r \in db.records : /\ r.series = PI!Series(g, listed[g])
                                /\ listed[g] \in Prints /\ r.value = A[g].value
    BY <2>1, <2>2, <2>3, Resolved
  <2> QED
    BY <2>4 DEF IntentsInv, StoredWasAsked, PI!Series
<1> HIDE DEF A
<1>6. Serves(c, k)
  <2>1. PICK old : old = served[c]
    OBVIOUS
  <2>a. old = [pc |-> "resolve", command |-> cmd, seen |-> seen, listed |-> listed,
               answer |-> answer]
    BY <1>3, <2>1
  <2>2. PICK new : new = [old EXCEPT !.pc = "idle", !.answer = A]
    OBVIOUS
  <2>3. new = [pc |-> "idle", command |-> cmd, seen |-> seen, listed |-> listed,
              answer |-> A]
    BY <2>a, <2>2
  <2>4. new = k
    BY <2>3
  <2> HIDE DEF k
  <2> QED
    BY <1>2, <1>4, <2>1, <2>2, <2>4 DEF Serves
<1>7. ServedTyped(k) /\ k.pc = "idle" /\ k.listed = listed /\ k.answer = A
  BY DEF ServedTyped
<1> HIDE DEF k
<1>8. /\ DOMAIN served' = Calls /\ served'[c] = k
      /\ \A x \in Calls : x # c => served'[x] = served[x]
  BY <1>6 DEF Serves
<1>9. (\A x \in Calls : ServedTyped(served[x]))'
  <2>1. \A x \in Calls : ServedTyped(served'[x])
    BY <1>7, <1>8 DEF IntentsInv, WorldInv
  <2> QED
    BY <2>1 DEF ServedTyped, PI!Command
<1>10. WorldInv'
  BY <1>1, <1>8, <1>9 DEF IntentsInv, WorldInv
<1>11. PI!ConfiguredWasAsked'
  <2>1. SUFFICES ASSUME NEW x \in Calls, served'[x].pc = "idle", served'[x].listed # None,
                        NEW g \in Guests, served'[x].answer[g].status = "configured"
                 PROVE  <<g, served'[x].listed[g], served'[x].answer[g].value>> \in asked'
    BY DEF PI!ConfiguredWasAsked, PI!At
  <2>2. CASE x = c
    BY <1>1, <1>5, <1>7, <1>8, <2>1, <2>2
  <2>3. CASE x # c
    <3>1. served'[x] = served[x]
      BY <1>8, <2>3
    <3> QED
      BY <1>1, <2>1, <3>1 DEF IntentsInv, PI!ConfiguredWasAsked, PI!At
  <2> QED
    BY <2>2, <2>3
<1>12. Sound(db)' /\ StoredWasAsked' /\ PI!ActivatedIsImported'
  <2>1. Sound(db) /\ Sound(db') /\ Grew(db, db', {}) /\ asked \subseteq asked'
    BY <1>1 DEF IntentsInv, Grew
  <2> QED
    BY <1>1, <2>1, Stored
<1>13. PI!AnswerIsStored'
  BY <1>1 DEF IntentsInv, PI!AnswerIsStored
<1> QED
  BY <1>10, <1>11, <1>12, <1>13 DEF IntentsInv

\* Write: the transaction commits, replays or leaves nothing behind.
LEMMA WriteInv ==
    ASSUME IntentsInv, UNCHANGED scope, NEW c \in Calls, PI!Write(c)
    PROVE  IntentsInv'
<1> DEFINE cmd == served[c].command
           verdict == PI!Verdict(db, cmd, served[c].seen)
           Ended == PI!Answer(c) /\ UNCHANGED <<db, told, asked>>
           Said(d, t) == [id |-> t.command.id, command |-> t.command,
                          outcome |-> t.outcome, version |-> t.version]
                            \in d.operations
<1>1. UNCHANGED <<scope, core, policy, loaded, live>>
  BY DEF PI!Write, PI!rest
<1>2. cmd \in PI!Command /\ scope \in IntentSettings
  BY DEF IntentsInv, WorldInv, ServedTyped, PI!Write, PI!At
<1>3. cmd.guest \in Guests /\ cmd.print \in Prints /\ cmd.value \in Values
  BY <1>2, SettingFacts
<1>4. CASE Ended
  BY <1>1, <1>4, IdleTyped, AnswerServes, OnlyServed DEF IntentsInv
<1>5. ASSUME PI!Answer(c), Sound(db'), NEW given, Grew(db, db', given),
             given \subseteq Guests \X Prints \X Values, asked' = asked \cup given,
             \A t \in told' : t \in told \/ Said(db', t)
      PROVE  IntentsInv'
  <2>1. asked \subseteq asked' /\ WorldInv /\ PI!ConfiguredWasAsked
    BY <1>5 DEF IntentsInv
  <2>2. /\ DOMAIN served' = Calls /\ (\A x \in Calls : ServedTyped(served[x]))'
        /\ PI!ConfiguredWasAsked'
    BY <1>1, <1>5, <2>1, IdleTyped, AnswerServes, Served
  <2>3. WorldInv'
    BY <1>1, <1>5, <2>1, <2>2 DEF WorldInv
  <2>4. Sound(db)' /\ StoredWasAsked' /\ PI!ActivatedIsImported'
    BY <1>1, <1>5, <2>1, Stored
  <2>5. PI!AnswerIsStored'
    BY <1>5 DEF IntentsInv, PI!AnswerIsStored, Grew
  <2> QED
    BY <2>2, <2>3, <2>4, <2>5 DEF IntentsInv
<1>6. ASSUME verdict \in {"created", "updated", "rebound"},
             db' = PI!Written(db, cmd, verdict),
             asked' = asked \cup {<<cmd.guest, cmd.print, cmd.value>>},
             NEW op \in db'.operations, op.id = cmd.id,
             PI!Tell(c, cmd, op.outcome, op.version)
      PROVE  IntentsInv'
  <2>1. Sound(db) /\ Tables(db)
    BY DEF IntentsInv, Sound, EvidenceSound
  <2>2. Sound(db') /\ Grew(db, db', {Asks(cmd)})
    BY <1>3, <1>6, <2>1, WrittenSound
  <2>3. PICK n : [id |-> cmd.id, command |-> cmd, outcome |-> verdict, version |-> n]
                    \in db'.operations
    BY <1>6, <2>1, WrittenOperation
  <2>4. OperationsSound(db')
    BY <2>2 DEF Sound
  <2>5. op = [id |-> cmd.id, command |-> cmd, outcome |-> verdict, version |-> n]
    BY <1>6, <2>3, <2>4 DEF OperationsSound
  <2>6. \A t \in told' : t \in told \/ Said(db', t)
    BY <1>6, <2>5 DEF PI!Tell
  <2>7. PI!Answer(c)
    BY <1>6 DEF PI!Tell
  <2>8. {Asks(cmd)} \subseteq Guests \X Prints \X Values
        /\ asked' = asked \cup {Asks(cmd)}
    BY <1>3, <1>6 DEF Asks
  <2> QED
    BY <1>5, <2>2, <2>6, <2>7, <2>8
<1>7. ASSUME verdict = "replay", UNCHANGED <<db, asked>>,
             NEW op \in PI!Replays(db, cmd), PI!Tell(c, cmd, op.outcome, op.version)
      PROVE  IntentsInv'
  <2>1. PICK u \in PI!Replays(db, cmd) : u.command = cmd
    BY <1>7 DEF PI!Verdict, PI!SameRequest, PI!Binding
  <2>2. Sound(db) /\ OperationsSound(db)
    BY DEF IntentsInv, Sound
  <2>3. /\ op \in db.operations /\ op.id = cmd.id /\ op.command = cmd
    BY <2>1, <2>2 DEF OperationsSound, PI!Replays
  <2>4. op = [id |-> cmd.id, command |-> cmd, outcome |-> op.outcome,
              version |-> op.version]
    BY <2>2, <2>3 DEF OperationsSound
  <2>5. \A t \in told' : t \in told \/ Said(db', t)
    BY <1>7, <2>3, <2>4 DEF PI!Tell
  <2>6. Grew(db, db', {}) /\ PI!Answer(c) /\ Sound(db')
    BY <1>7, <2>2 DEF Grew, PI!Tell
  <2> QED
    BY <1>5, <1>7, <2>5, <2>6
<1>8. \/ Ended
      \/ /\ verdict \in {"created", "updated", "rebound"}
         /\ db' = PI!Written(db, cmd, verdict)
         /\ asked' = asked \cup {<<cmd.guest, cmd.print, cmd.value>>}
         /\ \E op \in db'.operations :
               op.id = cmd.id /\ PI!Tell(c, cmd, op.outcome, op.version)
      \/ /\ verdict = "replay" /\ UNCHANGED <<db, asked>>
         /\ \E op \in PI!Replays(db, cmd) : PI!Tell(c, cmd, op.outcome, op.version)
  <2> HIDE DEF verdict
  <2> QED
    BY DEF PI!Write, verdict
<1> HIDE DEF verdict, cmd, Ended
<1> QED
  BY <1>4, <1>6, <1>7, <1>8

\* What a write of the store's own operations leaves: the requests served and
\* the authority are as before.
LEMMA OnlyStored ==
    ASSUME IntentsInv, UNCHANGED <<scope, core, policy, live, served, told>>,
           loaded' \in Policies \cup {None},
           Sound(db'), NEW given, Grew(db, db', given),
           given \subseteq Guests \X Prints \X Values, asked' = asked \cup given
    PROVE  IntentsInv'
<1>1. asked \subseteq asked' /\ given \subseteq asked'
  OBVIOUS
<1>2. WorldInv'
  <2>1. (\A x \in Calls : ServedTyped(served[x]))'
    BY DEF IntentsInv, WorldInv, ServedTyped, PI!Command
  <2> QED
    BY <2>1 DEF IntentsInv, WorldInv
<1>3. Sound(db)' /\ StoredWasAsked' /\ PI!ActivatedIsImported'
  BY <1>1, Stored
<1>4. PI!AnswerIsStored'
  BY DEF IntentsInv, PI!AnswerIsStored, Grew
<1>5. PI!ConfiguredWasAsked'
  BY DEF IntentsInv, PI!ConfiguredWasAsked, PI!At
<1> QED
  BY <1>2, <1>3, <1>4, <1>5 DEF IntentsInv

\* put: the first row of a series, or the one after its active row.
LEMMA PutInv ==
    ASSUME IntentsInv, UNCHANGED scope, NEW cmd \in PI!Command, PI!put(cmd)
    PROVE  IntentsInv'
<1> DEFINE s == PI!Series(cmd.guest, cmd.print)
           fresh == PI!History(db, s) = {}
           r == IF fresh THEN PI!Record(s, 1, "active", cmd.value)
                         ELSE PI!NextVersion(PI!Latest(db, s), "active", cmd.value)
<1>1. cmd.guest \in Guests /\ cmd.print \in Prints /\ cmd.value \in Values
  BY SettingFacts DEF IntentsInv, WorldInv
<1>2. /\ UNCHANGED <<scope, core, policy, loaded, live, served, told>>
      /\ loaded' \in Policies \cup {None}
  BY DEF PI!put, PI!rest, IntentsInv, WorldInv
<1>3. /\ Sound(db) /\ db.schema = "p3" /\ EvidenceSound(db) /\ ActiveSound(db)
  BY DEF PI!put, IntentsInv, Sound
<1>4. s.guest = cmd.guest /\ s.print = cmd.print
  BY DEF PI!Series
<1>5. CASE fresh
  <2>1. r = PI!Record(s, 1, "active", cmd.value)
    BY <1>5
  <2>2. r.series = s /\ r.version = 1 /\ r.life = "active" /\ r.value = cmd.value
    BY <2>1 DEF PI!Record
  <2>3. FollowsOn(db, r) /\ EventOf(r) = "created"
    BY <1>1, <1>3, <1>5, <2>1, <2>2, NextRow DEF EventOf
  <2>4. \A x \in PI!ActiveRecords(db) : x.series.guest # cmd.guest
    <3>1. \A a \in db.active : a.guest # cmd.guest
      BY <1>5 DEF PI!put
    <3>2. SUFFICES ASSUME NEW x \in PI!ActiveRecords(db) PROVE x.series.guest # cmd.guest
      OBVIOUS
    <3>3. PI!ActiveRow(x) \in db.active
      BY <1>3 DEF ActiveSound
    <3>4. PI!ActiveRow(x).guest = x.series.guest
      BY DEF PI!ActiveRow
    <3> QED
      BY <3>1, <3>3, <3>4
  <2>5. /\ db' = PI!WithActive(PI!Persisted(db, r, PI!Id(cmd.id), cmd, EventOf(r)), r)
        /\ asked' = asked \cup {<<cmd.guest, cmd.print, cmd.value>>}
    BY <1>5, <2>3 DEF PI!put
  <2> HIDE DEF r
  <2>a. \A x \in PI!ActiveRecords(db) : x.series.guest = r.series.guest => x.series = r.series
    BY <1>4, <2>2, <2>4
  <2>b. <<r.series.guest, r.series.print, r.value>> = <<cmd.guest, cmd.print, cmd.value>>
    BY <1>4, <2>2
  <2>6. Sound(db') /\ Grew(db, db', {<<cmd.guest, cmd.print, cmd.value>>})
    <3> DEFINE e == PI!WithActive(PI!Persisted(db, r, PI!Id(cmd.id), cmd, EventOf(r)), r)
    <3>1. Sound(e) /\ Grew(db, e, {<<r.series.guest, r.series.print, r.value>>})
      BY <1>3, <2>2, <2>3, <2>a, PutSound
    <3> QED
      BY <2>5, <2>b, <3>1
  <2> QED
    BY <1>1, <1>2, <2>5, <2>6, OnlyStored
<1>6. CASE ~fresh
  <2> DEFINE old == PI!Latest(db, s)
  <2>1. r = PI!NextVersion(old, "active", cmd.value) /\ s \in PI!StoredSeries(db)
    BY <1>6 DEF PI!History, PI!StoredSeries
  <2>2. /\ old \in db.records /\ old.series = s /\ old.version \in Nat \ {0}
    BY <1>3, <2>1, LatestFacts
  <2>3. old.life = "active"
    BY <1>6 DEF PI!put, PI!MayContinue
  <2>4. /\ r.series = s /\ r.version = old.version + 1 /\ r.life = "active"
        /\ r.value = cmd.value
    BY <2>1, <2>2 DEF PI!NextVersion, PI!Record
  <2>5. FollowsOn(db, r)
    BY <1>1, <1>3, <2>1, <2>2, <2>3, NextRow
  <2>6. EventOf(r) = "updated"
    BY <2>2, <2>4 DEF EventOf
  <2>7. \A x \in PI!ActiveRecords(db) : x.series.guest = s.guest => x.series = s
    <3>1. old \in PI!ActiveRecords(db)
      BY <1>3, <2>1, <2>3, IsActive
    <3> QED
      BY <1>3, <2>2, <3>1 DEF ActiveSound, PI!OneActivePerGuest
  <2>8. /\ db' = PI!WithActive(PI!Persisted(db, r, PI!Id(cmd.id), cmd, EventOf(r)), r)
        /\ asked' = asked \cup {<<cmd.guest, cmd.print, cmd.value>>}
    BY <1>6, <2>6 DEF PI!put
  <2> HIDE DEF r
  <2>a. \A x \in PI!ActiveRecords(db) : x.series.guest = r.series.guest => x.series = r.series
    BY <2>4, <2>7
  <2>b. <<r.series.guest, r.series.print, r.value>> = <<cmd.guest, cmd.print, cmd.value>>
    BY <1>4, <2>4
  <2>9. Sound(db') /\ Grew(db, db', {<<cmd.guest, cmd.print, cmd.value>>})
    <3> DEFINE e == PI!WithActive(PI!Persisted(db, r, PI!Id(cmd.id), cmd, EventOf(r)), r)
    <3>1. Sound(e) /\ Grew(db, e, {<<r.series.guest, r.series.print, r.value>>})
      BY <1>3, <2>4, <2>5, <2>a, PutSound
    <3> QED
      BY <2>8, <2>b, <3>1
  <2> QED
    BY <1>1, <1>2, <2>8, <2>9, OnlyStored
<1> QED
  BY <1>5, <1>6

\* supersede: the last row of a series that was active.
LEMMA SupersedeInv ==
    ASSUME IntentsInv, UNCHANGED scope, NEW id, NEW s \in PI!StoredSeries(db), NEW n,
           PI!supersede(id, s, n)
    PROVE  IntentsInv'
<1> DEFINE old == PI!Latest(db, s)
           r == PI!NextVersion(old, "superseded", old.value)
<1>1. /\ UNCHANGED <<scope, core, policy, loaded, live, served, told>>
      /\ loaded' \in Policies \cup {None} /\ asked' = asked \cup {}
  BY DEF PI!supersede, PI!rest, IntentsInv, WorldInv
<1>2. /\ Sound(db) /\ db.schema = "p3" /\ EvidenceSound(db)
  BY DEF PI!supersede, IntentsInv, Sound
<1>3. /\ old \in db.records /\ old.series = s /\ old.version \in Nat \ {0}
  BY <1>2, LatestFacts
<1>4. old.life = "active" /\ RecordTyped(old)
  BY <1>2, <1>3 DEF PI!supersede, PI!MayContinue, EvidenceSound
<1>5. /\ s.guest \in Guests /\ s.print \in Prints /\ old.value \in Values
      /\ s = PI!Series(s.guest, s.print)
  BY <1>3, <1>4 DEF RecordTyped
<1>6. FollowsOn(db, r)
  BY <1>2, <1>3, <1>4, <1>5, NextRow
<1>7. /\ r.series = s /\ r.version = old.version + 1 /\ r.life = "superseded"
      /\ r.value = old.value
  BY <1>3 DEF PI!NextVersion, PI!Record
<1>8. r.version # 1 /\ \E q \in db.records : q.series = r.series /\ q.value = r.value
  BY <1>3, <1>7
<1>9. db' = PI!WithoutActive(PI!Persisted(db, r, PI!Id(id), s, "superseded"), r.series)
  BY <1>7 DEF PI!supersede
<1> HIDE DEF r
<1>10. Sound(db') /\ Grew(db, db', {})
  BY <1>2, <1>6, <1>7, <1>8, <1>9, SupersedeSound
<1> QED
  BY <1>1, <1>10, OnlyStored

\* import_legacy_policy: what the file said when it was read.
LEMMA ImportInv ==
    ASSUME IntentsInv, UNCHANGED scope, PI!import_legacy_policy
    PROVE  IntentsInv'
<1>1. /\ UNCHANGED <<scope, core, policy, live, served, told>>
      /\ loaded' \in Policies \cup {None} /\ asked' = asked \cup {}
  BY DEF PI!import_legacy_policy
<1>2. loaded \in Policies /\ Sound(db)
  BY DEF PI!import_legacy_policy, IntentsInv, WorldInv
<1>3. CASE UNCHANGED db
  <2>1. Sound(db') /\ Grew(db, db', {})
    BY <1>2, <1>3 DEF Grew
  <2> QED
    BY <1>1, <2>1, OnlyStored
<1>4. CASE db.schema # "absent" /\ db' = PI!Imported(db, loaded)
  <2>1. Sound(db') /\ Grew(db, db', {})
    BY <1>2, <1>4, ImportedSound
  <2> QED
    BY <1>1, <2>1, OnlyStored
<1>5. CASE db.schema = "absent" /\ db' = PI!Imported(PI!EmptyStore("p3"), loaded)
  <2>1. Sound(PI!EmptyStore("p3")) /\ PI!EmptyStore("p3").schema = "p3"
    BY EmptySound
  <2>2. Sound(db') /\ Grew(PI!EmptyStore("p3"), db', {})
    BY <1>2, <1>5, <2>1, ImportedSound
  <2>3. db = PI!EmptyStore("absent")
    BY <1>2, <1>5 DEF Sound
  <2>4. /\ db.records = {} /\ PI!EmptyStore("p3").records = {}
        /\ db.operations = {} /\ PI!EmptyStore("p3").operations = {}
    BY <2>3 DEF PI!EmptyStore
  <2>5. Grew(db, db', {})
    BY <2>2, <2>4 DEF Grew
  <2> QED
    BY <1>1, <2>2, <2>5, OnlyStored
<1> QED
  BY <1>3, <1>4, <1>5 DEF PI!import_legacy_policy

\* migrate_p2c_provider_intent_store: the rows stay, the active ones are named.
LEMMA MigrateInv ==
    ASSUME IntentsInv, UNCHANGED scope, PI!Migrate
    PROVE  IntentsInv'
<1>1. /\ UNCHANGED <<scope, core, policy, live, served, told>>
      /\ loaded' \in Policies \cup {None} /\ asked' = asked \cup {}
  BY DEF PI!Migrate, PI!rest, IntentsInv, WorldInv
<1>2. Sound(db) /\ PI!P2cValid(db) /\ db' = PI!Migrated(db)
  BY DEF PI!Migrate, IntentsInv
<1>3. Sound(db') /\ Grew(db, db', {})
  BY <1>2, MigratedSound
<1> QED
  BY <1>1, <1>3, OnlyStored

\* What the steps around the store leave: they neither write nor answer.
LEMMA OnlyAround ==
    ASSUME IntentsInv, UNCHANGED <<scope, db, told, asked>>, WorldInv',
           PI!ActivatedIsImported', PI!ConfiguredWasAsked'
    PROVE  IntentsInv'
<1>1. Sound(db)'
  <2>1. Sound(db')
    BY DEF IntentsInv
  <2> QED
    BY <2>1, SoundNext
<1>2. StoredWasAsked' /\ PI!AnswerIsStored'
  BY DEF IntentsInv, StoredWasAsked, PI!AnswerIsStored
<1> QED
  BY <1>1, <1>2 DEF IntentsInv

\* The policy file is edited or read, Core starts or stops, guests come and go.
LEMMA AroundInv ==
    ASSUME IntentsInv, UNCHANGED scope,
           \/ \E p \in scope.policies : PI!UpdatePolicy(p)
           \/ PI!LoadImport
           \/ \E activated \in BOOLEAN : PI!Start(activated)
           \/ PI!Stop
           \/ \E g \in Guests, p \in Prints \cup {None} : PI!Replace(g, p)
    PROVE  IntentsInv'
<1>1. ASSUME UNCHANGED served PROVE (\A x \in Calls : ServedTyped(served[x]))'
                                    /\ (UNCHANGED asked => PI!ConfiguredWasAsked')
  BY <1>1
  DEF IntentsInv, WorldInv, ServedTyped, PI!Command, PI!ConfiguredWasAsked, PI!At
<1>2. ASSUME NEW p \in scope.policies, PI!UpdatePolicy(p) PROVE IntentsInv'
  <2>1. p \in Policies
    BY SettingFacts DEF IntentsInv, WorldInv
  <2>2. WorldInv' /\ PI!ConfiguredWasAsked'
    BY <1>1, <1>2, <2>1 DEF IntentsInv, WorldInv, PI!UpdatePolicy
  <2>3. PI!ActivatedIsImported'
    BY <1>2 DEF PI!UpdatePolicy, PI!ActivatedIsImported, PI!Activated
  <2> QED
    BY <1>2, <2>2, <2>3, OnlyAround DEF PI!UpdatePolicy
<1>3. ASSUME PI!LoadImport PROVE IntentsInv'
  <2>1. WorldInv' /\ PI!ConfiguredWasAsked'
    BY <1>1, <1>3 DEF IntentsInv, WorldInv, PI!LoadImport
  <2>2. PI!ActivatedIsImported'
    BY <1>3 DEF IntentsInv, PI!LoadImport, PI!ActivatedIsImported, PI!Activated
  <2> QED
    BY <1>3, <2>1, <2>2, OnlyAround DEF PI!LoadImport
<1>4. ASSUME NEW activated \in BOOLEAN, PI!Start(activated) PROVE IntentsInv'
  <2>a. core' \in {"down", "legacy", "p2c", "p3"}
    <3>1. db.schema \in {"absent", "p2c", "p3"}
      BY DEF IntentsInv, Sound
    <3>2. core' = db.schema \/ core' = "legacy"
      BY <1>4 DEF PI!Start
    <3>3. activated => PI!P2cValid(db) \/ PI!P3Valid(db)
      BY <1>4 DEF PI!Start
    <3>4. core' = "absent" => FALSE
      BY <1>4, <3>2, <3>3 DEF PI!Start, PI!P2cValid, PI!P3Valid
    <3> QED
      BY <3>1, <3>2, <3>4
  <2>b. UNCHANGED <<scope, policy, loaded, live, served, asked>>
    BY <1>4 DEF PI!Start, PI!rest
  <2>1. WorldInv' /\ PI!ConfiguredWasAsked'
    BY <1>1, <2>a, <2>b DEF IntentsInv, WorldInv
  <2>2. PI!ActivatedIsImported'
    <3>1. CASE activated
      <4>1. ASSUME NEW g \in DOMAIN policy
            PROVE  \E r \in PI!History(db, PI!Series(g, None)) : r.value = policy[g]
        <5>1. PICK q \in db.requests : q.id = PI!IdSource(policy, g)
          BY <1>4, <3>1
          DEF PI!Start, PI!ActivationAccepts, PI!ImportComplete, PI!IdsFree
        <5> QED
          BY <5>1 DEF IntentsInv, WorldInv, Sound, EvidenceSound, SourcesKept
      <4> QED
        BY <1>4, <4>1 DEF PI!Start, PI!rest, PI!ActivatedIsImported
    <3>2. CASE ~activated
      BY <1>4, <3>2 DEF PI!Start, PI!ActivatedIsImported, PI!Activated
    <3> QED
      BY <3>1, <3>2
  <2> QED
    BY <1>4, <2>1, <2>2, OnlyAround DEF PI!Start
<1>5. ASSUME PI!Stop PROVE IntentsInv'
  <2>1. DOMAIN served' = Calls /\ \A x \in Calls : served'[x] = PI!Idle
    BY <1>5 DEF PI!Stop
  <2>2. (\A x \in Calls : ServedTyped(served[x]))' /\ PI!ConfiguredWasAsked'
    <3>1. \A x \in Calls : ServedTyped(served'[x]) /\ served'[x].listed = None
      BY <2>1, IdleTyped
    <3> QED
      BY <3>1 DEF ServedTyped, PI!Command, PI!ConfiguredWasAsked
  <2>3. WorldInv'
    BY <1>5, <2>1, <2>2 DEF IntentsInv, WorldInv, PI!Stop
  <2>4. PI!ActivatedIsImported'
    BY <1>5 DEF PI!Stop, PI!ActivatedIsImported, PI!Activated
  <2> QED
    BY <1>5, <2>2, <2>3, <2>4, OnlyAround DEF PI!Stop
<1>6. ASSUME NEW g \in Guests, NEW p \in Prints \cup {None}, PI!Replace(g, p) PROVE IntentsInv'
  <2>1. WorldInv' /\ PI!ConfiguredWasAsked'
    BY <1>1, <1>6 DEF IntentsInv, WorldInv, PI!Replace
  <2>2. PI!ActivatedIsImported'
    BY <1>6 DEF IntentsInv, PI!Replace, PI!ActivatedIsImported, PI!Activated
  <2> QED
    BY <1>6, <2>1, <2>2, OnlyAround DEF PI!Replace
<1> QED
  BY <1>2, <1>3, <1>4, <1>5, <1>6

\* Every step keeps the invariant.
LEMMA IntentsStep == IntentsInv /\ [PI!Next]_PI!vars => IntentsInv'
<1> SUFFICES ASSUME IntentsInv, [PI!Next]_PI!vars PROVE IntentsInv'
  OBVIOUS
<1>1. CASE UNCHANGED PI!vars
  <2>1. UNCHANGED <<scope, db, core, policy, loaded, live, served, told, asked>>
    BY <1>1 DEF PI!vars
  <2>2. Sound(db') /\ Grew(db, db', {}) /\ asked' = asked \cup {}
    BY <2>1 DEF IntentsInv, Grew
  <2>3. loaded' \in Policies \cup {None}
    BY <2>1 DEF IntentsInv, WorldInv
  <2> QED
    BY <2>1, <2>2, <2>3, OnlyStored
<1>2. CASE PI!Next
  <2>1. UNCHANGED scope /\ scope.calls \subseteq Calls
    BY <1>2, SettingFacts DEF PI!Next, IntentsInv, WorldInv
  <2>2. ASSUME NEW c \in scope.calls, NEW cmd \in PI!Command, PI!Verify(c, cmd) PROVE IntentsInv'
    BY <2>1, <2>2, VerifyInv
  <2>3. ASSUME NEW c \in scope.calls, PI!Observe(c) \/ PI!Write(c) \/ PI!List(c) \/ PI!Resolve(c)
        PROVE  IntentsInv'
    BY <2>1, <2>3, ObserveInv, WriteInv, ListInv, ResolveInv
  <2>4. ASSUME NEW cmd \in PI!Command, PI!put(cmd) PROVE IntentsInv'
    BY <2>1, <2>4, PutInv
  <2>5. ASSUME NEW id \in scope.direct, NEW s \in PI!StoredSeries(db),
               NEW n \in 1..scope.version, PI!supersede(id, s, n)
        PROVE  IntentsInv'
    BY <2>1, <2>5, SupersedeInv
  <2>6. ASSUME PI!import_legacy_policy \/ PI!Migrate PROVE IntentsInv'
    BY <2>1, <2>6, ImportInv, MigrateInv
  <2>7. ASSUME \/ \E p \in scope.policies : PI!UpdatePolicy(p)
               \/ PI!LoadImport
               \/ \E activated \in BOOLEAN : PI!Start(activated)
               \/ PI!Stop
               \/ \E g \in Guests, p \in Prints \cup {None} : PI!Replace(g, p)
        PROVE  IntentsInv'
    BY <2>1, <2>7, AroundInv
  <2>8. \/ \E c \in scope.calls, cmd \in PI!Command : PI!Verify(c, cmd)
        \/ \E c \in scope.calls : PI!Observe(c) \/ PI!Write(c) \/ PI!List(c) \/ PI!Resolve(c)
        \/ \E cmd \in PI!Command : PI!put(cmd)
        \/ \E id \in scope.direct, s \in PI!StoredSeries(db), n \in 1..scope.version :
              PI!supersede(id, s, n)
        \/ PI!import_legacy_policy \/ PI!Migrate
        \/ \E p \in scope.policies : PI!UpdatePolicy(p)
        \/ PI!LoadImport
        \/ \E activated \in BOOLEAN : PI!Start(activated)
        \/ PI!Stop
        \/ \E g \in Guests, p \in Prints \cup {None} : PI!Replace(g, p)
    BY <1>2 DEF PI!Next
  <2> QED
    BY <2>2, <2>3, <2>4, <2>5, <2>6, <2>7, <2>8
<1> QED
  BY <1>1, <1>2

\* The invariant holds the properties of the store at any moment.
LEMMA InvStoreSound == IntentsInv => PI!StoreSound
<1> SUFFICES ASSUME IntentsInv PROVE PI!StoreSound
  OBVIOUS
<1>1. WorldInv /\ Sound(db) /\ EvidenceSound(db)
  BY DEF IntentsInv, Sound
<1>2. \A a \in db.active : a.guest \in Guests /\ a.series.print \in Prints
  <2>1. CASE db.schema # "p3"
    BY <1>1, <2>1 DEF Sound
  <2>2. CASE db.schema = "p3"
    <3>1. db.active = {PI!ActiveRow(r) : r \in PI!ActiveRecords(db)}
      BY <1>1, <2>2 DEF Sound, ActiveSound
    <3>2. \A r \in PI!ActiveRecords(db) : r.series.guest \in Guests /\ r.series.print \in Prints
      BY <1>1, ActiveIs
    <3> QED
      BY <3>1, <3>2 DEF PI!ActiveRow
  <2> QED
    BY <2>1, <2>2
<1>3. PI!TypeOK
  BY <1>1, <1>2 DEF PI!TypeOK, WorldInv, Sound, EvidenceSound, RecordTyped, ServedTyped
<1>4. PI!StoreValidates
  BY <1>1, SoundValid DEF PI!StoreValidates
<1>5. PI!SupersededIsFinal
  <2>1. SUFFICES ASSUME NEW r \in db.records, r.life = "superseded"
                 PROVE  r = PI!Latest(db, r.series)
    BY DEF PI!SupersededIsFinal
  <2>2. \A q \in db.records : q.series = r.series => q.version <= r.version
    BY <1>1, <2>1 DEF EvidenceSound, OnlyActiveContinues, RecordTyped
  <2> QED
    BY <1>1, <2>2, LatestIs DEF EvidenceSound
<1> QED
  BY <1>3, <1>4, <1>5 DEF IntentsInv, PI!StoreSound

\* The store at any moment, whoever writes concurrently and whatever is migrated.
THEOREM IntentStoreSafety == IntentSpec => []StoreSound
<1>1. PI!Init => IntentsInv
  BY IntentsInit
<1>2. IntentsInv /\ [PI!Next]_PI!vars => IntentsInv'
  BY IntentsStep
<1>3. IntentsInv => PI!StoreSound
  BY InvStoreSound
<1> QED
  BY <1>1, <1>2, <1>3, PTL DEF IntentSpec, StoreSound, PI!Spec

\* What callers were answered, and what is taken for configured, was asked.
THEOREM IntentRequestsSafety == IntentSpec => []RequestsHonoured
<1>1. PI!Init => IntentsInv
  BY IntentsInit
<1>2. IntentsInv /\ [PI!Next]_PI!vars => IntentsInv'
  BY IntentsStep
<1>3. IntentsInv => PI!RequestsHonoured
  BY DEF IntentsInv, PI!RequestsHonoured
<1> QED
  BY <1>1, <1>2, <1>3, PTL DEF IntentSpec, RequestsHonoured, PI!Spec
=============================================================================
