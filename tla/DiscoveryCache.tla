---------------------------- MODULE DiscoveryCache ----------------------------
(***************************************************************************)
(* The cache of dynamic Discovery evidence and the refreshes that fill it: *)
(* Core processes share one cache directory, each refreshes the one        *)
(* registered source at startup, further callers join a refresh that is    *)
(* under way, and requests read the cache from their own threads.          *)
(*                                                                         *)
(* A publication is a sequence of file operations under an exclusive       *)
(* flock.  Any of them may fail, a process may be killed between two, and  *)
(* a power loss undoes those that were not flushed to the disk.  A         *)
(* generation is identified by the time it was retrieved and the digest    *)
(* of its facts; whoever stamps or evaluates it reads a wall clock that    *)
(* may be set, so times are inputs and not a variable.                     *)
(***************************************************************************)
EXTENDS Naturals, FiniteSets

CONSTANTS
    Procs,    \* Core processes on one cache directory
    Clients,  \* callers other than the startup of a process
    Server,   \* client -> the process it calls
    Settings, \* what to study together: who is at work, what the source gives
    Gens,     \* generations the source may give: [stamp, digest]
    Stale,    \* 30 days, after which evidence has expired
    MaxTime   \* bound on the clocks

NoGen == [stamp |-> 0, digest |-> 0]

ASSUME GensAssumption ==
    /\ Gens \subseteq [stamp : Nat \ {0}, digest : Nat \ {0}]
    /\ Stale \in Nat /\ MaxTime \in Nat \ {0}
    /\ Procs \cap Clients = {} /\ Server \in [Clients -> Procs]
    /\ Settings \subseteq [who : SUBSET (Procs \cup Clients), gens : SUBSET Gens]

Times == 1 .. MaxTime
Slots == 1 .. 2
Callers == Procs \cup Clients

VARIABLES
    files,     \* generation -> what its directory looks like now
    disk,      \* generation -> what it may look like after a power loss
    current,   \* the generation current.json names
    pointers,  \* the generations it may name after a power loss
    proc,      \* process -> phase of its life
    task,      \* process -> slot -> refresh task
    inflight,  \* process -> slot of the task that callers join, or 0
    call,      \* caller -> what it waits for, or the last answer it got
    setting    \* the setting under study: never changes

cache == <<files, disk, current, pointers>>
vars == <<cache, proc, task, inflight, call, setting>>

DirStates == {"absent", "partial", "complete"}
AsyncPhases == {"none", "fetching", "cancelling"}
LockedPhases == {"stage", "rename", "flushGens", "point", "flushPointer", "prune"}
Outcomes == {"refreshed", "noop", "degraded", "unavailable",
             "publication_failed", "cache_corrupt"}
Answers == Outcomes \cup {"none", "raised", "cancelled", "closed",
                          "absent", "available", "corrupt", "unreadable"}

(* A task: the caller's time, the generation it publishes, the one that    *)
(* was current before, the one it is removing, the outcome it will report. *)
NoTask ==
    [phase |-> "none", now |-> 1, gen |-> NoGen, prev |-> NoGen,
     removing |-> NoGen, outcome |-> "refreshed", degraded |-> FALSE, io |-> FALSE]

(* A call: the task it waits for, or the generation it is about to read.   *)
NoCall == [phase |-> "idle", slot |-> 0, named |-> NoGen, answer |-> "none"]

(* A task that begins, and calls that wait, read or have their answer.     *)
Fetching(now) == [NoTask EXCEPT !.phase = "fetching", !.now = now]
Waiting(i) == [NoCall EXCEPT !.phase = "waiting", !.slot = i]
Reading(g) == [NoCall EXCEPT !.phase = "reading", !.named = g]
Answered(a) == [NoCall EXCEPT !.answer = a]

Home(c) == IF c \in Procs THEN c ELSE Server[c]

Init ==
    /\ files = [g \in Gens |-> "absent"]
    /\ disk = [g \in Gens |-> {"absent"}]
    /\ current = NoGen /\ pointers = {NoGen}
    /\ proc = [p \in Procs |-> "down"]
    /\ task = [p \in Procs |-> [i \in Slots |-> NoTask]]
    /\ inflight = [p \in Procs |-> 0]
    /\ call = [c \in Callers |-> NoCall]
    /\ setting \in Settings

-----------------------------------------------------------------------------
(* Order, age, locks and flushes.                                          *)

Later(g, h) == g.stamp > h.stamp \/ (g.stamp = h.stamp /\ g.digest > h.digest)

(* Evidence dated after the caller's time is invalid, not fresh.           *)
Evaluated(g, now) ==
    CASE now < g.stamp         -> "future"
      [] now > g.stamp + Stale -> "expired"
      [] OTHER                 -> "valid"

(* flock: one writer, or any number of readers.                            *)
Unwritten == \A p \in Procs, i \in Slots : task[p][i].phase \notin LockedPhases
Unlocked == Unwritten /\ \A c \in Clients : call[c].phase # "reading"

(* From the end of its fetch a task runs to its end without an await.      *)
LoopFree(p) == \A i \in Slots : task[p][i].phase \in AsyncPhases

(* fsync of the generations directory: names in it are settled, the        *)
(* contents of a directory that is still there are not.                    *)
Flushed ==
    [g \in Gens |-> IF files[g] = "partial" THEN disk[g] \ {"absent"} ELSE {files[g]}]

Becomes(g, state) ==
    /\ files' = [files EXCEPT ![g] = state]
    /\ disk' = [disk EXCEPT ![g] = @ \cup {state}]

Step(p, i, phase) == task' = [task EXCEPT ![p][i].phase = phase]

(* The publication is over, and the task goes on to read the cache back.   *)
Over(p, i, outcome, degraded) ==
    task' = [task EXCEPT ![p][i].phase = "readback", ![p][i].outcome = outcome,
                         ![p][i].degraded = degraded]

(* The same, when it could not read what it found.                         *)
Corrupt(p, i) ==
    task' = [task EXCEPT ![p][i].phase = "readback",
                         ![p][i].outcome = "cache_corrupt", ![p][i].io = TRUE]

-----------------------------------------------------------------------------
(* A process starts: initialize waits for the lock, removes what crashes   *)
(* left, and the startup calls refresh with the time it is.  Without a     *)
(* usable cache it serves the curated catalog only.                        *)
Start(p) ==
    /\ p \in setting.who /\ proc[p] = "down" /\ Unlocked
    /\ \/ /\ proc' = [proc EXCEPT ![p] = "starting"]
          /\ \E now \in Times :
                /\ task' = [task EXCEPT ![p][1] = Fetching(now)]
                /\ call' = [call EXCEPT ![p] = Waiting(1)]
          /\ inflight' = [inflight EXCEPT ![p] = 1]
       \/ /\ proc' = [proc EXCEPT ![p] = "curated"]
          /\ UNCHANGED <<task, call, inflight>>
    /\ UNCHANGED <<cache, setting>>

(* The startup has its answer.  An exception ends the process.             *)
Started(p) ==
    /\ proc[p] = "starting" /\ call[p].phase = "idle"
    /\ proc' = [proc EXCEPT ![p] = IF call[p].answer = "raised" THEN "down" ELSE "up"]
    /\ call' = [call EXCEPT ![p] = NoCall]
    /\ UNCHANGED <<cache, task, inflight, setting>>

(* refresh: join the task under way, or start one with this caller's time. *)
Refresh(c, now) ==
    LET p == Server[c] IN
    /\ c \in setting.who /\ call[c].phase = "idle" /\ LoopFree(p)
    /\ \/ /\ proc[p] = "closing"
          /\ call' = [call EXCEPT ![c] = Answered("closed")]
          /\ UNCHANGED <<task, inflight>>
       \/ /\ proc[p] = "up" /\ inflight[p] # 0
          /\ call' = [call EXCEPT ![c] = Waiting(inflight[p])]
          /\ UNCHANGED <<task, inflight>>
       \/ /\ proc[p] = "up" /\ inflight[p] = 0
          /\ \E i \in Slots :
                /\ task[p][i].phase = "none" /\ \A j \in 1 .. i - 1 : task[p][j].phase # "none"
                /\ task' = [task EXCEPT ![p][i] = Fetching(now)]
                /\ inflight' = [inflight EXCEPT ![p] = i]
                /\ call' = [call EXCEPT ![c] = Waiting(i)]
    /\ UNCHANGED <<cache, proc, setting>>

(* A caller that is cancelled leaves its shielded task alone.              *)
Abandon(c) ==
    /\ call[c].phase = "waiting" /\ LoopFree(Server[c])
    /\ call' = [call EXCEPT ![c] = Answered("cancelled")]
    /\ UNCHANGED <<cache, proc, task, inflight, setting>>

(* aclose refuses new callers, cancels the task under way and waits for it *)
(* to end.                                                                 *)
Close(p) ==
    /\ proc[p] = "up" /\ LoopFree(p)
    /\ proc' = [proc EXCEPT ![p] = "closing"]
    /\ task' = [task EXCEPT ![p] = [i \in Slots |->
           IF i = inflight[p] THEN [@[i] EXCEPT !.phase = "cancelling"] ELSE @[i]]]
    /\ UNCHANGED <<cache, inflight, call, setting>>

Closed(p) ==
    /\ proc[p] = "closing" /\ inflight[p] = 0
    /\ proc' = [proc EXCEPT ![p] = "down"]
    /\ UNCHANGED <<cache, task, inflight, call, setting>>

-----------------------------------------------------------------------------
(* The task.                                                               *)

(* It ends, and whoever still waits for it gets its result.                *)
End(p, i, result) ==
    /\ task' = [task EXCEPT ![p][i] = NoTask]
    /\ inflight' = [inflight EXCEPT ![p] = IF @ = i THEN 0 ELSE @]
    /\ call' = [c \in Callers |->
          IF Home(c) = p /\ call[c].phase = "waiting" /\ call[c].slot = i
          THEN Answered(result) ELSE call[c]]

Cancelled(p, i) ==
    /\ task[p][i].phase = "cancelling"
    /\ End(p, i, "cancelled")
    /\ UNCHANGED <<cache, proc, setting>>

(* Evidence that is dated after the caller's time, or has expired by then, *)
(* is refused before it is published.                                      *)
Received(t, g) ==
    IF Evaluated(g, t.now) = "valid"
    THEN [t EXCEPT !.gen = g, !.phase = "publish", !.outcome = "refreshed"]
    ELSE [t EXCEPT !.gen = g, !.phase = "readback", !.outcome = "degraded"]

(* The source answers, or not.                                             *)
Fetched(p, i) ==
    /\ task[p][i].phase = "fetching" /\ LoopFree(p)
    /\ \/ \E g \in setting.gens :
             task' = [task EXCEPT ![p][i] = Received(task[p][i], g)]
       \/ \E outcome \in {"degraded", "unavailable"} : Over(p, i, outcome, FALSE)
    /\ UNCHANGED <<cache, proc, inflight, call, setting>>

\* Mutant: only the very same generation makes a publication unnecessary.
SupersededSame(g) == g = current

Superseded(g) == g = current \/ Later(current, g)

(* publish takes the lock and reads what is current.  A read that fails    *)
(* counts as a malformed cache, and a malformed cache is never repaired.   *)
Decide(p, i) ==
    /\ task[p][i].phase = "publish" /\ Unlocked
    /\ LET g == task[p][i].gen
           readable == current # NoGen => files[current] = "complete"
       IN  \/ Over(p, i, "publication_failed", FALSE)
           \/ Corrupt(p, i)
           \/ readable /\ Superseded(g) /\ Over(p, i, "noop", FALSE)
           \/ /\ readable /\ ~ Superseded(g)
              /\ task' = [task EXCEPT ![p][i] = [@ EXCEPT !.phase = "stage",
                              !.prev = current]]
    /\ UNCHANGED <<cache, proc, inflight, call, setting>>

(* The three files are written into an incomplete directory, which nothing *)
(* reads and the next start of a process removes, and flushed.             *)
Stage(p, i) ==
    /\ task[p][i].phase = "stage"
    /\ Step(p, i, "rename") \/ Over(p, i, "publication_failed", FALSE)
    /\ UNCHANGED <<cache, proc, inflight, call, setting>>

(* It gets its final name, unless the same generation is there already.    *)
Rename(p, i) ==
    /\ task[p][i].phase = "rename"
    /\ LET g == task[p][i].gen IN
       \/ files[g] = "absent" /\ Becomes(g, "complete") /\ Step(p, i, "flushGens")
       \/ /\ files[g] = "complete" /\ Step(p, i, "flushGens")
          /\ UNCHANGED <<files, disk>>
       \/ /\ files[g] = "partial" /\ Corrupt(p, i)
          /\ UNCHANGED <<files, disk>>
       \/ Over(p, i, "publication_failed", FALSE) /\ UNCHANGED <<files, disk>>
    /\ UNCHANGED <<current, pointers, proc, inflight, call, setting>>

\* Mutant: the new name is not flushed before the pointer follows it.
FlushGensSkipped(p, i) ==
    /\ task[p][i].phase = "flushGens"
    /\ Step(p, i, "point")
    /\ UNCHANGED <<cache, proc, inflight, call, setting>>

FlushGens(p, i) ==
    /\ task[p][i].phase = "flushGens"
    /\ \/ disk' = Flushed /\ Step(p, i, "point")
       \/ Over(p, i, "publication_failed", FALSE) /\ UNCHANGED disk
    /\ UNCHANGED <<files, current, pointers, proc, inflight, call, setting>>

(* The new pointer, flushed under a temporary name, replaces the old one.  *)
Point(p, i) ==
    /\ task[p][i].phase = "point"
    /\ \/ /\ current' = task[p][i].gen /\ pointers' = pointers \cup {current'}
          /\ Step(p, i, "flushPointer")
       \/ Over(p, i, "publication_failed", FALSE) /\ UNCHANGED <<current, pointers>>
    /\ UNCHANGED <<files, disk, proc, inflight, call, setting>>

\* Mutant: a failing flush is not reported.
FlushPointerQuietly(p, i) ==
    /\ task[p][i].phase = "flushPointer"
    /\ \/ pointers' = {current} /\ Step(p, i, "prune")
       \/ Over(p, i, "refreshed", FALSE) /\ UNCHANGED pointers
    /\ UNCHANGED <<files, disk, current, proc, inflight, call, setting>>

(* From here on a failure only degrades the maintenance of the cache.      *)
FlushPointer(p, i) ==
    /\ task[p][i].phase = "flushPointer"
    /\ \/ pointers' = {current} /\ Step(p, i, "prune")
       \/ Over(p, i, "refreshed", TRUE) /\ UNCHANGED pointers
    /\ UNCHANGED <<files, disk, current, proc, inflight, call, setting>>

(* Complete generations other than the current and the one before it are   *)
(* removed, file by file.                                                  *)
Prunable(p, i) ==
    {g \in Gens : files[g] = "complete" /\ g \notin {task[p][i].gen, task[p][i].prev}}

Prune(p, i) ==
    /\ task[p][i].phase = "prune"
    /\ LET g == task[p][i].removing IN
       \/ /\ g = NoGen
          /\ \E h \in Prunable(p, i) :
                /\ Becomes(h, "partial")
                /\ task' = [task EXCEPT ![p][i].removing = h]
       \/ /\ g # NoGen /\ Becomes(g, "absent")
          /\ task' = [task EXCEPT ![p][i].removing = NoGen]
       \/ /\ g = NoGen /\ Prunable(p, i) = {}
          /\ disk' = Flushed /\ Over(p, i, "refreshed", FALSE)
          /\ UNCHANGED files
       \/ Over(p, i, "refreshed", TRUE) /\ UNCHANGED <<files, disk>>
    /\ UNCHANGED <<current, pointers, proc, inflight, call, setting>>

(* _fallback: whatever happened, the result shows what the cache holds     *)
(* now, and RefreshSourceResult rejects an outcome that does not go with   *)
(* it: the task raises.                                                    *)
Shaped(outcome, age) ==
    IF outcome \in (IF age = "valid" THEN {"cache_corrupt"} ELSE {"refreshed", "noop"})
    THEN "raised" ELSE outcome

ReadBack(p, i) ==
    /\ task[p][i].phase = "readback" /\ Unwritten
    /\ LET t == task[p][i]
           age == Evaluated(current, t.now)
           invalid == files[current] # "complete" \/ age = "future"
       IN  \/ End(p, i, "unreadable")
           \/ /\ current = NoGen
              /\ End(p, i, IF t.outcome \in {"refreshed", "noop"}
                           THEN "publication_failed" ELSE t.outcome)
           \/ current # NoGen /\ invalid /\ End(p, i, "cache_corrupt")
           \/ /\ current # NoGen /\ ~ invalid
              /\ End(p, i, Shaped(t.outcome, age))
    /\ UNCHANGED <<cache, proc, setting>>

-----------------------------------------------------------------------------
(* A request reads the pointer and then the generation it names, in a      *)
(* thread of its own, under the shared lock.  Unreadable is the model's    *)
(* name for a corrupt cache that was only called so because a read failed. *)
ReadPointer(c) ==
    /\ c \in setting.who /\ call[c].phase = "idle"
    /\ proc[Server[c]] \in {"up", "curated"} /\ Unwritten
    /\ \E next \in {IF current = NoGen THEN Answered("absent") ELSE Reading(current),
                    Answered("unreadable")} :
          call' = [call EXCEPT ![c] = next]
    /\ UNCHANGED <<cache, proc, task, inflight, setting>>

ReadGeneration(c, now) ==
    /\ call[c].phase = "reading"
    /\ LET g == call[c].named
           sound == files[g] = "complete" /\ Evaluated(g, now) # "future"
       IN  \E answer \in {IF sound THEN "available" ELSE "corrupt", "unreadable"} :
              call' = [call EXCEPT ![c] = Answered(answer)]
    /\ UNCHANGED <<cache, proc, task, inflight, setting>>

-----------------------------------------------------------------------------
(* A process dies at any step, and its locks with it.                      *)
Dead(ps) ==
    /\ proc' = [p \in Procs |-> IF p \in ps THEN "down" ELSE proc[p]]
    /\ task' = [p \in Procs |-> IF p \in ps THEN [i \in Slots |-> NoTask] ELSE task[p]]
    /\ inflight' = [p \in Procs |-> IF p \in ps THEN 0 ELSE inflight[p]]
    /\ call' = [c \in Callers |-> IF Home(c) \in ps THEN NoCall ELSE call[c]]
    /\ UNCHANGED setting

Crash(p) == proc[p] # "down" /\ Dead({p}) /\ UNCHANGED cache

PowerLoss ==
    /\ Dead(Procs)
    /\ files' \in [Gens -> DirStates] /\ \A g \in Gens : files'[g] \in disk[g]
    /\ disk' = [g \in Gens |-> {files'[g]}]
    /\ current' \in pointers /\ pointers' = {current'}

Next ==
    \/ \E p \in Procs :
          \/ Start(p) \/ Started(p) \/ Close(p) \/ Closed(p) \/ Crash(p)
          \/ \E i \in Slots :
                \/ Fetched(p, i) \/ Cancelled(p, i)
                \/ Decide(p, i) \/ Stage(p, i) \/ Rename(p, i) \/ FlushGens(p, i)
                \/ Point(p, i) \/ FlushPointer(p, i) \/ Prune(p, i) \/ ReadBack(p, i)
    \/ \E c \in Clients :
          \/ Abandon(c) \/ ReadPointer(c)
          \/ \E now \in Times : Refresh(c, now) \/ ReadGeneration(c, now)
    \/ PowerLoss

Spec == Init /\ [][Next]_vars

-----------------------------------------------------------------------------
(* The directory, the tasks and the calls are what the code can build.     *)
TypeOK ==
    /\ files \in [Gens -> DirStates]
    /\ disk \in [Gens -> (SUBSET DirStates) \ {{}}]
    /\ current \in pointers /\ pointers \subseteq Gens \cup {NoGen}
    /\ proc \in [Procs -> {"down", "starting", "up", "curated", "closing"}]
    /\ task \in [Procs -> [Slots ->
          [phase : AsyncPhases \cup LockedPhases \cup {"publish", "readback"},
           now : Times, gen : Gens \cup {NoGen}, prev : Gens \cup {NoGen},
           removing : Gens \cup {NoGen}, outcome : Outcomes,
           degraded : BOOLEAN, io : BOOLEAN]]]
    /\ inflight \in [Procs -> Slots \cup {0}]
    /\ call \in [Callers ->
          [phase : {"idle", "waiting", "reading"}, slot : Slots \cup {0},
           named : Gens \cup {NoGen}, answer : Answers]]
    /\ setting \in Settings

(* Whatever current.json names is a complete generation: now, half-way     *)
(* through a publication or its pruning, and after a power loss that keeps *)
(* any of the unflushed changes and drops the others.                      *)
CurrentIsComplete ==
    \A g \in pointers \ {NoGen} : files[g] = "complete" /\ disk[g] = {"complete"}

(* A process has one refresh of the source under way, and none when aclose *)
(* has returned: nothing it started publishes after that.                  *)
SingleFlight ==
    \A p \in Procs :
        /\ Cardinality({i \in Slots : task[p][i].phase # "none"}) <= 1
        /\ proc[p] = "down" => \A i \in Slots : task[p][i].phase = "none"

\* The cache and the tasks that write it at any moment.
CacheSound ==
    /\ TypeOK
    /\ CurrentIsComplete
    /\ SingleFlight

\* What a step may do to what is current and to what is kept.
NewestStep ==
    /\ current' # current =>
          \/ Later(current', current)
          \/ current' \in pointers /\ \A p \in Procs : proc'[p] = "down"
    /\ \A p \in Procs, i \in Slots :
          task[p][i].phase = "prune" /\ task'[p][i].phase = "readback"
          /\ ~ task'[p][i].degraded
          => Cardinality({g \in Gens : files'[g] = "complete"}) <= 2

(* Current evidence is only ever replaced by later evidence, whoever       *)
(* fetched first and whoever got the lock first; a power loss may take     *)
(* back a replacement that was not flushed.  A refresh that reports no     *)
(* degraded maintenance leaves two complete generations at most.           *)
NewestStays == [][NewestStep]_vars

\* The answer a to the call of c, which waits for t, says what is so.
AnswerIsTrue(t, c, a) ==
    /\ a \in {"refreshed", "noop"} =>
          ~ Later(t.gen, current) /\ Evaluated(current, t.now) = "valid"
    /\ a = "refreshed" /\ ~ t.degraded => \A g \in pointers : ~ Later(t.gen, g)
    /\ a = "cache_corrupt" /\ ~ t.io => Evaluated(current, t.now) = "future"
    /\ a = "corrupt" => files[call[c].named] = "complete"
    /\ a = "raised" => t.io

\* The task a call waits for.
Awaited(c) == IF call[c].slot = 0 THEN NoTask ELSE task[Home(c)][call[c].slot]

(* A refresh that reports success shows evidence at least as new as what   *)
(* it fetched, and without degraded maintenance that evidence survives a   *)
(* power loss.  A cache is called corrupt only when a clock was set back,  *)
(* and an exception leaves the coordinator only when publish could not     *)
(* read what it found: nobody meets a publication or a pruning half-way.   *)
AnswersSound ==
    [][\A c \in Callers :
          call'[c].phase = "idle" /\ call[c].phase # "idle" =>
             AnswerIsTrue(Awaited(c), c, call'[c].answer)]_vars
=============================================================================
