--------------------------- MODULE ProviderIntents ---------------------------
(***************************************************************************)
(* The Provider Intent store of Core and the authority built on it: which  *)
(* state a guest is expected to be in, as an operator said it of one       *)
(* incarnation of the guest.                                               *)
(*                                                                         *)
(* The store is an SQLite database; a transaction is one step.  Its tables *)
(* are sets of rows.  A mutation verifies the live guest, looks at the     *)
(* active record and then writes: three steps, between which others write  *)
(* and the guest may be replaced.  Before Core is activated on the store   *)
(* the expectations are in the policy file; the store is filled by an      *)
(* import and may be of the schema before this one (P2c).                  *)
(***************************************************************************)
EXTENDS Naturals, FiniteSets

CONSTANTS
    Guests,       \* resource ids of QEMU guests
    Prints,       \* management fingerprints, one per incarnation
    Values,       \* expectations
    Requests,     \* request ids of clients
    Calls,        \* requests that Core may serve at the same time
    Policies,     \* what the policy file may say: guests -> value
    None,         \* no incarnation, no policy, no record
    Unknown,      \* the provider does not vouch for the identity of the guest
    Settings      \* what a behaviour may meet: clients and bounds

\* stores: the schemas of the stores found at first; direct: request ids that
\* put and supersede may be called with; requests, calls and policies: those in
\* use; version: record versions; replaced: replacements of guests; edits:
\* changes of the policy file; starts: restarts of Core.
\* The tags: what the derived request ids end with; a client's own id, a
\* guest, an incarnation and a policy are told apart from them and each other.
IntentsAssumption ==
    /\ None \notin Prints /\ Unknown \notin Prints /\ None # Unknown
    /\ \A p \in Policies : /\ DOMAIN p \subseteq Guests
                           /\ \A g \in DOMAIN p : p[g] \in Values
    /\ Policies \cap (Guests \cup {None}) = {}
    /\ {"request", "supersede", "activate", "import"} \cap (Guests \cup Prints) = {}
    /\ Settings \subseteq
         [stores : SUBSET {"absent", "p2c", "p3"}, requests : SUBSET Requests,
          direct : SUBSET Requests, calls : SUBSET Calls,
          policies : SUBSET Policies, version : Nat, replaced : Nat,
          edits : Nat, starts : Nat]

VARIABLES
    db,        \* the store
    core,      \* "down", "legacy", or the schema of the reader it opened
    policy,    \* the policy file
    loaded,    \* the policy that an import has read and not yet written
    live,      \* the incarnation of each guest, None when it is gone
    call,      \* the requests that are served
    told,      \* history: the successes that were answered
    asked,     \* history: the expectations given, by guest and incarnation
    replaced, edits, starts,
    setting    \* the setting of this behaviour: it never changes

vars == <<db, core, policy, loaded, live, call, told, asked, replaced, edits, starts,
          setting>>

----------------------------------------------------------------------------
(* Rows.                                                                   *)

\* build_provider_intent_id: a series is of one guest and one incarnation;
\* legacy evidence is bound to none.
Series(g, p) == [guest |-> g, print |-> p]

Record(s, n, life, value) ==
    [series |-> s, version |-> n, life |-> life, value |-> value]

Command == [id : setting.requests, guest : Guests, print : Prints,
            value : Values, expected : 0..setting.version]

\* Request ids of the rows of one mutation, and of an import.
Id(r) == <<r, "request">>
IdSupersede(r) == <<r, "supersede">>
IdActivate(r) == <<r, "activate">>
IdImport(p) == <<p, "import">>
IdSource(p, g) == <<p, g>>

EmptyStore(schema) ==
    [schema |-> schema, records |-> {}, audit |-> {}, requests |-> {},
     active |-> {}, operations |-> {}, opAudit |-> {}]

History(d, s) == {r \in d.records : r.series = s}

Latest(d, s) == CHOOSE r \in History(d, s) :
                   \A q \in History(d, s) : q.version <= r.version

StoredSeries(d) == {r.series : r \in d.records}

Current(d) == {Latest(d, s) : s \in StoredSeries(d)}

ActiveRecords(d) == {r \in Current(d) : r.life = "active"}

IdsFree(d, ids) == \A q \in d.requests : q.id \notin ids

\* _persist_mutation: record, audit event and request.
Persisted(d, record, id, digest, event) ==
    [d EXCEPT
       !.records = @ \cup {record},
       !.audit = @ \cup {[series |-> record.series, version |-> record.version,
                          request |-> id, digest |-> digest, event |-> event]},
       !.requests = @ \cup {[id |-> id, digest |-> digest, outcome |-> event,
                             record |-> record]}]

\* _insert_active_coordinate, _update_active_coordinate and
\* _delete_active_coordinate.
ActiveRow(r) == [guest |-> r.series.guest, series |-> r.series, version |-> r.version]

WithActive(d, r) ==
    [d EXCEPT !.active = {a \in @ : a.series # r.series} \cup {ActiveRow(r)}]

WithoutActive(d, s) == [d EXCEPT !.active = {a \in @ : a.series # s}]

----------------------------------------------------------------------------
(* Validation of the store.                                                *)

\* _validated_history: contiguous versions, each with the audit event and the
\* request that made it.
HistoryValid(d, s) ==
    LET rows == History(d, s)
        evidence == {a \in d.audit : a.series = s}
        Event(r) == IF r.version = 1 THEN "created"
                    ELSE IF r.life = "superseded" THEN "superseded" ELSE "updated"
    IN  /\ {r.version : r \in rows} = 1..Cardinality(rows)
        /\ Cardinality(evidence) = Cardinality(rows)
        /\ \A r \in rows : \E a \in evidence, q \in d.requests :
              /\ a.version = r.version
              /\ q.id = a.request /\ q.digest = a.digest
              /\ a.event = Event(r) /\ q.outcome = Event(r)
              /\ q.record = r

\* A request without audit events is an import's completion.
RequestsValid(d) ==
    \A q \in d.requests : \/ \E a \in d.audit : a.request = q.id
                          \/ q.outcome = "imported" /\ q.id = IdImport(q.digest)

OneActivePerGuest(d) ==
    \A a, b \in ActiveRecords(d) : a.series.guest = b.series.guest => a = b

\* _validate_p2c_store
P2cValid(d) ==
    /\ d.schema = "p2c"
    /\ \A s \in StoredSeries(d) : HistoryValid(d, s)
    /\ {a.series : a \in d.audit} = StoredSeries(d)
    /\ RequestsValid(d)
    /\ OneActivePerGuest(d)

\* The domain audit of one operation.
OperationValid(d, op) ==
    LET events == {e \in d.opAudit : e.request = op.id}
        expected == IF op.outcome = "rebound" THEN {"superseded", "rebound"}
                    ELSE {op.outcome}
    IN  /\ {e.event : e \in events} = expected
        /\ Cardinality(events) = Cardinality(expected)
        /\ \A e \in events : e.record \in d.records
        /\ \E r \in d.records :
              /\ r.series = Series(op.command.guest, op.command.print)
              /\ r.version = op.version
              /\ r.value = op.command.value

\* _validated_store_records and _validate_p3_evidence
P3Valid(d) ==
    /\ d.schema = "p3"
    /\ \A s \in StoredSeries(d) : HistoryValid(d, s)
    /\ {a.series : a \in d.audit} = StoredSeries(d)
    /\ RequestsValid(d)
    /\ OneActivePerGuest(d)
    /\ d.active = {ActiveRow(r) : r \in ActiveRecords(d)}
    /\ {op.id : op \in d.operations} = {e.request : e \in d.opAudit}
    /\ \A op \in d.operations : OperationValid(d, op)

----------------------------------------------------------------------------
(* mutate_coordinate                                                       *)

\* The series and the version of the active record of a guest.
Generation(rows) == {<<r.series, r.version>> : r \in rows}

ObservedGeneration(g) == Generation({a \in db.active : a.guest = g})

ActiveOf(d, g) == {r \in ActiveRecords(d) : r.series.guest = g}

\* _replay_coordinate_operation
Replays(d, cmd) == {op \in d.operations : op.id = cmd.id}

\* A new or a replacement binding: version 0 is expected and the incarnation
\* has no history.
FirstBinding(d, cmd) ==
    cmd.expected = 0 /\ History(d, Series(cmd.guest, cmd.print)) = {}

SameRequest(op, cmd) == op.command = cmd

\* What a command does to a guest whose active records are rows.
Binding(d, cmd, rows) ==
    LET bound == {r \in rows : r.series = Series(cmd.guest, cmd.print)} IN
    CASE bound # {} /\ (\E r \in bound : r.version = cmd.expected) -> "updated"
      [] rows = {} /\ FirstBinding(d, cmd) -> "created"
      [] rows # {} /\ bound = {} /\ FirstBinding(d, cmd) -> "rebound"
      [] OTHER -> "conflict"

Verdict(d, cmd, seen) ==
    LET rows == ActiveOf(d, cmd.guest) IN
    IF Replays(d, cmd) # {}
    THEN IF \E op \in Replays(d, cmd) : SameRequest(op, cmd)
         THEN "replay" ELSE "conflict"
    ELSE IF ~P3Valid(d) \/ Generation(rows) # seen
         THEN "conflict" ELSE Binding(d, cmd, rows)

\* The operation and its domain audit events.
Operation(d, cmd, outcome, n, events) ==
    [d EXCEPT
       !.operations = @ \cup {[id |-> cmd.id, command |-> cmd,
                               outcome |-> outcome, version |-> n]},
       !.opAudit = @ \cup {[request |-> cmd.id, record |-> e[1], event |-> e[2]] :
                             e \in events}]

Created(d, cmd) ==
    LET r == Record(Series(cmd.guest, cmd.print), 1, "active", cmd.value) IN
    Operation(WithActive(Persisted(d, r, Id(cmd.id), cmd, "created"), r),
              cmd, "created", 1, {<<r, "created">>})

\* The record that follows r.
NextVersion(r, life, value) == Record(r.series, r.version + 1, life, value)

\* Mutant: the active row keeps the version it had.
UpdatedStaleRow(d, cmd) ==
    LET old == Latest(d, Series(cmd.guest, cmd.print))
        r == NextVersion(old, "active", cmd.value)
    IN  Operation(Persisted(d, r, Id(cmd.id), cmd, "updated"),
                  cmd, "updated", r.version, {<<r, "updated">>})

Updated(d, cmd) ==
    LET old == Latest(d, Series(cmd.guest, cmd.print))
        r == NextVersion(old, "active", cmd.value)
    IN  Operation(WithActive(Persisted(d, r, Id(cmd.id), cmd, "updated"), r),
                  cmd, "updated", r.version, {<<r, "updated">>})

Rebound(d, cmd) ==
    LET previous == CHOOSE r \in ActiveOf(d, cmd.guest) : TRUE
        old == NextVersion(previous, "superseded", previous.value)
        new == Record(Series(cmd.guest, cmd.print), 1, "active", cmd.value)
        d1 == Persisted(d, old, IdSupersede(cmd.id), cmd, "superseded")
        d2 == Persisted(d1, new, IdActivate(cmd.id), cmd, "created")
    IN  Operation(WithActive(WithoutActive(d2, previous.series), new),
                  cmd, "rebound", 1, {<<old, "superseded">>, <<new, "rebound">>})

Written(d, cmd, verdict) ==
    CASE verdict = "created" -> Created(d, cmd)
      [] verdict = "updated" -> Updated(d, cmd)
      [] verdict = "rebound" -> Rebound(d, cmd)

\* The request ids that the rows of a mutation take.
IdsOf(cmd, verdict) ==
    IF verdict = "rebound" THEN {IdSupersede(cmd.id), IdActivate(cmd.id)}
                           ELSE {Id(cmd.id)}

----------------------------------------------------------------------------
(* Requests to Core: PUT monitoring-intent.                                *)

Idle == [pc |-> "idle", command |-> None, seen |-> {}, listed |-> None,
         answer |-> None]

Activated == core \in {"p2c", "p3"}

At(c, pc) == call[c].pc = pc

\* What a mutation is answered is in told when it is a success; a refusal leaves
\* nothing behind.
Answer(c) == call' = [call EXCEPT ![c] = Idle]

rest == <<policy, loaded, replaced, edits, starts>>

\* The listing may not vouch for the identity of a guest.
Listings == {[g \in Guests |-> IF live[g] # None /\ g \in U THEN Unknown ELSE live[g]] :
               U \in SUBSET Guests}

\* resolve_provider_intent_mutation_target
Verify(c, cmd) ==
    /\ Activated
    /\ At(c, "idle")
    /\ \E listing \in Listings :
          \/ /\ listing[cmd.guest] = cmd.print
             /\ call' = [call EXCEPT ![c] =
                           [Idle EXCEPT !.pc = "observe", !.command = cmd]]
          \/ listing[cmd.guest] # cmd.print /\ Answer(c)
    /\ UNCHANGED <<db, core, live, told, asked, rest>>

\* open_existing, and the active row before BEGIN IMMEDIATE.
Observe(c) ==
    /\ At(c, "observe")
    /\ IF P3Valid(db)
       THEN call' = [call EXCEPT ![c].pc = "write",
                       ![c].seen = ObservedGeneration(call[c].command.guest)]
       ELSE Answer(c)
    /\ UNCHANGED <<db, core, live, told, asked, rest>>

\* The answer, unless the security audit cannot be written: then the client is
\* told that the request failed.
Tell(c, cmd, outcome, n) ==
    \/ /\ Answer(c)
       /\ told' = told \cup {[command |-> cmd, outcome |-> outcome, version |-> n]}
    \/ Answer(c) /\ UNCHANGED told

\* The transaction.  A conflict, and an error of the database at any point, rolls
\* it back.
Write(c) ==
    /\ At(c, "write")
    /\ LET cmd == call[c].command
           verdict == Verdict(db, cmd, call[c].seen)
       IN
       \/ /\ verdict \in {"created", "updated", "rebound"}
          /\ IdsFree(db, IdsOf(cmd, verdict))
          /\ db' = Written(db, cmd, verdict)
          /\ \A r \in db'.records : r.version <= setting.version
          /\ asked' = asked \cup {<<cmd.guest, cmd.print, cmd.value>>}
          /\ \E op \in db'.operations :
                op.id = cmd.id /\ Tell(c, cmd, op.outcome, op.version)
       \/ /\ verdict = "replay"
          /\ \E op \in Replays(db, cmd) : Tell(c, cmd, op.outcome, op.version)
          /\ UNCHANGED <<db, asked>>
       \/ Answer(c) /\ UNCHANGED <<db, told, asked>>
    /\ UNCHANGED <<core, live, rest>>

----------------------------------------------------------------------------
(* put and supersede, the store's own operations on one series.            *)

\* Only the active record of the expected version is followed by another.
MayContinue(r, expected) == r.life = "active" /\ r.version = expected

put(cmd) ==
    /\ db.schema = "p3"
    /\ cmd.id \in setting.direct
    /\ IdsFree(db, {Id(cmd.id)})
    /\ LET s == Series(cmd.guest, cmd.print)
           fresh == History(db, s) = {}
           r == IF fresh THEN Record(s, 1, "active", cmd.value)
                         ELSE NextVersion(Latest(db, s), "active", cmd.value)
       IN  /\ IF fresh
              THEN /\ cmd.expected = 0
                   /\ \A a \in db.active : a.guest # cmd.guest
              ELSE MayContinue(Latest(db, s), cmd.expected)
           /\ r.version <= setting.version
           /\ db' = WithActive(Persisted(db, r, Id(cmd.id), cmd,
                                 IF fresh THEN "created" ELSE "updated"), r)
    /\ asked' = asked \cup {<<cmd.guest, cmd.print, cmd.value>>}
    /\ UNCHANGED <<core, live, call, told, rest>>

supersede(id, s, expected) ==
    /\ db.schema = "p3"
    /\ id \in setting.direct
    /\ IdsFree(db, {Id(id)})
    /\ History(db, s) # {}
    /\ MayContinue(Latest(db, s), expected)
    /\ LET r == NextVersion(Latest(db, s), "superseded", Latest(db, s).value)
       IN  /\ r.version <= setting.version
           /\ db' = WithoutActive(Persisted(db, r, Id(id), s, "superseded"), s)
    /\ UNCHANGED <<core, live, call, told, asked, rest>>

----------------------------------------------------------------------------
(* The policy file, its import and the migration of a P2c store.           *)

\* update_guest_expectation: refused by an activated Core.
UpdatePolicy(p) ==
    /\ core = "legacy"
    /\ edits < setting.edits
    /\ edits' = edits + 1
    /\ policy' = p
    /\ UNCHANGED <<db, core, loaded, live, call, told, asked, replaced, starts>>

\* load_legacy_policy_import
LoadImport ==
    /\ loaded = None
    /\ loaded' = policy
    /\ UNCHANGED <<db, core, policy, live, call, told, asked, replaced, edits, starts>>

\* The entries of an import, each a new version of the legacy evidence of its
\* guest, and the completion.
Imported(d, p) ==
    LET r == [g \in DOMAIN p |->
                LET s == Series(g, None)
                    n == Cardinality(History(d, s))
                IN  Record(s, n + 1, "legacy_unbound", p[g])]
        event == [g \in DOMAIN p |-> IF r[g].version = 1 THEN "created" ELSE "updated"]
    IN  [d EXCEPT
           !.records = @ \cup {r[g] : g \in DOMAIN p},
           !.audit = @ \cup {[series |-> r[g].series, version |-> r[g].version,
                              request |-> IdSource(p, g), digest |-> IdSource(p, g),
                              event |-> event[g]] : g \in DOMAIN p},
           !.requests = @ \cup {[id |-> IdSource(p, g), digest |-> IdSource(p, g),
                                 outcome |-> event[g], record |-> r[g]] :
                                   g \in DOMAIN p}
                          \cup {[id |-> IdImport(p), digest |-> p,
                                 outcome |-> "imported", record |-> None]}]

\* _validate_legacy_import_replay and get_import_completion
ImportComplete(d, p) ==
    /\ ~IdsFree(d, {IdImport(p)})
    /\ \A g \in DOMAIN p : ~IdsFree(d, {IdSource(p, g)})

\* import_legacy_policy: the store is made when it is absent; a P2c store is
\* not opened; a policy that was imported before is answered from its evidence.
import_legacy_policy ==
    /\ loaded # None
    /\ loaded' = None
    /\ IF db.schema = "p2c" \/ ~IdsFree(db, {IdImport(loaded)})
       THEN UNCHANGED db
       ELSE db' = Imported(IF db.schema = "absent" THEN EmptyStore("p3") ELSE db,
                           loaded)
    /\ UNCHANGED <<core, policy, live, call, told, asked, replaced, edits, starts>>

Migrated(d) == [d EXCEPT !.schema = "p3",
                         !.active = {ActiveRow(r) : r \in ActiveRecords(d)}]

\* migrate_p2c_provider_intent_store
Migrate ==
    /\ P2cValid(db)
    /\ db' = Migrated(db)
    /\ UNCHANGED <<core, live, call, told, asked, rest>>

----------------------------------------------------------------------------
(* Core's authority.                                                       *)

\* The configured import is that of the policy file, and it is complete.
ActivationAccepts(d) == ImportComplete(d, policy)

\* validate_provider_intent_activation
Start(activated) ==
    /\ core = "down"
    /\ IF activated
       THEN /\ P2cValid(db) \/ P3Valid(db)
            /\ ActivationAccepts(db)
            /\ core' = db.schema
       ELSE db.schema = "absent" /\ core' = "legacy"
    /\ UNCHANGED <<db, live, call, told, asked, rest>>

Stop ==
    /\ core # "down"
    /\ starts < setting.starts
    /\ starts' = starts + 1
    /\ core' = "down"
    /\ call' = [c \in Calls |-> Idle]
    /\ UNCHANGED <<db, policy, loaded, live, told, asked, replaced, edits>>

\* A collection pass lists the guests, then reads the store.
List(c) ==
    /\ Activated
    /\ At(c, "idle")
    /\ \E listing \in Listings :
          call' = [call EXCEPT ![c] = [Idle EXCEPT !.pc = "resolve",
                                                   !.listed = listing]]
    /\ UNCHANGED <<db, core, live, told, asked, rest>>

\* Mutant: the record of the guest is taken whatever its incarnation.
MatchesGuest(r, g, p) == r.series.guest = g

Matches(r, g, p) == r.series = Series(g, p)

\* _resolve_one, and the active records of guests that are gone.
Resolution(d, g, p) ==
    LET rows == ActiveOf(d, g)
        With(status, r) == [status |-> status, print |-> r.series.print,
                            value |-> r.value]
        Without(status) == [status |-> status, print |-> None, value |-> None]
    IN
    CASE p = None /\ rows # {} -> With("missing", CHOOSE r \in rows : TRUE)
      [] p = None /\ rows = {} -> Without("unlisted")
      [] p = Unknown -> Without("identity_unavailable")
      [] p \in Prints /\ (\E r \in rows : Matches(r, g, p)) ->
            With("configured", CHOOSE r \in rows : Matches(r, g, p))
      [] p \in Prints /\ (\A r \in rows : ~Matches(r, g, p)) ->
            Without(IF rows # {} THEN "incarnation_mismatch"
                    ELSE IF History(d, Series(g, None)) # {}
                         THEN "legacy_unbound_evidence"
                         ELSE "no_active_intent")

\* read_snapshot validates the store in the schema that Core opened.
Readable == (core = "p2c" /\ P2cValid(db)) \/ (core = "p3" /\ P3Valid(db))

Resolve(c) ==
    /\ At(c, "resolve")
    /\ call' = [call EXCEPT ![c].pc = "idle",
         ![c].answer = [g \in Guests |->
             IF Readable
             THEN Resolution(db, g, call[c].listed[g])
             ELSE [status |-> "unavailable", print |-> None, value |-> None]]]
    /\ UNCHANGED <<db, core, live, told, asked, rest>>

\* The guest is removed, or created again with the same id.
Replace(g, p) ==
    /\ replaced < setting.replaced
    /\ live[g] # p
    /\ replaced' = replaced + 1
    /\ live' = [live EXCEPT ![g] = p]
    /\ UNCHANGED <<db, core, policy, loaded, call, told, asked, edits, starts>>

----------------------------------------------------------------------------
(* Specification.                                                          *)

\* A P2c store: the import of the policy, and incarnations of guests with one
\* active record each; P2c did not keep a guest from having several.
P2cStore(p, B, v) ==
    LET d == Imported(EmptyStore("p2c"), p)
        r == [b \in B |-> Record(b, 1, "active", v)]
    IN  [d EXCEPT
           !.records = @ \cup {r[b] : b \in B},
           !.audit = @ \cup {[series |-> b, version |-> 1, request |-> <<b.guest, b.print>>,
                              digest |-> <<b.guest, b.print>>, event |-> "created"] : b \in B},
           !.requests = @ \cup {[id |-> <<b.guest, b.print>>, digest |-> <<b.guest, b.print>>,
                                 outcome |-> "created", record |-> r[b]] : b \in B}]

Init ==
    /\ setting \in Settings
    /\ policy \in setting.policies
    /\ \E schema \in setting.stores :
          \/ /\ schema = "absent"
             /\ db = EmptyStore("absent") /\ core = "legacy" /\ asked = {}
          \/ /\ schema = "p3"
             /\ db = Imported(EmptyStore("p3"), policy)
             /\ core = "p3" /\ asked = {}
          \/ /\ schema = "p2c"
             /\ \E B \in SUBSET {Series(g, p) : g \in Guests, p \in Prints},
                   v \in Values :
                   /\ db = P2cStore(policy, B, v)
                   /\ asked = {<<b.guest, b.print, v>> : b \in B}
             /\ core = "down"
    /\ loaded = None
    /\ live \in [Guests -> Prints]
    /\ call = [c \in Calls |-> Idle]
    /\ told = {}
    /\ replaced = 0 /\ edits = 0 /\ starts = 0

Next ==
    /\ \/ \E c \in setting.calls, cmd \in Command : Verify(c, cmd)
       \/ \E c \in setting.calls : Observe(c) \/ Write(c) \/ List(c) \/ Resolve(c)
       \/ \E cmd \in Command : put(cmd)
       \/ \E id \in setting.direct, s \in StoredSeries(db), n \in 1..setting.version :
             supersede(id, s, n)
       \/ \E p \in setting.policies : UpdatePolicy(p)
       \/ LoadImport \/ import_legacy_policy \/ Migrate
       \/ \E activated \in BOOLEAN : Start(activated)
       \/ Stop
       \/ \E g \in Guests, p \in Prints \cup {None} : Replace(g, p)
    /\ UNCHANGED setting

Spec == Init /\ [][Next]_vars

----------------------------------------------------------------------------
(* Properties.                                                             *)

\* Rows, calls and the authority keep their shape: an active row is of an
\* incarnation, never of legacy evidence.
TypeOK ==
    /\ setting \in Settings
    /\ db.schema \in {"absent", "p2c", "p3"}
    /\ \A r \in db.records : /\ r.series.print \in Prints \cup {None}
                             /\ r.version \in Nat \ {0}
                             /\ r.value \in Values
    /\ \A a \in db.active : a.guest \in Guests /\ a.series.print \in Prints
    /\ core \in {"down", "legacy", "p2c", "p3"}
    /\ \A c \in Calls : call[c].pc \in {"idle", "observe", "write", "resolve"}
    /\ asked \subseteq Guests \X Prints \X Values

\* _validated_store_records never refuses what the store's own operations
\* wrote, whatever mutations raced, failed and were repeated, and neither do
\* they after a migration: a store that is refused stays refused, and every
\* guest with it.
StoreValidates == db.schema = "p3" => P3Valid(db)

\* A superseded series ends there: no mutation, put or import continues or
\* revives the binding to an incarnation that was given up.
SupersededIsFinal ==
    \A r \in db.records :
        r.life = "superseded" => r = Latest(db, r.series)

\* While Core serves the store, the whole policy file it retains is in the
\* store's legacy evidence, whatever was edited between the import and the start.
ActivatedIsImported ==
    Activated => \A g \in DOMAIN policy :
        \E r \in History(db, Series(g, None)) : r.value = policy[g]

\* The store at any moment, whoever writes concurrently and whatever is migrated.
StoreSound ==
    /\ TypeOK
    /\ StoreValidates
    /\ SupersededIsFinal
    /\ ActivatedIsImported

\* A mutation that was answered with success is stored as it was answered,
\* then and after every restart, and a repeated request id is answered with
\* what the first one did or not at all.
AnswerIsStored ==
    \A t \in told :
        [id |-> t.command.id, command |-> t.command, outcome |-> t.outcome,
         version |-> t.version] \in db.operations

\* ATLAS_DESIGN_PRINCIPLES.md: reusable provider coordinates do not silently
\* transfer policy to a different incarnation.  An expectation that a
\* collection pass takes for configured was given for the incarnation it listed.
ConfiguredWasAsked ==
    \A c \in Calls :
        (At(c, "idle") /\ call[c].listed # None) =>
            \A g \in Guests :
                call[c].answer[g].status = "configured" =>
                    <<g, call[c].listed[g], call[c].answer[g].value>> \in asked

\* What callers were answered, and what the store holds for a guest, was asked.
RequestsHonoured ==
    /\ AnswerIsStored
    /\ ConfiguredWasAsked
=============================================================================
