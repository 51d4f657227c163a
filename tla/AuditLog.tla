------------------------------ MODULE AuditLog ------------------------------
(***************************************************************************)
(* The tamper-evident audit log of the server: the appender                *)
(* (packages/db/src/audit-log.ts), the pruner (audit-retention.ts, driven  *)
(* by the CLI's audit-prune.ts), the verifiers (core/src/audit.ts,         *)
(* db/src/hmac-chain.ts) and the per-installation export check             *)
(* (audit-export.ts).                                                      *)
(*                                                                         *)
(* Every statement of a transaction is a step of its own, because Postgres *)
(* runs these transactions at its default READ COMMITTED level: a SELECT   *)
(* sees what is committed when it runs, and nothing holds a lock between   *)
(* the SELECT of the newest hash and the INSERT that uses it.              *)
(***************************************************************************)
EXTENDS Integers, Sequences, FiniteSets

CONSTANTS
    Appenders,   \* processes calling createAuditAppender(db)(event)
    Tenants,     \* installation ids
    MaxRows,     \* bound on the ids the bigserial sequence hands out
    MaxTime      \* bound on the wall clock

ASSUME TenantsAssumption == Tenants # {}
ASSUME RowsAssumption == MaxRows \in Nat
ASSUME TimeAssumption == MaxTime \in Nat

VARIABLES
    scoped,      \* the deployment's appenders are under the tenant_isolation policy
    clock,       \* Date.now(), never running backwards
    rows,        \* committed rows of audit_log
    log,         \* history: every row ever committed
    nextId,      \* next value of the id sequence (never reused, not rolled back)
    pc,          \* pc[a]: last finished step of appender a's transaction
    prev,        \* prev[a]: the hash a's SELECT returned
    draft,       \* draft[a]: the payload of the row a is appending
    newId,       \* newId[a]: the id a's INSERT drew
    prune,       \* the pruner: [pc, anchor]
    boundary,    \* history: the latest `before` any prune has used
    status,      \* what `audit prune --confirm` last reported
    raced        \* history: two appends have overlapped

vars == <<scoped, clock, rows, log, nextId, pc, prev, draft, newId, prune, boundary, status,
          raced>>
appenderVars == <<pc, prev, draft, newId>>

Payload == [ts : 0..MaxTime, tenant : Tenants]

\* A hash is the sequence of payloads it commits to, so SHA-256 is modelled
\* as collision free and AUDIT_GENESIS_HASH as the empty sequence.
Hash == Seq(Payload)
Genesis == <<>>

Row == [id : 1..MaxRows, ts : 0..MaxTime, tenant : Tenants, prev : Hash, hash : Hash]

canonicalPayload(ev) == [ts |-> ev.ts, tenant |-> ev.tenant]

computeAuditHash(prevHash, ev) == Append(prevHash, canonicalPayload(ev))

-----------------------------------------------------------------------------
(* Reading the table in id order.                                          *)

Before(S, r) == {q \in S : q.id < r.id}

\* The row `ORDER BY id DESC LIMIT 1` returns; only used on non-empty S.
Newest(S) == CHOOSE r \in S : \A q \in S : q.id <= r.id

\* The rows a verifier reports as breaks: each row is recomputed from its
\* predecessor's hash; the oldest surviving row's declared prevHash is trusted.
verifyAuditChainSegment(S) ==
    {r \in S : r.hash # computeAuditHash(
        IF Before(S, r) = {} THEN r.prev ELSE Newest(Before(S, r)).hash, r)}

\* loadAuditLogForExport: the rows `audit export` archives and first verifies.
loadAuditLogForExport(t, since, until) ==
    {r \in rows : r.tenant = t /\ r.ts >= since /\ r.ts <= until}

auditExportOk(t, since, until) ==
    verifyAuditChainSegment(loadAuditLogForExport(t, since, until)) = {}

-----------------------------------------------------------------------------
NoDraft == [ts |-> 0, tenant |-> CHOOSE t \in Tenants : TRUE]

Init ==
    /\ scoped \in BOOLEAN
    /\ clock = 0
    /\ rows = {}
    /\ log = {}
    /\ nextId = 1
    /\ pc = [a \in Appenders |-> "idle"]
    /\ prev = [a \in Appenders |-> Genesis]
    /\ draft = [a \in Appenders |-> NoDraft]
    /\ newId = [a \in Appenders |-> 0]
    /\ prune = [pc |-> "idle", anchor |-> 0]
    /\ boundary = 0
    /\ status = "none"
    /\ raced = FALSE

Tick ==
    /\ clock < MaxTime
    /\ clock' = clock + 1
    /\ UNCHANGED <<scoped, rows, log, nextId, appenderVars, prune, boundary, status, raced>>

VisibleOwn(t, S) == {r \in S : r.tenant = t}   \* mutant: WHERE installation_id = $1

\* The rows a session working for tenant t can see: under the policy
\* `installation_id = app.current_tenant` only its own.
Visible(t, S) == IF scoped THEN {r \in S : r.tenant = t} ELSE S

LastHash(S) == IF S = {} THEN Genesis ELSE Newest(S).hash

InFlightUnlinked(a) ==   \* mutant: the hash leaves prevHash out
    [id |-> newId[a], ts |-> draft[a].ts, tenant |-> draft[a].tenant,
     prev |-> prev[a], hash |-> computeAuditHash(Genesis, draft[a])]

InFlight(a) ==
    [id |-> newId[a], ts |-> draft[a].ts, tenant |-> draft[a].tenant,
     prev |-> prev[a], hash |-> computeAuditHash(prev[a], draft[a])]

SelectDirty(a, t) ==   \* mutant: the SELECT sees uncommitted inserts
    /\ pc[a] = "idle"
    /\ pc' = [pc EXCEPT ![a] = "read"]
    /\ prev' = [prev EXCEPT ![a] = LastHash(Visible(t,
         rows \cup {InFlight(b) : b \in {c \in Appenders : pc[c] = "inserted"}}))]
    /\ draft' = [draft EXCEPT ![a].tenant = t]
    /\ raced' = (raced \/ \E b \in Appenders : pc[b] # "idle")
    /\ UNCHANGED <<scoped, clock, rows, log, nextId, newId, prune, boundary, status>>

(* createAuditAppender: SELECT hash ... ORDER BY id DESC LIMIT 1.          *)
SelectLast(a, t) ==
    /\ pc[a] = "idle"
    /\ pc' = [pc EXCEPT ![a] = "read"]
    /\ prev' = [prev EXCEPT ![a] = LastHash(Visible(t, rows))]
    /\ draft' = [draft EXCEPT ![a].tenant = t]
    /\ raced' = (raced \/ \E b \in Appenders : pc[b] # "idle")
    /\ UNCHANGED <<scoped, clock, rows, log, nextId, newId, prune, boundary, status>>

(* appendAuditRow(prevHash, event, now): the timestamp is taken here.      *)
BuildRow(a) ==
    /\ pc[a] = "read"
    /\ pc' = [pc EXCEPT ![a] = "built"]
    /\ draft' = [draft EXCEPT ![a].ts = clock]
    /\ UNCHANGED <<scoped, clock, rows, log, nextId, prev, newId, prune, boundary, status, raced>>

(* tx.insert(auditLog): draws the next id; not visible to others yet.      *)
InsertRow(a) ==
    /\ pc[a] = "built"
    /\ nextId <= MaxRows
    /\ pc' = [pc EXCEPT ![a] = "inserted"]
    /\ newId' = [newId EXCEPT ![a] = nextId]
    /\ nextId' = nextId + 1
    /\ UNCHANGED <<scoped, clock, rows, log, prev, draft, prune, boundary, status, raced>>

\* The transaction is over, its locals are gone.
EndTransaction(a) ==
    /\ pc' = [pc EXCEPT ![a] = "idle"]
    /\ prev' = [prev EXCEPT ![a] = Genesis]
    /\ draft' = [draft EXCEPT ![a] = NoDraft]
    /\ newId' = [newId EXCEPT ![a] = 0]

Commit(a) ==
    /\ pc[a] = "inserted"
    /\ rows' = rows \cup {InFlight(a)}
    /\ log' = log \cup {InFlight(a)}
    /\ EndTransaction(a)
    /\ UNCHANGED <<scoped, clock, nextId, prune, boundary, status, raced>>

(* The transaction fails or its process dies: Postgres undoes the insert,  *)
(* the id stays drawn.                                                     *)
Rollback(a) ==
    /\ pc[a] # "idle"
    /\ EndTransaction(a)
    /\ UNCHANGED <<scoped, clock, rows, log, nextId, prune, boundary, status, raced>>

-----------------------------------------------------------------------------
(* pruneAuditLog(db, {before}), then the CLI's re-verification. The CLI    *)
(* connects with a role that bypasses row-level security.                  *)

ExpiredInclusive(b) == {r \in rows : r.ts <= b}   \* mutant: lte for lt

Expired(b) == {r \in rows : r.ts < b}

PruneSelect(b) ==
    /\ prune.pc = "idle"
    /\ boundary' = IF b > boundary THEN b ELSE boundary
    /\ prune' = IF Expired(b) = {}
                THEN [pc |-> "pruned", anchor |-> 0]
                ELSE [pc |-> "anchored", anchor |-> Newest(Expired(b)).id]
    /\ UNCHANGED <<scoped, clock, rows, log, nextId, appenderVars, status, raced>>

KeepsAfter(anchor) == {r \in rows : r.id > anchor}   \* mutant: the anchor goes too

KeepsFrom(anchor) == {r \in rows : r.id >= anchor}

PruneDelete ==
    /\ prune.pc = "anchored"
    /\ rows' = KeepsFrom(prune.anchor)
    /\ prune' = [pc |-> "pruned", anchor |-> 0]
    /\ UNCHANGED <<scoped, clock, log, nextId, appenderVars, boundary, status, raced>>

PruneVerify ==
    /\ prune.pc = "pruned"
    /\ status' = IF verifyAuditChainSegment(rows) = {} THEN "ok" ELSE "chain_break"
    /\ prune' = [prune EXCEPT !.pc = "idle"]
    /\ UNCHANGED <<scoped, clock, rows, log, nextId, appenderVars, boundary, raced>>

-----------------------------------------------------------------------------
AppendStep(a) ==
    \/ \E t \in Tenants : SelectLast(a, t)
    \/ BuildRow(a)
    \/ InsertRow(a)
    \/ Commit(a)
    \/ Rollback(a)

PruneStep ==
    \/ \E b \in 0..MaxTime + 1 : PruneSelect(b)
    \/ PruneDelete
    \/ PruneVerify

Next == Tick \/ PruneStep \/ \E a \in Appenders : AppendStep(a)

Spec == Init /\ [][Next]_vars

-----------------------------------------------------------------------------
(* The variables hold what the columns and locals of the code can hold.    *)
TypeOK ==
    /\ clock \in 0..MaxTime
    /\ rows \subseteq Row
    /\ log \subseteq Row
    /\ nextId \in 1..MaxRows + 1
    /\ pc \in [Appenders -> {"idle", "read", "built", "inserted"}]
    /\ prev \in [Appenders -> Hash]
    /\ draft \in [Appenders -> Payload]
    /\ newId \in [Appenders -> 0..MaxRows]
    /\ prune \in [pc : {"idle", "anchored", "pruned"}, anchor : 0..MaxRows]
    /\ boundary \in 0..MaxTime + 1
    /\ status \in {"none", "ok", "chain_break"}
    /\ scoped \in BOOLEAN
    /\ raced \in BOOLEAN

(* However many appenders race with each other and with the pruner, a      *)
(* committed row points back at genesis or at a row that was committed     *)
(* before it and has a smaller id: the log may fork, it never dangles and  *)
(* never points forward. This is what createAuditAppender promises without *)
(* any lock, rollbacks included.                                           *)
NoDangling ==
    \A r \in log : \/ r.prev = Genesis
                   \/ \E q \in log : q.hash = r.prev /\ q.id < r.id

(* The log is one chain, which docs/security/audit-log.md says the append   *)
(* transaction ensures: no two rows ever committed share a predecessor.    *)
ChainLinear == \A r, q \in log : r.prev = q.prev => r = q

(* Appends that never overlapped, by any number of appenders on one global *)
(* chain, keep it linear: no two rows share a predecessor, in particular   *)
(* no row restarts at genesis after a prune, whenever the pruner runs.     *)
SerialChain == ~raced /\ ~scoped => ChainLinear

(* With such appends the surviving rows always verify as a segment, also   *)
(* between the pruner's SELECT and its DELETE, and `audit prune --confirm` *)
(* has reported no break.                                                  *)
SerialSegment ==
    ~raced /\ ~scoped => verifyAuditChainSegment(rows) = {} /\ status # "chain_break"

(* Under row-level security every installation has a chain of its own, and *)
(* `audit export` accepts every slice of it that is contiguous in time.    *)
SerialExports ==
    ~raced /\ scoped =>
        \A t \in Tenants, since, until \in 0..MaxTime : auditExportOk(t, since, until)

(* pruneAuditLog only removes rows older than some `before` it was given,  *)
(* as docs/security/audit-log.md says. It deletes by id what it selects by *)
(* time, so this fails for appends that overlapped; see SerialRetention.   *)
RetentionKept == \A r \in log \ rows : r.ts < boundary

(* Without such appends it holds.                                          *)
SerialRetention == ~raced => RetentionKept

(* Appends that never overlapped leave an archive that can be trusted:     *)
(* every slice exported from an installation's chain is accepted, and a    *)
(* row that is gone was older than a cut-off given to the pruner.          *)
SerialArchive == SerialExports /\ SerialRetention

(* A prune never removes the row the next global append chains to.         *)
PruneKeepsTip == [][PruneDelete => LastHash(rows') = LastHash(rows)]_vars
=============================================================================
