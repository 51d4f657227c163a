------------------------------- MODULE KeyStore -------------------------------
(***************************************************************************)
(* The BYOK key API of the server (server/src/api/llm-keys.ts) over the    *)
(* key store (db/src/byok-store.ts), for one provider of one installation. *)
(*                                                                         *)
(* A request runs in a transaction on one pooled connection and appends to *)
(* the audit log, before it commits, on a second connection of the same    *)
(* pool. Postgres runs at READ COMMITTED: a SELECT sees committed rows     *)
(* only, a write waits for the transaction that wrote the row before.      *)
(***************************************************************************)
EXTENDS Naturals, FiniteSets, ApiGate

CONSTANTS
    Requests,       \* HTTP requests, each made once, numbered as they arrive
    Stored,         \* the API key stored before the first request
    None,           \* no row, no value, nobody
    PoolSize,       \* `max` of the connection pool
    Env             \* how the server was started

ASSUME RequestsAssumption == Requests \subseteq Nat
ASSUME NoneAssumption == None \notin Requests \cup {Stored} /\ Stored \notin Requests
ASSUME PoolAssumption == PoolSize \in Nat \ {0}
ASSUME EnvAssumption == Env \in ApiEnv /\ 0 \in Answers(Env, "keys")

VARIABLES
    row,            \* the committed installation_secrets row, as the secret it
                    \* decrypts to: Stored, that of an upsert q (named q), or None
    staged,         \* the row as its writer's transaction has it
    holder,         \* the request whose open transaction wrote the row, or None
    free,           \* idle connections of the pool
    req,            \* req[q]: [pc, op, read, reply]
    log,            \* requests with a row in the audit log
    lost,           \* history: requests whose audit append failed
    seen            \* history: seen[q], the values of the key since q was called

vars == <<row, staged, holder, free, req, log, lost, seen>>

Ops == {"list", "upsert", "rotate", "remove"}

Init ==
    /\ row \in {Stored, None}
    /\ staged = row
    /\ holder = None
    /\ free = PoolSize
    /\ req = [q \in Requests |-> [pc |-> "new", op |-> "none", read |-> None,
                                  reply |-> "none"]]
    /\ log = {}
    /\ lost = {}
    /\ seen = [q \in Requests |-> {}]

Open(q) == req[q].pc \notin {"new", "called", "done"}   \* q has a transaction

\* q is answered; the key is now v.
Reply(q, reply, v) ==
    /\ req' = [req EXCEPT ![q].pc = "done", ![q].read = None, ![q].reply = reply]
    /\ seen' = [p \in Requests |->
                  IF p = q THEN {}
                  ELSE IF req[p].pc \in {"new", "done"} THEN seen[p] ELSE seen[p] \cup {v}]
Goto(q, pc) == req' = [req EXCEPT ![q].pc = pc]

Call(q, op) ==
    /\ req[q].pc = "new"
    /\ \A p \in Requests : p < q => req[p].pc # "new"
    /\ req' = [req EXCEPT ![q].pc = "called", ![q].op = op]
    /\ seen' = [seen EXCEPT ![q] = {row}]
    /\ UNCHANGED <<row, staged, holder, free, log, lost>>

(* Answered before the database is touched.                                *)
Reject(q) ==
    /\ req[q].pc = "called"
    /\ Answers(Env, "keys") # {0}
    /\ Reply(q, "error", row)
    /\ UNCHANGED <<row, staged, holder, free, log, lost>>

(* withTenant: a connection, BEGIN and set_config. postgres-js queues the  *)
(* request without a time limit when every connection is taken.            *)
withTenant(q) ==
    /\ req[q].pc = "called"
    /\ free > 0
    /\ free' = free - 1
    /\ Goto(q, CASE req[q].op = "list" -> "listing"
                 [] req[q].op = "rotate" -> "reading"
                 [] OTHER -> "writing")
    /\ UNCHANGED <<row, staged, holder, log, lost, seen>>

\* The end of q's transaction: its connection and its row lock are released.
Release(q) ==
    /\ free' = free + 1
    /\ holder' = IF holder = q THEN None ELSE holder

RollbackKeeps(q) ==   \* mutant: the row lock is never released
    /\ free' = free + 1
    /\ UNCHANGED <<row, staged, holder, log, lost>>

Rollback(q) ==
    /\ Release(q)
    /\ staged' = IF holder = q THEN row ELSE staged
    /\ UNCHANGED <<row, log, lost>>

listDirty(q) ==   \* mutant: the list shows uncommitted rows
    /\ req[q].pc = "listing"
    /\ Reply(q, IF staged = None THEN "unset" ELSE "set", row)
    /\ Release(q)
    /\ UNCHANGED <<row, staged, log, lost>>

listProviders(q) ==
    /\ req[q].pc = "listing"
    /\ Reply(q, IF row = None THEN "unset" ELSE "set", row)
    /\ Release(q)
    /\ UNCHANGED <<row, staged, log, lost>>

(* rotate: read the row and have KMS unwrap its data key; without a row    *)
(* the transaction is rolled back and the answer is 404.                   *)
read(q) ==
    /\ req[q].pc = "reading"
    /\ IF row = None
       THEN Reply(q, "missing", row) /\ Rollback(q)
       ELSE /\ req' = [req EXCEPT ![q].pc = "writing", ![q].read = row]
            /\ UNCHANGED <<row, staged, holder, free, log, lost, seen>>

\* The secret a fresh data key wraps: a rotation's is the one it has read.
encryptWithDataKey(q) == IF req[q].op = "rotate" THEN req[q].read ELSE q

(* upsertWithSecret: INSERT ... ON CONFLICT DO UPDATE takes the row lock.  *)
upsertWithSecret(q) ==
    /\ req[q].pc = "writing"
    /\ req[q].op \in {"upsert", "rotate"}
    /\ holder = None
    /\ holder' = q
    /\ staged' = encryptWithDataKey(q)
    /\ Goto(q, "auditing")
    /\ UNCHANGED <<row, free, log, lost, seen>>

(* remove: DELETE waits for the writer of a row it sees; without a row it  *)
(* deletes nothing and is acknowledged all the same.                       *)
remove(q) ==
    /\ req[q].pc = "writing"
    /\ req[q].op = "remove"
    /\ IF row = None
       THEN UNCHANGED <<staged, holder>>
       ELSE holder = None /\ holder' = q /\ staged' = None
    /\ Goto(q, "auditing")
    /\ UNCHANGED <<row, free, log, lost, seen>>

(* auditAppender draws a connection of its own from the pool ...           *)
AuditBegin(q) ==
    /\ req[q].pc = "auditing"
    /\ free > 0
    /\ free' = free - 1
    /\ Goto(q, "appending")
    /\ UNCHANGED <<row, staged, holder, log, lost, seen>>

(* ... and commits there at once. A failed append is logged, not thrown.   *)
AuditEnd(q, ok) ==
    /\ req[q].pc = "appending"
    /\ free' = free + 1
    /\ log' = IF ok THEN log \cup {q} ELSE log
    /\ lost' = IF ok THEN lost ELSE lost \cup {q}
    /\ Goto(q, "committing")
    /\ UNCHANGED <<row, staged, holder, seen>>

CommitEarly(q) ==   \* mutant: the audit append is left until after COMMIT
    /\ req[q].pc = "auditing"
    /\ row' = IF holder = q THEN staged ELSE row
    /\ Release(q)
    /\ Reply(q, "ok", row')
    /\ UNCHANGED <<staged, log, lost>>

(* COMMIT, then 200; if the connection breaks after it, the client gets a  *)
(* 500 for a change that was made.                                         *)
Commit(q) ==
    /\ req[q].pc = "committing"
    /\ row' = IF holder = q THEN staged ELSE row
    /\ Release(q)
    /\ \E reply \in {"ok", "error"} : Reply(q, reply, row')
    /\ UNCHANGED <<staged, log, lost>>

(* KMS or a statement of the transaction throws: rollback and a 500. The   *)
(* audit row of a request that had appended one stays.                     *)
Throw(q) ==
    /\ Open(q) /\ req[q].pc \notin {"auditing", "appending"}
    /\ Reply(q, "error", row)
    /\ Rollback(q)

Step(q) ==
    \/ withTenant(q) \/ listProviders(q) \/ read(q)
    \/ upsertWithSecret(q) \/ remove(q)
    \/ AuditBegin(q) \/ (\E ok \in BOOLEAN : AuditEnd(q, ok))
    \/ Commit(q)

Next == \E q \in Requests :
    \/ \E op \in Ops : Call(q, op)
    \/ Reject(q)
    \/ Step(q)
    \/ Throw(q)

Spec == Init /\ [][Next]_vars

(* Node and Postgres run a started request as far as its locks and its     *)
(* connections let it; postgres-js serves its queue in order.              *)
FairSpec == Spec /\ \A q \in Requests : SF_vars(Step(q))

-----------------------------------------------------------------------------
(* The API implements the key register: whatever the order of statements,  *)
(* lock waits, failed appends and rollbacks, each request takes effect     *)
(* once, between its call and its answer; a 404 is given only if the key   *)
(* was absent meanwhile; and a rotation, which reads the key and writes it *)
(* back without a lock in between, leaves a value the key really had since *)
(* the rotation was called.                                                *)
Register == INSTANCE KeyRegister WITH
    secret <- row,
    call <- [q \in Requests |-> [op |-> req[q].op, reply |-> req[q].reply]]

RegisterSpec == Register!Spec

(* A change that was acknowledged is in the audit log or its append failed,*)
(* and only requests that got as far as the append are in the log; those   *)
(* among them that were answered 500 may have changed nothing.             *)
AuditTrail ==
    /\ \A q \in Requests : req[q].reply = "ok" => q \in log \cup lost
    /\ row \in Requests => row \in log \cup lost
    /\ \A q \in log : req[q].pc = "committing" \/ req[q].reply \in {"ok", "error"}

(* No connection is idle and each is held by a transaction that waits:     *)
(* for a second connection, or for the row lock of one that does.          *)
Exhausted ==
    /\ free = 0
    /\ \A q \in Requests :
         Open(q) => req[q].pc = "auditing" \/ (req[q].pc = "writing" /\ holder # None)

(* A request that passes the checks is answered, unless as many requests   *)
(* as the pool has connections hold one each and wait for the second one   *)
(* of an audit append, their own or that of the request whose row lock     *)
(* they need: from then on none of them is answered.                       *)
Answered ==
    \A q \in Requests : req[q].pc = "called" ~> req[q].pc = "done" \/ Exhausted
=============================================================================
