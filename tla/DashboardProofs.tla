--------------------------- MODULE DashboardProofs ---------------------------
(***************************************************************************)
(* The dashboard and the API behind it.  Theorems about KeyStore, for any  *)
(* number of requests, any pool and any way the server was started: the    *)
(* audit trail is complete, and the key API implements the key register of *)
(* KeyRegister.  Then about RepoConsole, as MCDashboard instantiates it,   *)
(* for any number of calls, prompts and scenes: what the pages of a        *)
(* repository show and overwrite.  Then about KeysPage, for any number of  *)
(* calls, installations and providers: what the page of LLM keys shows.    *)
(* Last about HistoryPages, for any number of jobs and repositories and a  *)
(* page of any length: what a walk of the review history has seen.         *)
(***************************************************************************)
EXTENDS Integers, FiniteSetTheorems, KeyStore, MCDashboard, TLAPS

Values == Requests \cup {Stored, None}

\* The program counters of a request that has written the row, or found none.
Decided == {"auditing", "appending", "committing"}

Request == [pc : {"new", "called", "listing", "reading", "writing", "done"} \cup Decided,
            op : Ops \cup {"none"}, read : Values,
            reply : {"none", "ok", "error", "set", "unset", "missing"}]

(* The variables hold what the table, the pool and a handler can hold.     *)
TypeOK ==
    /\ row \in Values
    /\ staged \in Values
    /\ holder \in Requests \cup {None}
    /\ req \in [Requests -> Request]
    /\ log \subseteq Requests
    /\ lost \subseteq Requests
    /\ seen \in [Requests -> SUBSET Values]

-----------------------------------------------------------------------------
(* The inductive invariant. A request has an operation once it is called   *)
(* and an answer once it is done, and its program counter is one of its    *)
(* operation's. While it is pending it has seen the committed row, so what *)
(* a rotation has read is a value the key had since the call. A request    *)
(* past its write holds the row lock and has staged its effect, or is a    *)
(* removal that found the key absent. Nobody else holds the lock.          *)

Stages(p) ==
    /\ p.op = "none" <=> p.pc = "new"
    /\ p.reply = "none" <=> p.pc # "done"
    /\ p.pc = "listing" => p.op = "list"
    /\ p.pc = "reading" => p.op = "rotate"
    /\ p.pc \in {"writing"} \cup Decided => p.op \in {"upsert", "rotate", "remove"}

Witnessed(q) ==
    /\ req[q].pc \notin {"new", "done"} => row \in seen[q]
    /\ req[q].op = "rotate" /\ req[q].pc \in {"writing"} \cup Decided
         => req[q].read \in seen[q] \ {None}

Staged(q) ==
    /\ req[q].pc \in Decided /\ req[q].op \in {"upsert", "rotate"}
         => holder = q /\ staged = encryptWithDataKey(q)
    /\ req[q].pc \in Decided /\ req[q].op = "remove"
         => (holder = q /\ staged = None) \/ (holder # q /\ None \in seen[q])
    /\ holder = q => req[q].pc \in Decided

KeyInv == TypeOK /\ \A q \in Requests : Stages(req[q]) /\ Witnessed(q) /\ Staged(q)

\* Nothing is committed, and nobody has seen anything, that the audit append
\* was not tried for; with it AuditTrail is inductive.
Tried == log \cup lost

TrailInv ==
    /\ AuditTrail
    /\ \A q \in Requests : req[q].pc = "committing" => q \in Tried
    /\ \A q \in Requests : seen[q] \cap Requests \subseteq Tried

-----------------------------------------------------------------------------
(* How a request's record changes.                                         *)

(* A request that is answered keeps its operation and has seen nothing.    *)
LEMMA ReplyEffect ==
    ASSUME TypeOK, NEW q \in Requests, NEW v \in Values,
           NEW reply \in {"ok", "error", "set", "unset", "missing"}, Reply(q, reply, v)
    PROVE  /\ req' \in [Requests -> Request] /\ seen' \in [Requests -> SUBSET Values]
           /\ req'[q].pc = "done" /\ req'[q].reply = reply /\ req'[q].op = req[q].op
           /\ seen'[q] = {}
  <1>1. \A p \in Requests : req[p] \in Request /\ seen[p] \in SUBSET Values
    BY DEF TypeOK
  <1>2. req' \in [Requests -> Request]
    <2>1. [req[q] EXCEPT !.pc = "done", !.read = None, !.reply = reply] \in Request
      BY <1>1 DEF Request, Values
    <2>2. req' = [req EXCEPT ![q] = [req[q] EXCEPT !.pc = "done", !.read = None, !.reply = reply]]
      BY DEF Reply
    <2> QED
      BY <2>1, <2>2 DEF TypeOK
  <1>3. seen' \in [Requests -> SUBSET Values]
    BY <1>1 DEF Reply
  <1>4. req'[q].pc = "done" /\ req'[q].reply = reply /\ req'[q].op = req[q].op
    BY <1>1 DEF Reply, TypeOK, Request
  <1> QED
    BY <1>2, <1>3, <1>4 DEF Reply, TypeOK

(* A request that goes on changes its program counter only.                *)
LEMMA GotoEffect ==
    ASSUME TypeOK, NEW q \in Requests,
           NEW pc \in {"listing", "reading", "writing"} \cup Decided, Goto(q, pc)
    PROVE  /\ req' \in [Requests -> Request]
           /\ req'[q].pc = pc /\ req'[q].op = req[q].op /\ req'[q].read = req[q].read
           /\ req'[q].reply = req[q].reply
           /\ \A p \in Requests \ {q} : req'[p] = req[p]
  <1>1. req[q] \in Request
    BY DEF TypeOK
  <1>2. [req[q] EXCEPT !.pc = pc] \in Request
    BY <1>1 DEF Request, Decided
  <1>3. req' = [req EXCEPT ![q] = [req[q] EXCEPT !.pc = pc]]
    BY DEF Goto
  <1> QED
    BY <1>1, <1>2, <1>3 DEF TypeOK, Request

(* The operation and answer of a request are its record in the register.   *)
CallMap == [q \in Requests |-> [op |-> req[q].op, reply |-> req[q].reply]]
-----------------------------------------------------------------------------
(* A request that is answered gives up the row lock; the others keep what  *)
(* they hold and have seen.                                                *)
LEMMA AnswerKeeps ==
    ASSUME KeyInv, NEW q \in Requests, req[q].pc \notin {"new", "done"}, row' \in Values,
           NEW reply \in {"ok", "error", "set", "unset", "missing"}, Reply(q, reply, row'),
           holder' = IF holder = q THEN None ELSE holder,
           staged' \in Values, staged' = staged \/ holder = q,
           UNCHANGED <<log, lost>>
    PROVE  KeyInv'
  <1>0. TypeOK
    BY DEF KeyInv
  <1>1. /\ req' \in [Requests -> Request] /\ seen' \in [Requests -> SUBSET Values]
        /\ req'[q].pc = "done" /\ req'[q].reply = reply /\ req'[q].op = req[q].op
        /\ \A p \in Requests \ {q} :
             /\ req'[p] = req[p] /\ seen[p] \subseteq seen'[p]
             /\ req[p].pc \notin {"new", "done"} => row' \in seen'[p]
    <2>1. PICK v \in Values : v = row' /\ Reply(q, reply, v)
      OBVIOUS
    <2>2. /\ req' \in [Requests -> Request] /\ seen' \in [Requests -> SUBSET Values]
          /\ req'[q].pc = "done" /\ req'[q].reply = reply /\ req'[q].op = req[q].op
      BY <1>0, <2>1, ReplyEffect
    <2>3. ASSUME NEW p \in Requests \ {q}
          PROVE  /\ req'[p] = req[p] /\ seen[p] \subseteq seen'[p]
                 /\ req[p].pc \notin {"new", "done"} => row' \in seen'[p]
      <3>1. /\ req'[p] = req[p] /\ seen[p] \subseteq seen'[p]
            /\ seen'[p] = IF req[p].pc \in {"new", "done"} THEN seen[p] ELSE seen[p] \cup {v}
        BY <1>0, <2>1 DEF Reply, TypeOK
      <3> QED
        BY <2>1, <3>1
    <2> QED
      BY <2>2, <2>3
  <1>2. TypeOK'
    BY <1>0, <1>1 DEF TypeOK
  <1>3. Stages(req'[q]) /\ Witnessed(q)' /\ Staged(q)'
    <2>1. holder' # q
      BY <1>0, NoneAssumption DEF TypeOK
    <2>2. req[q].op # "none"
      BY DEF KeyInv, Stages
    <2> QED
      BY <1>1, <2>1, <2>2 DEF Stages, Witnessed, Staged, Decided
  <1>4. ASSUME NEW p \in Requests \ {q}
        PROVE  Stages(req'[p]) /\ Witnessed(p)' /\ Staged(p)'
    <2>1. Stages(req[p]) /\ Witnessed(p) /\ Staged(p)
      BY DEF KeyInv
    <2>2. Witnessed(p)'
      BY <1>1, <2>1 DEF Witnessed
    <2>3. holder' = p <=> holder = p
      BY NoneAssumption
    <2>4. holder = p => staged' = staged
      OBVIOUS
    <2>5. Staged(p)'
      BY <1>1, <2>1, <2>3, <2>4 DEF Staged, encryptWithDataKey
    <2> QED
      BY <1>1, <2>1, <2>2, <2>5
  <1> QED
    BY <1>2, <1>3, <1>4 DEF KeyInv

(* Every statement, answer, rollback and commit preserves KeyInv.          *)
LEMMA KeyStep == KeyInv /\ [Next]_vars => KeyInv'
  <1> SUFFICES ASSUME KeyInv, [Next]_vars
               PROVE  KeyInv'
    OBVIOUS
  <1>0. TypeOK /\ \A q \in Requests : Stages(req[q]) /\ Witnessed(q) /\ Staged(q)
    BY DEF KeyInv
  <1>v. row \in Values /\ staged \in Values
    BY <1>0 DEF TypeOK
  <1>r. req \in [Requests -> Request] /\ \A q \in Requests : req[q] \in Request
    BY <1>0 DEF TypeOK
  \* A step of q within its transaction that leaves the row and its lock alone.
  <1>a. ASSUME NEW q \in Requests, NEW pc \in {"listing", "reading", "writing"} \cup Decided,
               Goto(q, pc), UNCHANGED <<row, staged, holder, seen>>, log' \cup lost' \subseteq Requests,
               req[q].pc \notin {"new", "done"},
               Stages([req[q] EXCEPT !.pc = pc]),
               req[q].pc \in {"writing"} \cup Decided \/ ~(pc \in {"writing"} \cup Decided /\ req[q].op = "rotate"),
               req[q].pc \in Decided \/ pc \notin Decided, req[q].pc \in Decided => pc \in Decided
        PROVE  KeyInv'
    <2>1. /\ req' \in [Requests -> Request]
          /\ req'[q].pc = pc /\ req'[q].op = req[q].op /\ req'[q].read = req[q].read
          /\ req'[q].reply = req[q].reply
          /\ \A p \in Requests \ {q} : req'[p] = req[p]
      BY <1>0, <1>a, GotoEffect
    <2>2. TypeOK'
      BY <1>0, <1>a, <2>1 DEF TypeOK
    <2>3. ASSUME NEW p \in Requests \ {q}
          PROVE  Stages(req'[p]) /\ Witnessed(p)' /\ Staged(p)'
      BY <1>0, <1>a, <2>1 DEF Witnessed, Staged, encryptWithDataKey
    <2>4. Stages(req'[q])
      BY <1>a, <1>r, <2>1 DEF Stages, Request
    <2>5. Witnessed(q)'
      BY <1>0, <1>a, <2>1 DEF Witnessed
    <2>6. Staged(q)'
      BY <1>0, <1>a, <2>1 DEF Staged, encryptWithDataKey
    <2> QED
      BY <2>2, <2>3, <2>4, <2>5, <2>6 DEF KeyInv
  <1>1. ASSUME NEW q \in Requests, NEW op \in Ops, Call(q, op)
        PROVE  KeyInv'
    <2>1. /\ req' = [req EXCEPT ![q] = [req[q] EXCEPT !.pc = "called", !.op = op]]
          /\ req[q].pc = "new" /\ seen' = [seen EXCEPT ![q] = {row}]
          /\ UNCHANGED <<row, staged, holder, log, lost>>
      BY <1>1 DEF Call
    <2>2. [req[q] EXCEPT !.pc = "called", !.op = op] \in Request
      BY <1>r DEF Request
    <2>3. TypeOK'
      BY <1>0, <1>v, <2>1, <2>2 DEF TypeOK
    <2>4. /\ req'[q].pc = "called" /\ req'[q].op = op /\ req'[q].reply = req[q].reply
          /\ row' \in seen'[q]
          /\ \A p \in Requests \ {q} : req'[p] = req[p] /\ seen'[p] = seen[p]
      BY <1>0, <1>r, <2>1 DEF TypeOK, Request
    <2>5. ASSUME NEW p \in Requests \ {q}
          PROVE  Stages(req'[p]) /\ Witnessed(p)' /\ Staged(p)'
      BY <1>0, <2>1, <2>4 DEF Witnessed, Staged, encryptWithDataKey
    <2>6. Stages(req'[q])
      BY <1>0, <2>1, <2>4 DEF Stages, Ops, Decided
    <2>7. Witnessed(q)' /\ Staged(q)'
      BY <1>0, <2>1, <2>4 DEF Witnessed, Staged, Decided
    <2> QED
      BY <2>3, <2>5, <2>6, <2>7 DEF KeyInv
  <1>2. ASSUME NEW q \in Requests, Reject(q)
        PROVE  KeyInv'
    <2>1. holder # q
      BY <1>0, <1>2 DEF Reject, Staged, Decided
    <2> QED
      BY <1>2, <1>v, <2>1, AnswerKeeps DEF Reject
  <1>3. ASSUME NEW q \in Requests, withTenant(q)
        PROVE  KeyInv'
    <2> DEFINE pc == CASE req[q].op = "list" -> "listing"
                       [] req[q].op = "rotate" -> "reading"
                       [] OTHER -> "writing"
    <2>1. /\ req[q].pc = "called" /\ Goto(q, pc)
          /\ UNCHANGED <<row, staged, holder, log, lost, seen>>
      BY <1>3 DEF withTenant
    <2>2. req[q].op \in Ops
      BY <1>0, <1>r, <2>1 DEF Stages, Request
    <2>3. \/ req[q].op = "list" /\ pc = "listing"
          \/ req[q].op = "rotate" /\ pc = "reading"
          \/ req[q].op \in {"upsert", "remove"} /\ pc = "writing"
      <3>1. CASE req[q].op = "list"
        BY <3>1
      <3>2. CASE req[q].op = "rotate"
        BY <3>2
      <3>3. CASE req[q].op \in {"upsert", "remove"}
        BY <3>3
      <3> QED
        BY <2>2, <3>1, <3>2, <3>3 DEF Ops
    <2> HIDE DEF pc
    <2>4. Stages([req[q] EXCEPT !.pc = pc])
      BY <1>0, <1>r, <2>1, <2>3 DEF Stages, Request, Decided
    <2>5. log' \cup lost' \subseteq Requests
      BY <1>0, <2>1 DEF TypeOK
    <2> QED
      BY <1>a, <2>1, <2>3, <2>4, <2>5 DEF Decided
  <1>4. ASSUME NEW q \in Requests, listProviders(q)
        PROVE  KeyInv'
    BY <1>4, <1>v, AnswerKeeps DEF listProviders, Release
  <1>5. ASSUME NEW q \in Requests, read(q)
        PROVE  KeyInv'
    <2>1. CASE row = None
      BY <1>5, <1>v, <2>1, AnswerKeeps DEF read, Rollback, Release
    <2>2. CASE row # None
      <3>1. /\ req' = [req EXCEPT ![q] = [req[q] EXCEPT !.pc = "writing", !.read = row]]
            /\ req[q].pc = "reading" /\ UNCHANGED <<row, staged, holder, log, lost, seen>>
        BY <1>5, <2>2 DEF read
      <3>2. [req[q] EXCEPT !.pc = "writing", !.read = row] \in Request
        BY <1>r, <1>v DEF Request
      <3>3. TypeOK'
        BY <1>0, <3>1, <3>2 DEF TypeOK
      <3>4. /\ req'[q].pc = "writing" /\ req'[q].op = req[q].op /\ req'[q].reply = req[q].reply
            /\ req'[q].read = row /\ \A p \in Requests \ {q} : req'[p] = req[p]
        BY <1>r, <3>1 DEF Request
      <3>5. ASSUME NEW p \in Requests \ {q}
            PROVE  Stages(req'[p]) /\ Witnessed(p)' /\ Staged(p)'
        BY <1>0, <3>1, <3>4 DEF Witnessed, Staged, encryptWithDataKey
      <3>6. Stages(req'[q]) /\ Staged(q)'
        BY <1>0, <3>1, <3>4 DEF Stages, Staged, Decided
      <3>7. Witnessed(q)'
        BY <1>0, <2>2, <3>1, <3>4 DEF Witnessed
      <3> QED
        BY <3>3, <3>5, <3>6, <3>7 DEF KeyInv
    <2> QED
      BY <2>1, <2>2
  \* q takes the row lock, or leaves it alone having found no row.
  <1>6. ASSUME NEW q \in Requests, req[q].pc = "writing", Goto(q, "auditing"),
               UNCHANGED <<row, log, lost, seen>>, staged' \in Values,
               \/ /\ holder = None /\ holder' = q
                  /\ \/ req[q].op \in {"upsert", "rotate"} /\ staged' = encryptWithDataKey(q)
                     \/ req[q].op = "remove" /\ staged' = None
               \/ row = None /\ req[q].op = "remove" /\ UNCHANGED <<staged, holder>>
        PROVE  KeyInv'
    <2>1. /\ req' \in [Requests -> Request]
          /\ req'[q].pc = "auditing" /\ req'[q].op = req[q].op /\ req'[q].read = req[q].read
          /\ req'[q].reply = req[q].reply
          /\ \A p \in Requests \ {q} : req'[p] = req[p]
      BY <1>0, <1>6, GotoEffect DEF Decided
    <2>2. TypeOK'
      BY <1>0, <1>6, <2>1 DEF TypeOK
    <2>3. Stages(req'[q]) /\ Witnessed(q)'
      BY <1>0, <1>6, <2>1 DEF Stages, Witnessed, Decided
    <2>4. holder # q
      BY <1>0, <1>6 DEF Staged, Decided
    <2>5. Staged(q)'
      <3>1. row \in seen[q]
        BY <1>0, <1>6 DEF Witnessed
      <3> QED
        BY <1>6, <2>1, <2>4, <3>1 DEF Staged, encryptWithDataKey, Decided
    <2>6. ASSUME NEW p \in Requests \ {q}
          PROVE  Stages(req'[p]) /\ Witnessed(p)' /\ Staged(p)'
      <3>1. Stages(req'[p]) /\ Witnessed(p)'
        BY <1>0, <1>6, <2>1 DEF Witnessed
      <3>2. Staged(p) /\ p # None
        BY <1>0, NoneAssumption
      <3>3. Staged(p)'
        BY <1>6, <2>1, <3>2 DEF Staged, encryptWithDataKey
      <3> QED
        BY <3>1, <3>3
    <2> QED
      BY <2>2, <2>3, <2>5, <2>6 DEF KeyInv
  <1>7. ASSUME NEW q \in Requests, upsertWithSecret(q)
        PROVE  KeyInv'
    <2>1. staged' \in Values
      BY <1>7, <1>r DEF upsertWithSecret, encryptWithDataKey, Request, Values
    <2> QED
      BY <1>6, <1>7, <2>1 DEF upsertWithSecret
  <1>8. ASSUME NEW q \in Requests, remove(q)
        PROVE  KeyInv'
    <2>1. staged' \in Values
      BY <1>8, <1>v DEF remove, Values
    <2> QED
      BY <1>6, <1>8, <2>1 DEF remove
  <1>9. ASSUME NEW q \in Requests, AuditBegin(q)
        PROVE  KeyInv'
    <2>1. log' \cup lost' \subseteq Requests
      BY <1>0, <1>9 DEF AuditBegin, TypeOK
    <2>2. Stages([req[q] EXCEPT !.pc = "appending"])
      BY <1>0, <1>r, <1>9 DEF AuditBegin, Stages, Request, Decided
    <2> QED
      BY <1>a, <1>9, <2>1, <2>2 DEF AuditBegin, Decided
  <1>10. ASSUME NEW q \in Requests, NEW ok \in BOOLEAN, AuditEnd(q, ok)
         PROVE  KeyInv'
    <2>1. log' \cup lost' \subseteq Requests
      BY <1>0, <1>10 DEF AuditEnd, TypeOK
    <2>2. Stages([req[q] EXCEPT !.pc = "committing"])
      BY <1>0, <1>r, <1>10 DEF AuditEnd, Stages, Request, Decided
    <2> QED
      BY <1>a, <1>10, <2>1, <2>2 DEF AuditEnd, Decided
  <1>11. ASSUME NEW q \in Requests, Commit(q)
         PROVE  KeyInv'
    BY <1>11, <1>v, AnswerKeeps DEF Commit, Release
  <1>12. ASSUME NEW q \in Requests, Throw(q)
         PROVE  KeyInv'
    BY <1>12, <1>v, AnswerKeeps DEF Throw, Open, Rollback, Release
  <1>13. CASE UNCHANGED vars
    BY <1>13 DEF vars, KeyInv, TypeOK, Witnessed, Staged, encryptWithDataKey
  <1> QED
    BY <1>1, <1>2, <1>3, <1>4, <1>5, <1>7, <1>8, <1>9, <1>10, <1>11, <1>12, <1>13 DEF Next, Step

(* No request has been called.                                             *)
LEMMA KeyInit == Init => KeyInv
  <1> SUFFICES ASSUME Init
               PROVE  KeyInv
    OBVIOUS
  <1>1. TypeOK
    BY DEF Init, TypeOK, Request, Values
  <1>2. \A q \in Requests : Stages(req[q]) /\ Witnessed(q) /\ Staged(q)
    BY NoneAssumption DEF Init, Stages, Witnessed, Staged, Decided
  <1> QED
    BY <1>1, <1>2 DEF KeyInv

(* Type correctness of the table, the locks and the handlers' locals.      *)
THEOREM TypeCorrect == Spec => []TypeOK
  <1>1. KeyInv => TypeOK
    BY DEF KeyInv
  <1> QED
    BY <1>1, KeyInit, KeyStep, PTL DEF Spec
-----------------------------------------------------------------------------
(* An answer to a request that was committing, or that is no success and   *)
(* was not in the log, keeps the trail when the key's new value was tried. *)
LEMMA AnswerTrail ==
    ASSUME KeyInv, TrailInv, NEW q \in Requests, row' \in Values,
           NEW reply \in {"ok", "error", "set", "unset", "missing"}, Reply(q, reply, row'),
           UNCHANGED <<log, lost>>, row' \in Requests => row' \in Tried,
           reply = "ok" => req[q].pc = "committing",
           reply # "error" => req[q].pc \in {"listing", "reading", "committing"},
           reply \in {"ok", "error"} \/ req[q].pc # "committing",
           req[q].pc # "done"
    PROVE  TrailInv'
  <1>0. TypeOK /\ Stages(req[q])
    BY DEF KeyInv
  <1>1. /\ req'[q].pc = "done" /\ req'[q].reply = reply /\ seen'[q] = {}
        /\ \A p \in Requests \ {q} :
             req'[p] = req[p] /\ seen'[p] \subseteq seen[p] \cup {row'}
    <2>1. req[q] \in Request
      BY <1>0 DEF TypeOK
    <2> QED
      BY <1>0, <2>1 DEF Reply, TypeOK, Request
  <1>2. Tried' = Tried
    BY DEF Tried
  <1>3. \A p \in Requests : seen'[p] \cap Requests \subseteq Tried'
    BY <1>1, <1>2 DEF TrailInv
  <1>4. \A p \in Requests : req'[p].pc = "committing" => p \in Tried'
    BY <1>1, <1>2 DEF TrailInv
  <1>5. \A p \in Requests : req'[p].reply = "ok" => p \in Tried'
    BY <1>1, <1>2 DEF TrailInv, AuditTrail, Tried
  <1>6. \A p \in log' : req'[p].pc = "committing" \/ req'[p].reply \in {"ok", "error"}
    <2>1. log' \subseteq Requests
      BY <1>0 DEF TypeOK
    <2>2. q \in log => reply \in {"ok", "error"}
      BY <1>0 DEF TrailInv, AuditTrail, Stages
    <2> QED
      BY <1>1, <2>1, <2>2 DEF TrailInv, AuditTrail
  <1> QED
    BY <1>2, <1>3, <1>4, <1>5, <1>6 DEF TrailInv, AuditTrail, Tried

(* Every step preserves TrailInv: a value is committed only by the request *)
(* whose append was tried, or by a rotation that had seen it committed.    *)
LEMMA TrailStep == KeyInv /\ TrailInv /\ [Next]_vars => TrailInv'
  <1> SUFFICES ASSUME KeyInv, TrailInv, [Next]_vars
               PROVE  TrailInv'
    OBVIOUS
  <1>0. TypeOK /\ \A q \in Requests : Stages(req[q]) /\ Witnessed(q) /\ Staged(q)
    BY DEF KeyInv
  <1>v. row \in Values /\ staged \in Values /\ (row \in Requests => row \in Tried)
    BY <1>0 DEF TypeOK, TrailInv, AuditTrail, Tried
  \* A step within q's transaction, before it is about to commit.
  <1>a. ASSUME NEW q \in Requests, UNCHANGED <<row, seen, log, lost>>,
               req'[q].reply = req[q].reply, req'[q].pc # "committing", req[q].pc \notin {"committing", "done"},
               \A p \in Requests \ {q} : req'[p] = req[p]
        PROVE  TrailInv'
    <2>1. q \notin log
      BY <1>0, <1>a DEF TrailInv, AuditTrail, Stages
    <2>2. log \subseteq Requests
      BY <1>0 DEF TypeOK
    <2> QED
      BY <1>a, <2>1, <2>2 DEF TrailInv, AuditTrail, Tried
  <1>g. ASSUME NEW q \in Requests, NEW pc \in {"listing", "reading", "writing", "auditing", "appending"},
               Goto(q, pc), UNCHANGED <<row, seen, log, lost>>, req[q].pc \notin {"committing", "done"}
        PROVE  TrailInv'
    <2>1. req'[q].reply = req[q].reply /\ req'[q].pc = pc /\ \A p \in Requests \ {q} : req'[p] = req[p]
      BY <1>0, <1>g, GotoEffect DEF Decided
    <2> QED
      BY <1>a, <1>g, <2>1
  <1>1. ASSUME NEW q \in Requests, NEW op \in Ops, Call(q, op)
        PROVE  TrailInv'
    <2>1. /\ req'[q].reply = req[q].reply /\ req'[q].pc = "called" /\ req[q].pc = "new"
          /\ \A p \in Requests \ {q} : req'[p] = req[p] /\ seen'[p] = seen[p]
          /\ seen'[q] = {row} /\ UNCHANGED <<row, log, lost>>
      BY <1>1, <1>0 DEF Call, TypeOK, Request
    <2>2. q \notin log /\ log \subseteq Requests
      BY <1>0, <2>1 DEF TrailInv, AuditTrail, Stages, TypeOK
    <2>3. AuditTrail' /\ \A p \in Requests : req'[p].pc = "committing" => p \in Tried'
      BY <2>1, <2>2 DEF TrailInv, AuditTrail, Tried
    <2>4. \A p \in Requests : seen'[p] \cap Requests \subseteq Tried'
      BY <1>v, <2>1 DEF TrailInv, Tried
    <2> QED
      BY <2>3, <2>4 DEF TrailInv
  <1>2. ASSUME NEW q \in Requests, Reject(q)
        PROVE  TrailInv'
    BY <1>2, <1>v, AnswerTrail DEF Reject
  <1>3. ASSUME NEW q \in Requests, withTenant(q)
        PROVE  TrailInv'
    <2>1. PICK pc \in {"listing", "reading", "writing"} : Goto(q, pc)
      BY <1>3 DEF withTenant
    <2> QED
      BY <1>3, <1>g, <2>1 DEF withTenant
  <1>4. ASSUME NEW q \in Requests, listProviders(q)
        PROVE  TrailInv'
    BY <1>4, <1>v, AnswerTrail DEF listProviders
  <1>5. ASSUME NEW q \in Requests, read(q)
        PROVE  TrailInv'
    <2>1. CASE row = None
      BY <1>5, <1>v, <2>1, AnswerTrail DEF read, Rollback
    <2>2. CASE row # None
      <3>1. /\ req'[q].reply = req[q].reply /\ req'[q].pc = "writing" /\ req[q].pc = "reading"
            /\ \A p \in Requests \ {q} : req'[p] = req[p]
            /\ UNCHANGED <<row, seen, log, lost>>
        BY <1>5, <1>0, <2>2 DEF read, TypeOK, Request
      <3> QED
        BY <1>a, <3>1
    <2> QED
      BY <2>1, <2>2
  <1>6. ASSUME NEW q \in Requests, upsertWithSecret(q) \/ remove(q)
        PROVE  TrailInv'
    BY <1>6, <1>g DEF upsertWithSecret, remove
  <1>7. ASSUME NEW q \in Requests, AuditBegin(q)
        PROVE  TrailInv'
    BY <1>7, <1>g DEF AuditBegin
  <1>8. ASSUME NEW q \in Requests, NEW ok \in BOOLEAN, AuditEnd(q, ok)
        PROVE  TrailInv'
    <2>1. /\ req'[q].pc = "committing" /\ req'[q].reply = req[q].reply
          /\ \A p \in Requests \ {q} : req'[p] = req[p]
      BY <1>0, <1>8, GotoEffect DEF AuditEnd, Decided
    <2>2. Tried' = Tried \cup {q} /\ log' \subseteq log \cup {q} /\ UNCHANGED <<row, seen>>
      BY <1>8 DEF AuditEnd, Tried
    <2>3. log' \subseteq Requests /\ req[q].reply # "ok"
      BY <1>0, <1>8, <2>2 DEF TypeOK, Stages, AuditEnd
    <2>4. /\ \A p \in Requests : req'[p].pc = "committing" => p \in Tried'
          /\ \A p \in Requests : seen'[p] \cap Requests \subseteq Tried'
      BY <2>1, <2>2 DEF TrailInv
    <2>5. \A p \in Requests : req'[p].reply = "ok" => p \in Tried'
      BY <2>1, <2>2, <2>3 DEF TrailInv, AuditTrail, Tried
    <2>6. row' \in Requests => row' \in Tried'
      BY <1>v, <2>2
    <2>7. \A p \in log' : req'[p].pc = "committing" \/ req'[p].reply \in {"ok", "error"}
      BY <2>1, <2>2, <2>3 DEF TrailInv, AuditTrail
    <2> QED
      BY <2>4, <2>5, <2>6, <2>7 DEF TrailInv, AuditTrail, Tried
  <1>9. ASSUME NEW q \in Requests, Commit(q)
        PROVE  TrailInv'
    <2>1. /\ req[q].pc = "committing" /\ row' = IF holder = q THEN staged ELSE row
          /\ UNCHANGED <<log, lost>> /\ \E reply \in {"ok", "error"} : Reply(q, reply, row')
      BY <1>9 DEF Commit
    <2>2. row' \in Requests => row' \in Tried
      <3>1. CASE holder # q
        BY <1>v, <2>1, <3>1
      <3>2. CASE holder = q
        <4>1. q \in Tried /\ req[q].op \in {"upsert", "rotate", "remove"}
          BY <1>0, <2>1 DEF TrailInv, Stages, Decided
        <4>2. CASE req[q].op = "upsert"
          BY <1>0, <2>1, <3>2, <4>1, <4>2 DEF Staged, Decided, encryptWithDataKey
        <4>3. CASE req[q].op = "rotate"
          <5>1. row' = req[q].read /\ req[q].read \in seen[q]
            BY <1>0, <2>1, <3>2, <4>3 DEF Staged, Witnessed, Decided, encryptWithDataKey
          <5> QED
            BY <5>1 DEF TrailInv
        <4>4. CASE req[q].op = "remove"
          BY <1>0, <2>1, <3>2, <4>4, NoneAssumption DEF Staged, Decided
        <4> QED
          BY <4>1, <4>2, <4>3, <4>4
      <3> QED
        BY <3>1, <3>2
    <2> QED
      BY <1>v, <2>1, <2>2, AnswerTrail
  <1>10. ASSUME NEW q \in Requests, Throw(q)
         PROVE  TrailInv'
    BY <1>10, <1>v, AnswerTrail DEF Throw, Open, Rollback
  <1>11. CASE UNCHANGED vars
    BY <1>11 DEF vars, TrailInv, AuditTrail, Tried
  <1> QED
    BY <1>1, <1>2, <1>3, <1>4, <1>5, <1>6, <1>7, <1>8, <1>9, <1>10, <1>11 DEF Next, Step

(* A change that was acknowledged or took effect is in the audit log or    *)
(* its append failed, and nothing else is in the log, for any number of    *)
(* requests racing for the row and the pool.                               *)
THEOREM TrailIsComplete == Spec => []AuditTrail
  <1>1. Init => TrailInv
    <2>1. Init => row \notin Requests
      BY NoneAssumption DEF Init
    <2> QED
      BY <2>1 DEF Init, TrailInv, AuditTrail, Tried
  <1>2. TrailInv => AuditTrail
    BY DEF TrailInv
  <1> QED
    BY <1>1, <1>2, KeyInit, KeyStep, TrailStep, PTL DEF Spec

-----------------------------------------------------------------------------
(* The refinement: the committed row is the register's key, and a request  *)
(* has its operation and its answer. A request takes effect in the         *)
(* register when it commits; every other answer observes the key, and the  *)
(* statements in between are stutters.                                     *)

(* An answer is the register's answer, and every pending request sees v.   *)
LEMMA AnswerMaps ==
    ASSUME KeyInv, NEW q \in Requests, req[q].pc \notin {"new", "done"}, NEW v \in Values,
           NEW reply \in {"ok", "error", "set", "unset", "missing"}, Reply(q, reply, v)
    PROVE  Register!Pending(q) /\ Register!Answer(q, reply) /\ Register!Seen(q, v)
  <1>0. TypeOK /\ \A p \in Requests : Stages(req[p])
    BY DEF KeyInv
  <1>1. CallMap' = [CallMap EXCEPT ![q].reply = reply]
    <2>1. \A p \in Requests : req[p] \in Request
      BY <1>0 DEF TypeOK
    <2> QED
      BY <1>0, <2>1 DEF CallMap, Reply, TypeOK, Request
  <1>2. \A p \in Requests : Register!Pending(p) <=> req[p].pc \notin {"new", "done"}
    BY <1>0 DEF Register!Pending, Stages
  <1>3. Register!Seen(q, v)
    BY <1>2 DEF Reply, Register!Seen
  <1>4. Register!Answer(q, reply)
    BY <1>1 DEF CallMap, Register!Answer
  <1> QED
    BY <1>2, <1>3, <1>4

(* An answer that leaves the key alone is an Observe step.                 *)
LEMMA AnswerObserves ==
    ASSUME KeyInv, NEW q \in Requests, req[q].pc \notin {"new", "done"}, UNCHANGED row,
           NEW reply \in {"ok", "error", "set", "unset", "missing"}, Reply(q, reply, row),
           \/ reply = "error"
           \/ req[q].op = "list" /\ reply = IF row = None THEN "unset" ELSE "set"
           \/ req[q].op = "remove" /\ None \in seen[q] /\ reply = "ok"
           \/ req[q].op = "rotate" /\ None \in seen[q] /\ reply = "missing"
    PROVE  Register!Observe(q)
  <1>0. row \in Values /\ row \in seen[q]
    BY DEF KeyInv, Witnessed, TypeOK
  <1>1. Register!Pending(q) /\ Register!Answer(q, reply) /\ Register!Seen(q, row)
    BY <1>0, AnswerMaps
  <1> QED
    BY <1>0, <1>1 DEF Register!Observe

(* The moment of its commit is when a change takes effect: an upsert       *)
(* leaves its own secret, a removal nothing, a rotation what it has read,  *)
(* and a removal that found no row observes the key.                       *)
LEMMA CommitApplies ==
    ASSUME KeyInv, NEW q \in Requests, Commit(q)
    PROVE  Register!Apply(q) \/ Register!Observe(q)
  <1>0. /\ row \in Values /\ staged \in Values
        /\ Stages(req[q]) /\ Witnessed(q) /\ Staged(q)
    BY DEF KeyInv, TypeOK
  <1>1. /\ req[q].pc = "committing" /\ row' = IF holder = q THEN staged ELSE row
        /\ \E reply \in {"ok", "error"} : Reply(q, reply, row')
    BY DEF Commit
  <1>2. PICK reply \in {"ok", "error"} : Reply(q, reply, row')
    BY <1>1
  <1>3. row' \in Values
    BY <1>0, <1>1
  <1>4. Register!Pending(q) /\ Register!Answer(q, reply) /\ Register!Seen(q, row')
    <2>1. PICK v \in Values : v = row'
      BY <1>3
    <2>2. Register!Pending(q) /\ Register!Answer(q, reply) /\ Register!Seen(q, v)
      BY <1>1, <1>2, <2>1, AnswerMaps
    <2> QED
      BY <2>1, <2>2
  <1>5. req[q].op \in {"upsert", "rotate", "remove"}
    BY <1>0, <1>1 DEF Stages, Decided
  <1>6. CASE holder = q
    <2>1. row' \in Register!Effects(q)
      <3>1. CASE req[q].op = "upsert"
        BY <1>0, <1>1, <1>6, <3>1 DEF Staged, Decided, encryptWithDataKey, Register!Effects
      <3>2. CASE req[q].op = "rotate"
        BY <1>0, <1>1, <1>6, <3>2 DEF Staged, Witnessed, Decided, encryptWithDataKey, Register!Effects
      <3>3. CASE req[q].op = "remove"
        BY <1>0, <1>1, <1>6, <3>3 DEF Staged, Decided, Register!Effects
      <3> QED
        BY <1>5, <3>1, <3>2, <3>3
    <2> QED
      BY <1>4, <2>1 DEF Register!Apply
  <1>7. CASE holder # q
    <2>1. req[q].op = "remove" /\ None \in seen[q] /\ UNCHANGED row
      BY <1>0, <1>1, <1>5, <1>7 DEF Staged, Decided
    <2> QED
      BY <1>1, <1>2, <2>1, AnswerObserves
  <1> QED
    BY <1>6, <1>7

(* A statement that only moves a request on is a stutter of the register.  *)
LEMMA GotoStutters ==
    ASSUME TypeOK, NEW q \in Requests, NEW p \in Request,
           p.op = req[q].op, p.reply = req[q].reply,
           req' = [req EXCEPT ![q] = p], UNCHANGED <<row, seen>>
    PROVE  UNCHANGED Register!vars
  <1>1. \A x \in Requests : req'[x].op = req[x].op /\ req'[x].reply = req[x].reply
    BY DEF TypeOK
  <1>2. CallMap' = CallMap
    BY <1>1 DEF CallMap
  <1> QED
    BY <1>2 DEF CallMap, Register!vars

(* Every step of the API is a step of the register or a stutter.           *)
LEMMA RegisterStep == KeyInv /\ [Next]_vars => [Register!Next]_(Register!vars)
  <1> SUFFICES ASSUME KeyInv, [Next]_vars
               PROVE  Register!Next \/ UNCHANGED Register!vars
    OBVIOUS
  <1>0. TypeOK /\ \A q \in Requests : Stages(req[q]) /\ Witnessed(q)
    BY DEF KeyInv
  <1>r. req \in [Requests -> Request] /\ \A q \in Requests : req[q] \in Request
    BY <1>0 DEF TypeOK
  <1>1. ASSUME NEW q \in Requests, NEW op \in Ops, Call(q, op)
        PROVE  Register!Next
    <2>1. /\ req[q].op = "none" /\ req[q].reply = "none" /\ UNCHANGED row
          /\ seen' = [seen EXCEPT ![q] = {row}]
          /\ req' = [req EXCEPT ![q] = [req[q] EXCEPT !.pc = "called", !.op = op]]
      BY <1>0, <1>1 DEF Call, Stages
    <2>2. CallMap' = [CallMap EXCEPT ![q] = [op |-> op, reply |-> "none"]]
      BY <1>r, <2>1 DEF CallMap, Request
    <2>3. Register!Call(q, op)
      BY <2>1, <2>2 DEF CallMap, Register!Call
    <2>4. op \in Register!Ops
      BY DEF Ops, Register!Ops
    <2> QED
      BY <2>3, <2>4 DEF Register!Next
  <1>2. ASSUME NEW q \in Requests, Reject(q) \/ Throw(q)
        PROVE  Register!Next
    <2>1. Register!Observe(q)
      BY <1>2, AnswerObserves DEF Reject, Throw, Open, Rollback
    <2> QED
      BY <2>1 DEF Register!Next
  <1>g. ASSUME NEW q \in Requests, NEW pc \in {"listing", "reading", "writing"} \cup Decided,
               Goto(q, pc), UNCHANGED <<row, seen>>
        PROVE  UNCHANGED Register!vars
    <2>1. [req[q] EXCEPT !.pc = pc] \in Request
      BY <1>r DEF Request, Decided
    <2> QED
      BY <1>0, <1>g, <1>r, <2>1, GotoStutters DEF Goto, Request
  <1>3. ASSUME NEW q \in Requests, withTenant(q)
        PROVE  UNCHANGED Register!vars
    <2>1. PICK pc \in {"listing", "reading", "writing"} : Goto(q, pc)
      BY <1>3 DEF withTenant
    <2> QED
      BY <1>3, <1>g, <2>1 DEF withTenant
  <1>4. ASSUME NEW q \in Requests, listProviders(q)
        PROVE  Register!Next
    <2>1. Register!Observe(q)
      BY <1>0, <1>4, AnswerObserves DEF listProviders, Stages
    <2> QED
      BY <2>1 DEF Register!Next
  <1>5. ASSUME NEW q \in Requests, read(q)
        PROVE  Register!Next \/ UNCHANGED Register!vars
    <2>1. CASE row = None
      <3>1. req[q].op = "rotate" /\ None \in seen[q] /\ req[q].pc = "reading"
        BY <1>0, <1>5, <2>1 DEF read, Stages, Witnessed
      <3>2. Register!Observe(q)
        BY <1>5, <2>1, <3>1, AnswerObserves DEF read, Rollback
      <3> QED
        BY <3>2 DEF Register!Next
    <2>2. CASE row # None
      <3>1. [req[q] EXCEPT !.pc = "writing", !.read = row] \in Request
        BY <1>0, <1>r DEF Request, TypeOK
      <3>2. req' = [req EXCEPT ![q] = [req[q] EXCEPT !.pc = "writing", !.read = row]]
        BY <1>5, <2>2 DEF read
      <3> QED
        BY <1>0, <1>5, <1>r, <2>2, <3>1, <3>2, GotoStutters DEF read, Request
    <2> QED
      BY <2>1, <2>2
  <1>6. ASSUME NEW q \in Requests,
               \/ upsertWithSecret(q) \/ remove(q) \/ AuditBegin(q)
               \/ \E ok \in BOOLEAN : AuditEnd(q, ok)
        PROVE  UNCHANGED Register!vars
    BY <1>6, <1>g DEF upsertWithSecret, remove, AuditBegin, AuditEnd, Decided
  <1>7. ASSUME NEW q \in Requests, Commit(q)
        PROVE  Register!Next
    BY <1>7, CommitApplies DEF Register!Next
  <1>8. CASE UNCHANGED vars
    BY <1>8 DEF vars, Register!vars
  <1> QED
    BY <1>1, <1>2, <1>3, <1>4, <1>5, <1>6, <1>7, <1>8 DEF Next, Step

(* The key API implements the key register, whatever the number of racing  *)
(* requests, the size of the pool and the failures: each request takes     *)
(* effect once, between its call and its answer, a 404 is given only if    *)
(* the key was absent meanwhile, and a rotation writes back a value the    *)
(* key really had since the rotation was called.                           *)
THEOREM ImplementsRegister == Spec => RegisterSpec
  <1>1. Init => Register!Init
    BY DEF Init, Register!Init, Register!Uncalled
  <1> QED
    BY <1>1, KeyInit, KeyStep, RegisterStep, PTL DEF Spec, RegisterSpec, Register!Spec

-----------------------------------------------------------------------------
(* The pages of a repository (RepoConsole).  The fields of the records are *)
(* named sets, which the proofs of their types do not expand.              *)

Drafts == Prompts \cup {""}

\* The data of the queries, per key.
PromptData == [prompt : Drafts, seen : SUBSET Changes]
RepoData == [live : BOOLEAN, enabled : BOOLEAN, seen : SUBSET Changes]
DataOf(k) == IF k = "repo-prompt" THEN PromptData ELSE RepoData

\* What the fields of a call may hold.
Askers == {"none", "ui", "api"}
Changing == {"none", "patch", "put", "delete"}
Arguments == BOOLEAN \cup Prompts \cup {""}
Progress == {"new", "sent", "checked", "updated", "answered"}
Statuses == {0, 200, 204, 400, 404}
Heard == {"none", "pending", "refetching", "ok", "failed"}
ConsoleCall ==
    [by : Askers, op : Changing, arg : Arguments, pc : Progress, reply : Statuses,
     ui : Heard, base : SUBSET Changes,
     after : BOOLEAN, over : SUBSET Changes, left : BOOLEAN, old : BOOLEAN]
PageNames == {"repos", "repo", "prompt"}
Fetches == {"idle", "asked", "read"}
AnyData == {NoData} \cup PromptData \cup RepoData
ConsolePage ==
    [at : PageNames, draft : Drafts, base : Drafts,
     baseSeen : SUBSET Changes, init : BOOLEAN, old : BOOLEAN, failed : BOOLEAN,
     mine : SUBSET Changes, asking : BOOLEAN, blocked : {NoData} \cup PageNames]
ConsoleEntry ==
    [data : AnyData, stale : BOOLEAN,
     fetch : Fetches, got : AnyData, late : BOOLEAN]

ArgumentsOK ==
    \A q \in Changes : /\ call[q].op = "patch" => call[q].arg \in BOOLEAN
                       /\ call[q].op = "put" => call[q].arg \in Drafts
                       /\ call[q].op = "none" => call[q].pc = "new"
EntriesOK ==
    \A k \in Console!Keys : /\ cache[k].data \in {NoData} \cup DataOf(k)
                            /\ cache[k].fetch = "read" => cache[k].got \in DataOf(k)
ConsoleTypeOK ==
    /\ scene \in PageScenes
    /\ mock \in BOOLEAN
    /\ repo \in [live : BOOLEAN, enabled : BOOLEAN, prompt : Drafts]
    /\ call \in [Changes -> ConsoleCall]
    /\ ArgumentsOK
    /\ cache \in [Console!Keys -> ConsoleEntry]
    /\ EntriesOK
    /\ page \in ConsolePage
    /\ done \subseteq Changes

-----------------------------------------------------------------------------
\* Calls: what the steps make of them.
SameRequest(q) ==
    /\ call'[q].by = call[q].by /\ call'[q].op = call[q].op /\ call'[q].arg = call[q].arg
    /\ call'[q].base = call[q].base /\ call'[q].after = call[q].after /\ call'[q].old = call[q].old
SameServer(q) ==
    call'[q].pc = call[q].pc /\ call'[q].reply = call[q].reply /\ call'[q].over = call[q].over
SameBrowser(q) == call'[q].ui = call[q].ui /\ call'[q].left = call[q].left

\* Replacing one call by a well-typed one leaves the others alone.
LEMMA ConsoleReplaced ==
    ASSUME call \in [Changes -> ConsoleCall], NEW q \in Changes, NEW new \in ConsoleCall,
           call' = [call EXCEPT ![q] = new]
    PROVE  /\ call' \in [Changes -> ConsoleCall]
           /\ call'[q] = new
           /\ \A p \in Changes \ {q} : call'[p] = call[p]
  OBVIOUS

\* Call q is sent with these arguments.
SentAs(q, by, op, arg, base, old) ==
    /\ call' \in [Changes -> ConsoleCall]
    /\ \A p \in Changes \ {q} : call'[p] = call[p]
    /\ call[q].pc = "new" /\ call'[q].pc = "sent" /\ call'[q].by = by /\ call'[q].op = op
    /\ call'[q].arg = arg /\ call'[q].base = base /\ (call'[q].old <=> old)
    /\ call'[q].reply = 0 /\ call'[q].over = {} /\ ~call'[q].left
    /\ call'[q].ui = (IF by = "ui" THEN "pending" ELSE "none")
    /\ call'[q].after => \E d \in Changes : call[d].reply = 204

\* A request is sent: what the browser and the server know of it then.
LEMMA ConsoleSent ==
    ASSUME call \in [Changes -> ConsoleCall], NEW q \in Changes, NEW by \in Askers,
           NEW op \in Changing, NEW arg \in Arguments,
           NEW base \in SUBSET Changes, NEW old \in BOOLEAN,
           Console!Sent(q, by, op, arg, base, old)
    PROVE  SentAs(q, by, op, arg, base, old)
<1> DEFINE after == \E d \in Changes : call[d].reply = 204
           ui == IF by = "ui" THEN "pending" ELSE "none"
           new == [Console!NoCall EXCEPT
                  !.by = by, !.op = op, !.arg = arg, !.pc = "sent", !.base = base, !.old = old,
                  !.ui = ui, !.after = after]
<1>1. call' = [call EXCEPT ![q] = new] /\ call[q].pc = "new"
  BY DEF Console!Sent
<1>2. /\ by \in Askers /\ op \in Changing /\ arg \in Arguments /\ "sent" \in Progress /\ 0 \in Statuses
      /\ ui \in Heard /\ after \in BOOLEAN /\ {} \in SUBSET Changes /\ FALSE \in BOOLEAN
  BY DEF Askers, Changing, Arguments, Progress, Statuses, Heard
<1> HIDE DEF after, ui
<1>3. Console!NoCall \in ConsoleCall /\ Console!NoCall.reply = 0 /\ Console!NoCall.over = {}
      /\ ~Console!NoCall.left
  BY DEF Console!NoCall, ConsoleCall, Askers, Changing, Arguments, Progress, Statuses, Heard
<1>4. new \in ConsoleCall
  BY <1>2, <1>3 DEF ConsoleCall
<1>5. /\ new.pc = "sent" /\ new.by = by /\ new.op = op
      /\ new.arg = arg /\ new.base = base /\ (new.old <=> old)
      /\ new.reply = 0 /\ new.over = {} /\ ~new.left
      /\ new.ui = ui /\ (new.after => after)
  BY <1>2, <1>3 DEF ConsoleCall
<1> HIDE DEF new
<1>6. /\ call' \in [Changes -> ConsoleCall]
      /\ call'[q] = new /\ \A p \in Changes \ {q} : call'[p] = call[p]
  BY <1>1, <1>4, ConsoleReplaced
<1> QED
  BY <1>1, <1>5, <1>6 DEF after, ui, SentAs

\* A call whose progress and answer the server sets keeps all else.
LEMMA ConsoleServed ==
    ASSUME call \in [Changes -> ConsoleCall], NEW q \in Changes,
           NEW pc \in Progress, NEW status \in Statuses,
           call' = [call EXCEPT ![q].pc = pc, ![q].reply = status]
    PROVE  /\ call' \in [Changes -> ConsoleCall]
           /\ \A p \in Changes \ {q} : call'[p] = call[p]
           /\ SameRequest(q) /\ SameBrowser(q)
           /\ call'[q].pc = pc /\ call'[q].reply = status /\ call'[q].over = call[q].over
<1> DEFINE new == [call[q] EXCEPT !.pc = pc, !.reply = status]
<1>1. call' = [call EXCEPT ![q] = new]
  OBVIOUS
<1>2. call[q] \in ConsoleCall
  OBVIOUS
<1>3. /\ new \in ConsoleCall
      /\ new.by = call[q].by /\ new.op = call[q].op /\ new.arg = call[q].arg
      /\ new.base = call[q].base /\ new.after = call[q].after /\ new.old = call[q].old
      /\ new.ui = call[q].ui /\ new.left = call[q].left
      /\ new.pc = pc /\ new.reply = status /\ new.over = call[q].over
  BY <1>2 DEF ConsoleCall
<1> HIDE DEF new
<1>4. /\ call' \in [Changes -> ConsoleCall]
      /\ call'[q] = new /\ \A p \in Changes \ {q} : call'[p] = call[p]
  BY <1>1, <1>3, ConsoleReplaced
<1> QED
  BY <1>3, <1>4 DEF SameRequest, SameBrowser

\* An answer of the server changes nothing but the call's progress.
LEMMA ConsoleAnswer ==
    ASSUME call \in [Changes -> ConsoleCall], NEW q \in Changes, NEW status \in {200, 400, 404},
           Console!Answer(q, status)
    PROVE  /\ call' \in [Changes -> ConsoleCall]
           /\ \A p \in Changes \ {q} : call'[p] = call[p]
           /\ SameRequest(q) /\ SameBrowser(q)
           /\ call'[q].pc = "answered" /\ call'[q].reply = status /\ call'[q].over = call[q].over
<1>1. "answered" \in Progress /\ status \in Statuses
  BY DEF Progress, Statuses
<1>2. call' = [call EXCEPT ![q].pc = "answered", ![q].reply = status]
  BY DEF Console!Answer
<1> HIDE DEF Console!Answer
<1> QED
  BY <1>1, <1>2, ConsoleServed

\* A call that found its repository keeps all but its progress.
LEMMA ConsoleChecked ==
    ASSUME call \in [Changes -> ConsoleCall], NEW q \in Changes,
           call' = [call EXCEPT ![q].pc = "checked"]
    PROVE  /\ call' \in [Changes -> ConsoleCall]
           /\ \A p \in Changes \ {q} : call'[p] = call[p]
           /\ SameRequest(q) /\ SameBrowser(q)
           /\ call'[q].pc = "checked" /\ call'[q].reply = call[q].reply /\ call'[q].over = call[q].over
<1> DEFINE new == [call[q] EXCEPT !.pc = "checked"]
<1>1. call' = [call EXCEPT ![q] = new]
  OBVIOUS
<1>2. call[q] \in ConsoleCall /\ "checked" \in Progress
  BY DEF Progress
<1>3. /\ new \in ConsoleCall
      /\ new.by = call[q].by /\ new.op = call[q].op /\ new.arg = call[q].arg
      /\ new.base = call[q].base /\ new.after = call[q].after /\ new.old = call[q].old
      /\ new.ui = call[q].ui /\ new.left = call[q].left
      /\ new.pc = "checked" /\ new.reply = call[q].reply /\ new.over = call[q].over
  BY <1>2 DEF ConsoleCall
<1> HIDE DEF new
<1>4. /\ call' \in [Changes -> ConsoleCall]
      /\ call'[q] = new /\ \A p \in Changes \ {q} : call'[p] = call[p]
  BY <1>1, <1>3, ConsoleReplaced
<1> QED
  BY <1>3, <1>4 DEF SameRequest, SameBrowser

\* An executed update is recorded, with the saves its author had not seen.
LEMMA ConsoleExecuted ==
    ASSUME call \in [Changes -> ConsoleCall], done \subseteq Changes, NEW q \in Changes,
           NEW pc \in Progress, NEW status \in Statuses, Console!Executed(q, pc, status)
    PROVE  /\ call' \in [Changes -> ConsoleCall] /\ done' = done \cup {q}
           /\ \A p \in Changes \ {q} : call'[p] = call[p]
           /\ SameRequest(q) /\ SameBrowser(q)
           /\ call'[q].pc = pc /\ call'[q].reply = status /\ call'[q].over = Console!Unseen(q)
<1> DEFINE over == Console!Unseen(q)
           new == [call[q] EXCEPT !.pc = pc, !.reply = status, !.over = over]
<1>1. over \in SUBSET Changes
  BY DEF Console!Unseen
<1>2. call' = [call EXCEPT ![q] = new] /\ done' = done \cup {q}
  BY DEF Console!Executed
<1>3. call[q] \in ConsoleCall
  OBVIOUS
<1> HIDE DEF over
<1>4. /\ new \in ConsoleCall
      /\ new.by = call[q].by /\ new.op = call[q].op /\ new.arg = call[q].arg
      /\ new.base = call[q].base /\ new.after = call[q].after /\ new.old = call[q].old
      /\ new.ui = call[q].ui /\ new.left = call[q].left
      /\ new.pc = pc /\ new.reply = status /\ new.over = over
  BY <1>1, <1>3 DEF ConsoleCall
<1> HIDE DEF new
<1>5. /\ call' \in [Changes -> ConsoleCall]
      /\ call'[q] = new /\ \A p \in Changes \ {q} : call'[p] = call[p]
  BY <1>2, <1>4, ConsoleReplaced
<1> QED
  BY <1>2, <1>4, <1>5 DEF SameRequest, SameBrowser, over

\* A call whose browser hears of its outcome keeps what the server knows.
LEMMA ConsoleTold ==
    ASSUME call \in [Changes -> ConsoleCall], NEW q \in Changes,
           NEW ui \in {"refetching", "ok", "failed"}, call' = [call EXCEPT ![q].ui = ui]
    PROVE  /\ call' \in [Changes -> ConsoleCall]
           /\ \A p \in Changes \ {q} : call'[p] = call[p]
           /\ SameRequest(q) /\ SameServer(q) /\ call'[q].ui = ui /\ call'[q].left = call[q].left
<1> DEFINE new == [call[q] EXCEPT !.ui = ui]
<1>1. call' = [call EXCEPT ![q] = new]
  OBVIOUS
<1>2. call[q] \in ConsoleCall /\ ui \in Heard
  BY DEF Heard
<1>3. /\ new \in ConsoleCall
      /\ new.by = call[q].by /\ new.op = call[q].op /\ new.arg = call[q].arg
      /\ new.base = call[q].base /\ new.after = call[q].after /\ new.old = call[q].old
      /\ new.ui = ui /\ new.left = call[q].left
      /\ new.pc = call[q].pc /\ new.reply = call[q].reply /\ new.over = call[q].over
  BY <1>2 DEF ConsoleCall
<1> HIDE DEF new
<1> QED
  BY <1>1, <1>3 DEF SameRequest, SameServer

\* Leaving a page marks the calls in S and changes nothing else of any call.
LEMMA ConsoleLeft ==
    ASSUME call \in [Changes -> ConsoleCall], NEW S,
           call' = [q \in Changes |-> IF q \in S THEN [call[q] EXCEPT !.left = TRUE] ELSE call[q]]
    PROVE  /\ call' \in [Changes -> ConsoleCall]
           /\ \A q \in Changes : /\ SameRequest(q) /\ SameServer(q) /\ call'[q].ui = call[q].ui
                                 /\ (call'[q].left <=> q \in S \/ call[q].left)
<1>1. SUFFICES ASSUME NEW q \in Changes
      PROVE  /\ call'[q] \in ConsoleCall
             /\ SameRequest(q) /\ SameServer(q) /\ call'[q].ui = call[q].ui
             /\ (call'[q].left <=> q \in S \/ call[q].left)
  OBVIOUS
<1>2. call[q] \in ConsoleCall
  OBVIOUS
<1>3. CASE q \in S
  <2> DEFINE new == [call[q] EXCEPT !.left = TRUE]
  <2>1. /\ new \in ConsoleCall
        /\ new.by = call[q].by /\ new.op = call[q].op /\ new.arg = call[q].arg
        /\ new.base = call[q].base /\ new.after = call[q].after /\ new.old = call[q].old
        /\ new.ui = call[q].ui /\ new.left
        /\ new.pc = call[q].pc /\ new.reply = call[q].reply /\ new.over = call[q].over
    BY <1>2 DEF ConsoleCall
  <2>2. call'[q] = new
    BY <1>3
  <2> HIDE DEF new
  <2> QED
    BY <1>3, <2>1, <2>2 DEF SameRequest, SameServer
<1>4. CASE q \notin S
  <2>1. call'[q] = call[q] /\ call[q].left \in BOOLEAN
    BY <1>2, <1>4 DEF ConsoleCall
  <2> QED
    BY <1>2, <1>4, <2>1 DEF SameRequest, SameServer
<1> QED
  BY <1>3, <1>4

-----------------------------------------------------------------------------
\* A query that is asked again keeps its data.
LEMMA ConsoleAsk ==
    ASSUME NEW e \in ConsoleEntry
    PROVE  /\ Console!Ask(e) \in ConsoleEntry
           /\ Console!Ask(e).data = e.data /\ Console!Ask(e).stale = e.stale
           /\ Console!Ask(e).fetch = "asked" /\ ~Console!Ask(e).late
  BY DEF Console!Ask, ConsoleEntry, Fetches, AnyData

\* Mounting a page asks for observed idle entries, for every stale one at
\* least, and keeps the data of all.
LEMMA ConsoleMounted ==
    ASSUME cache \in [Console!Keys -> ConsoleEntry], NEW at,
           cache' \in Console!Mounted(cache, at)
    PROVE  /\ cache' \in [Console!Keys -> ConsoleEntry]
           /\ \A k \in Console!Keys :
                \/ cache'[k] = cache[k]
                \/ /\ k \in Console!Observed(at) /\ cache[k].fetch = "idle"
                   /\ cache'[k].data = cache[k].data /\ cache'[k].stale = cache[k].stale
                   /\ cache'[k].fetch = "asked"
           /\ \A k \in Console!Observed(at) : k \in Console!Keys /\ cache[k].fetch = "idle" /\ cache[k].stale
                => cache'[k].fetch = "asked"
<1> DEFINE idle == {k \in Console!Observed(at) : cache[k].fetch = "idle"}
           must == {k \in idle : cache[k].stale}
<1>1. PICK old \in SUBSET idle :
        cache' = [k \in Console!Keys |-> IF k \in must \cup old THEN Console!Ask(cache[k]) ELSE cache[k]]
  BY DEF Console!Mounted
<1>2. ASSUME NEW k \in Console!Keys
      PROVE  /\ cache'[k] \in ConsoleEntry
             /\ \/ cache'[k] = cache[k]
                \/ /\ k \in Console!Observed(at) /\ cache[k].fetch = "idle"
                   /\ cache'[k].data = cache[k].data /\ cache'[k].stale = cache[k].stale
                   /\ cache'[k].fetch = "asked"
             /\ k \in must => cache'[k].fetch = "asked"
  <2>1. cache[k] \in ConsoleEntry
    OBVIOUS
  <2>2. CASE k \in must \cup old
    <3>1. k \in Console!Observed(at) /\ cache[k].fetch = "idle" /\ cache'[k] = Console!Ask(cache[k])
      BY <1>1, <2>2
    <3>2. /\ cache'[k] \in ConsoleEntry
          /\ cache'[k].data = cache[k].data /\ cache'[k].stale = cache[k].stale
          /\ cache'[k].fetch = "asked"
      BY <2>1, <3>1, ConsoleAsk
    <3> QED
      BY <3>1, <3>2
  <2>3. CASE k \notin must \cup old
    BY <1>1, <2>1, <2>3
  <2> QED
    BY <2>2, <2>3
<1>3. cache' \in [Console!Keys -> ConsoleEntry]
  BY <1>1, <1>2
<1> QED
  BY <1>2, <1>3

\* An invalidated entry is stale; it is asked for again, or what is on its
\* way will count as late.
LEMMA ConsoleInvalidated ==
    ASSUME cache \in [Console!Keys -> ConsoleEntry], NEW k \in Console!Keys,
           cache' = Console!Invalidated(k, cache)
    PROVE  /\ cache' \in [Console!Keys -> ConsoleEntry]
           /\ \A l \in Console!Keys \ {k} : cache'[l] = cache[l]
           /\ cache'[k].data = cache[k].data /\ cache'[k].stale
           /\ \/ k \in Console!Observed(page.at) /\ cache'[k].fetch = "asked"
              \/ /\ cache'[k].fetch = cache[k].fetch /\ cache'[k].got = cache[k].got
                 /\ (cache[k].fetch # "idle" => cache'[k].late)
<1> DEFINE e == [cache[k] EXCEPT !.stale = TRUE]
           f == [e EXCEPT !.late = (e.fetch # "idle")]
           new == IF k \in Console!Observed(page.at) /\ (e.fetch = "idle" \/ e.data # NoData)
                  THEN Console!Ask(e) ELSE f
<1>1. cache' = [cache EXCEPT ![k] = new]
  BY DEF Console!Invalidated
<1>2. cache[k] \in ConsoleEntry
  OBVIOUS
<1>3. e \in ConsoleEntry /\ e.data = cache[k].data /\ e.stale /\ e.fetch = cache[k].fetch
      /\ e.got = cache[k].got
  BY <1>2 DEF ConsoleEntry
<1> HIDE DEF e
<1>4. f \in ConsoleEntry /\ f.data = e.data /\ f.stale = e.stale /\ f.fetch = e.fetch
      /\ f.got = e.got /\ (e.fetch # "idle" => f.late)
  BY <1>3 DEF ConsoleEntry
<1> HIDE DEF f
<1>5. /\ new \in ConsoleEntry /\ new.data = cache[k].data /\ new.stale
      /\ \/ k \in Console!Observed(page.at) /\ new.fetch = "asked"
         \/ /\ new.fetch = cache[k].fetch /\ new.got = cache[k].got
            /\ (cache[k].fetch # "idle" => new.late)
  BY <1>3, <1>4, ConsoleAsk
<1> HIDE DEF new
<1> QED
  BY <1>1, <1>5

\* A query that has read its data waits for it to arrive.
LEMMA ConsoleFetched ==
    ASSUME cache \in [Console!Keys -> ConsoleEntry], NEW k \in Console!Keys, NEW got \in AnyData,
           cache' = [cache EXCEPT ![k].fetch = "read", ![k].got = got]
    PROVE  /\ cache' \in [Console!Keys -> ConsoleEntry]
           /\ \A l \in Console!Keys \ {k} : cache'[l] = cache[l]
           /\ cache'[k].data = cache[k].data /\ cache'[k].stale = cache[k].stale
           /\ cache'[k].fetch = "read" /\ cache'[k].got = got /\ cache'[k].late = cache[k].late
<1> DEFINE new == [cache[k] EXCEPT !.fetch = "read", !.got = got]
<1>1. cache' = [cache EXCEPT ![k] = new]
  OBVIOUS
<1>2. cache[k] \in ConsoleEntry /\ "read" \in Fetches
  BY DEF Fetches
<1>3. /\ new \in ConsoleEntry /\ new.data = cache[k].data /\ new.stale = cache[k].stale
      /\ new.fetch = "read" /\ new.got = got /\ new.late = cache[k].late
  BY <1>2 DEF ConsoleEntry
<1> HIDE DEF new
<1> QED
  BY <1>1, <1>3

\* Data that arrives is fresh, and late if it was invalidated meanwhile.
LEMMA ConsoleLoaded ==
    ASSUME cache \in [Console!Keys -> ConsoleEntry], NEW k \in Console!Keys,
           cache' = [cache EXCEPT ![k] = [data |-> cache[k].got, stale |-> FALSE,
                                      fetch |-> "idle", got |-> NoData,
                                      late |-> cache[k].late]]
    PROVE  /\ cache' \in [Console!Keys -> ConsoleEntry]
           /\ \A l \in Console!Keys \ {k} : cache'[l] = cache[l]
           /\ cache'[k].data = cache[k].got /\ ~cache'[k].stale
           /\ cache'[k].fetch = "idle" /\ cache'[k].late = cache[k].late
<1> DEFINE new == [data |-> cache[k].got, stale |-> FALSE, fetch |-> "idle", got |-> NoData,
                   late |-> cache[k].late]
<1>1. cache[k] \in ConsoleEntry /\ "idle" \in Fetches /\ NoData \in AnyData
  BY DEF Fetches, AnyData
<1>2. new \in ConsoleEntry
  BY <1>1 DEF ConsoleEntry
<1>3. /\ new.data = cache[k].got /\ ~new.stale
      /\ new.fetch = "idle" /\ new.late = cache[k].late
  OBVIOUS
<1> HIDE DEF new
<1>4. cache' = [cache EXCEPT ![k] = new]
  BY DEF new
<1> QED
  BY <1>2, <1>3, <1>4

\* A load that fails leaves the old data, stale.
LEMMA ConsoleLoadFailed ==
    ASSUME cache \in [Console!Keys -> ConsoleEntry], NEW k \in Console!Keys,
           cache' = [cache EXCEPT ![k].fetch = "idle", ![k].got = NoData, ![k].stale = TRUE]
    PROVE  /\ cache' \in [Console!Keys -> ConsoleEntry]
           /\ \A l \in Console!Keys \ {k} : cache'[l] = cache[l]
           /\ cache'[k].data = cache[k].data /\ cache'[k].stale
           /\ cache'[k].fetch = "idle"
<1> DEFINE new == [cache[k] EXCEPT !.fetch = "idle", !.got = NoData, !.stale = TRUE]
<1>1. cache' = [cache EXCEPT ![k] = new]
  OBVIOUS
<1>2. cache[k] \in ConsoleEntry /\ "idle" \in Fetches /\ NoData \in AnyData
  BY DEF Fetches, AnyData
<1>3. /\ new \in ConsoleEntry /\ new.data = cache[k].data /\ new.stale
      /\ new.fetch = "idle"
  BY <1>2 DEF ConsoleEntry
<1> HIDE DEF new
<1> QED
  BY <1>1, <1>3

-----------------------------------------------------------------------------
\* A page as it is opened: no calls, no dialog, an editor that is clean.
LEMMA ConsoleOpened ==
    ASSUME NEW at \in PageNames
    PROVE  /\ Console!Opened(at) \in ConsolePage
           /\ Console!Opened(at).at = at /\ Console!Opened(at).mine = {} /\ Console!Opened(at).old
           /\ ~Console!Opened(at).init /\ ~Console!Opened(at).failed
           /\ Console!Opened(at).draft = Console!Opened(at).base
           /\ ~Console!Opened(at).asking /\ Console!Opened(at).blocked = NoData
<1>1. "" \in Drafts
  BY DEF Drafts
<1> QED
  BY <1>1 DEF Console!Opened, ConsolePage

\* Page r is page p once the prompt's entry e has been seen.
Drafted(p, e, r) ==
    /\ r.at = p.at /\ r.failed = p.failed /\ r.mine = p.mine
    /\ r.asking = p.asking /\ r.blocked = p.blocked
    /\ \/ /\ p.at = "prompt" /\ ~p.init /\ e.data # NoData
          /\ r.init /\ r.baseSeen = e.data.seen
          /\ (~r.old => ~e.stale /\ e.fetch = "idle" /\ ~e.late)
       \/ r = p /\ (p.at = "prompt" /\ ~p.init => e.data = NoData)

\* What seeing the prompt's entry makes of a page (initDraft).
LEMMA ConsoleDrafted ==
    ASSUME NEW p \in ConsolePage, NEW e \in ConsoleEntry, e.data \in {NoData} \cup PromptData,
           NEW r, r = Console!initDraft(p, e)
    PROVE  r \in ConsolePage /\ Drafted(p, e, r)
<1>1. CASE p.at = "prompt" /\ ~p.init /\ e.data # NoData
  <2>1. e.data \in PromptData
    BY <1>1
  <2>2. e.data.prompt \in Drafts /\ e.data.seen \in SUBSET Changes
    BY <2>1 DEF PromptData
  <2> DEFINE old == e.stale \/ e.fetch # "idle" \/ e.late
  <2>3. r = [p EXCEPT !.draft = e.data.prompt, !.base = e.data.prompt,
                      !.baseSeen = e.data.seen, !.init = TRUE, !.old = old]
    BY <1>1 DEF Console!initDraft
  <2>4. old \in BOOLEAN
    OBVIOUS
  <2> HIDE DEF old
  <2>5. /\ r \in ConsolePage
        /\ r.at = p.at /\ r.failed = p.failed /\ r.mine = p.mine
        /\ r.asking = p.asking /\ r.blocked = p.blocked
        /\ r.init /\ r.baseSeen = e.data.seen /\ r.old = old
    BY <2>2, <2>3, <2>4 DEF ConsolePage
  <2> QED
    BY <1>1, <2>5 DEF old, Drafted
<1>2. CASE ~(p.at = "prompt" /\ ~p.init /\ e.data # NoData)
  BY <1>2 DEF Console!initDraft, Drafted
<1> QED
  BY <1>1, <1>2

-----------------------------------------------------------------------------
\* The steps, by what they do to the calls, the queries and the page.
OnlyCall(q) == \A p \in Changes \ {q} : call'[p] = call[p]
SamePage == page' = page /\ scene' = scene

\* The server makes progress with call q: it checks it, answers it, or executes
\* its update.
Checks(q) ==
    /\ ~mock /\ call[q].pc = "sent" /\ repo.live /\ call'[q].pc = "checked"
    /\ call'[q].reply = call[q].reply /\ call'[q].over = call[q].over
    /\ repo' = repo /\ done' = done
Ends(q) ==
    /\ call[q].pc \in {"sent", "checked", "updated"}
    /\ call'[q].pc = "answered" /\ call'[q].over = call[q].over
    /\ call'[q].reply \in {400, 404} \/ (call'[q].reply = 200 /\ call[q].pc = "updated")
    /\ repo' = repo /\ done' = done
Executes(q) ==
    /\ call[q].pc = (IF mock THEN "sent" ELSE "checked")
    /\ call'[q].over = Console!Unseen(q) /\ done' = done \cup {q}
    /\ \/ call'[q].pc = "updated" /\ call'[q].reply = 0
       \/ call'[q].pc = "answered" /\ call'[q].reply = 200
       \/ call'[q].pc = "answered" /\ call'[q].reply = 204 /\ ~repo'.live
    /\ repo'.live => repo.live
Serves(q) ==
    /\ cache' = cache /\ SamePage /\ mock' = mock /\ OnlyCall(q)
    /\ SameRequest(q) /\ SameBrowser(q)
    /\ Checks(q) \/ Ends(q) \/ Executes(q)

\* A call of the page or of the other operator is sent.
Sends(q, by, op) ==
    /\ cache' = cache /\ scene' = scene /\ mock' = mock /\ OnlyCall(q)
    /\ repo' = repo /\ done' = done
    /\ call[q].pc = "new" /\ call'[q].pc = "sent" /\ call'[q].by = by /\ call'[q].op = op
    /\ call'[q].reply = 0 /\ call'[q].over = {} /\ ~call'[q].left
    /\ call'[q].after => \E d \in Changes : call[d].reply = 204
    /\ op # "none"
    /\ \/ by = "api" /\ page' = page /\ call'[q].ui = "none"
       \/ /\ by = "ui" /\ call'[q].ui = "pending"
          /\ page'.at = page.at /\ page'.mine = page.mine \cup {q} /\ page'.baseSeen = page.baseSeen
          /\ page'.init = page.init /\ page'.old = page.old /\ page'.failed = page.failed
          /\ page'.blocked = page.blocked /\ (page'.asking => page.asking)
          /\ page'.draft = page.draft /\ page'.base = page.base
          /\ IF op = "put"
             THEN /\ page.at = "prompt" /\ page.draft # page.base
                  /\ call'[q].base = page.baseSeen /\ (call'[q].old <=> page.old)
                  /\ \A p \in page.mine : call[p].op = "put" => ~Console!Pending(p)
             ELSE page.at # "prompt"

\* A refused call ends with an error.
LEMMA ConsoleRefuse ==
    ASSUME ConsoleTypeOK, NEW q \in Changes, Console!Refuse(q)
    PROVE  ConsoleTypeOK' /\ Serves(q)
<1>1. /\ call[q].pc \in {"sent", "checked"} /\ Console!Answer(q, 400)
      /\ UNCHANGED <<scene, mock, repo, cache, page, done>>
  BY DEF Console!Refuse
<1>2. /\ call' \in [Changes -> ConsoleCall] /\ OnlyCall(q)
      /\ SameRequest(q) /\ SameBrowser(q)
      /\ call'[q].pc = "answered" /\ call'[q].reply = 400 /\ call'[q].over = call[q].over
  BY <1>1, ConsoleAnswer DEF ConsoleTypeOK, OnlyCall
<1>3. ConsoleTypeOK'
  BY <1>1, <1>2 DEF ConsoleTypeOK, ArgumentsOK, EntriesOK, OnlyCall, SameRequest
<1> QED
  BY <1>1, <1>2, <1>3 DEF Serves, SamePage, Ends

\* The check of a call: it goes on if the repository is live, or ends with 404.
LEMMA ConsoleSelectLive ==
    ASSUME ConsoleTypeOK, NEW q \in Changes, Console!selectLive(q)
    PROVE  ConsoleTypeOK' /\ Serves(q)
<1>1. /\ ~mock /\ call[q].pc = "sent"
      /\ UNCHANGED <<scene, mock, repo, cache, page, done>>
  BY DEF Console!selectLive
<1>2. CASE repo.live
  <2>1. call' = [call EXCEPT ![q].pc = "checked"]
    BY <1>2 DEF Console!selectLive
  <2>2. /\ call' \in [Changes -> ConsoleCall] /\ OnlyCall(q)
        /\ SameRequest(q) /\ SameBrowser(q)
        /\ call'[q].pc = "checked" /\ call'[q].reply = call[q].reply /\ call'[q].over = call[q].over
    BY <2>1, ConsoleChecked DEF ConsoleTypeOK, OnlyCall
  <2>3. ConsoleTypeOK'
    BY <1>1, <2>2 DEF ConsoleTypeOK, ArgumentsOK, EntriesOK, OnlyCall, SameRequest
  <2> QED
    BY <1>1, <1>2, <2>2, <2>3 DEF Serves, SamePage, Checks
<1>3. CASE ~repo.live
  <2>1. Console!Answer(q, 404)
    BY <1>3 DEF Console!selectLive
  <2>2. /\ call' \in [Changes -> ConsoleCall] /\ OnlyCall(q)
        /\ SameRequest(q) /\ SameBrowser(q)
        /\ call'[q].pc = "answered" /\ call'[q].reply = 404 /\ call'[q].over = call[q].over
    BY <2>1, ConsoleAnswer DEF ConsoleTypeOK, OnlyCall
  <2>3. ConsoleTypeOK'
    BY <1>1, <2>2 DEF ConsoleTypeOK, ArgumentsOK, EntriesOK, OnlyCall, SameRequest
  <2> QED
    BY <1>1, <2>2, <2>3 DEF Serves, SamePage, Ends
<1> QED
  BY <1>2, <1>3

\* The effect of an executed update on the row: it never revives a
\* deleted repository.
LEMMA ConsoleUpdated ==
    ASSUME ConsoleTypeOK, NEW q \in Changes, call[q].pc # "new"
    PROVE  /\ Console!Updated(q) \in [live : BOOLEAN, enabled : BOOLEAN, prompt : Drafts]
           /\ Console!Updated(q).live => repo.live
           /\ call[q].op = "delete" => ~Console!Updated(q).live
<1>1. /\ call[q] \in ConsoleCall /\ repo \in [live : BOOLEAN, enabled : BOOLEAN, prompt : Drafts]
      /\ call[q].op = "patch" => call[q].arg \in BOOLEAN
      /\ call[q].op = "put" => call[q].arg \in Drafts
      /\ call[q].op # "none"
  BY DEF ConsoleTypeOK, ArgumentsOK
<1>2. call[q].op \in {"patch", "put", "delete"}
  BY <1>1 DEF ConsoleCall, Changing
<1>3. CASE call[q].op = "patch"
  <2>1. Console!Updated(q) = [repo EXCEPT !.enabled = call[q].arg]
    BY <1>3 DEF Console!Updated
  <2> QED
    BY <1>1, <1>3, <2>1
<1>4. CASE call[q].op = "delete"
  <2>1. Console!Updated(q) = [repo EXCEPT !.live = FALSE]
    BY <1>4 DEF Console!Updated
  <2> QED
    BY <1>1, <1>4, <2>1
<1>5. CASE call[q].op = "put"
  <2>1. Console!Updated(q) = [repo EXCEPT !.prompt = Console!storedPrompt(call[q].arg)]
    BY <1>5 DEF Console!Updated
  <2>2. Console!storedPrompt(call[q].arg) \in Drafts
    BY <1>1, <1>5 DEF Console!storedPrompt, Drafts
  <2> QED
    BY <1>1, <1>5, <2>1, <2>2
<1> QED
  BY <1>2, <1>3, <1>4, <1>5

\* An update that is executed serves its call.
LEMMA ConsoleExecutes ==
    ASSUME ConsoleTypeOK, NEW q \in Changes, NEW pc, NEW status, Console!Executed(q, pc, status),
           call[q].pc = (IF mock THEN "sent" ELSE "checked"),
           \/ pc = "updated" /\ status = 0
           \/ pc = "answered" /\ status = 200
           \/ pc = "answered" /\ status = 204 /\ call[q].op = "delete",
           UNCHANGED <<scene, mock, cache, page>>
    PROVE  ConsoleTypeOK' /\ Serves(q)
<1>1. pc \in Progress /\ status \in Statuses
  BY DEF Progress, Statuses
<1>2. call \in [Changes -> ConsoleCall] /\ done \subseteq Changes
  BY DEF ConsoleTypeOK
<1>3. /\ call' \in [Changes -> ConsoleCall] /\ done' = done \cup {q} /\ OnlyCall(q)
      /\ SameRequest(q) /\ SameBrowser(q)
      /\ call'[q].pc = pc /\ call'[q].reply = status /\ call'[q].over = Console!Unseen(q)
  BY <1>1, <1>2, ConsoleExecuted DEF OnlyCall
<1>4. call[q].pc # "new"
  OBVIOUS
<1>5. repo' = Console!Updated(q)
  BY DEF Console!Executed
<1>6. /\ repo' \in [live : BOOLEAN, enabled : BOOLEAN, prompt : Drafts]
      /\ repo'.live => repo.live
      /\ call[q].op = "delete" => ~repo'.live
  BY <1>4, <1>5, ConsoleUpdated
<1>7. ConsoleTypeOK'
  <2>1. ArgumentsOK'
    BY <1>3, <1>4 DEF ConsoleTypeOK, ArgumentsOK, OnlyCall, SameRequest
  <2>2. done' \subseteq Changes
    BY <1>2, <1>3
  <2> QED
    BY <1>3, <1>6, <2>1, <2>2 DEF ConsoleTypeOK, EntriesOK
<1>8. Executes(q)
  BY <1>3, <1>6 DEF Executes
<1> QED
  BY <1>3, <1>7, <1>8 DEF Serves, SamePage

\* The UPDATE statement serves its call.
LEMMA ConsoleUpdate ==
    ASSUME ConsoleTypeOK, NEW q \in Changes, Console!update(q)
    PROVE  ConsoleTypeOK' /\ Serves(q)
<1>1. /\ call[q].pc = (IF mock THEN "sent" ELSE "checked")
      /\ UNCHANGED <<scene, mock, cache, page>>
  BY DEF Console!update
<1>2. \/ Console!Executed(q, "updated", 0)
      \/ Console!Executed(q, "answered", 204) /\ call[q].op = "delete"
      \/ Console!Executed(q, "answered", 200)
  BY DEF Console!update
<1> QED
  BY <1>1, <1>2, ConsoleExecutes

\* The second SELECT of PATCH answers its call.
LEMMA ConsoleRefetch ==
    ASSUME ConsoleTypeOK, NEW q \in Changes, Console!refetch(q)
    PROVE  ConsoleTypeOK' /\ Serves(q)
<1>1. PICK status \in {200, 404} : Console!Answer(q, status)
  BY DEF Console!refetch
<1>2. call[q].pc = "updated" /\ UNCHANGED <<scene, mock, repo, cache, page, done>>
  BY DEF Console!refetch
<1>3. /\ call' \in [Changes -> ConsoleCall] /\ OnlyCall(q)
      /\ SameRequest(q) /\ SameBrowser(q)
      /\ call'[q].pc = "answered" /\ call'[q].reply = status /\ call'[q].over = call[q].over
  BY <1>1, ConsoleAnswer DEF ConsoleTypeOK, OnlyCall
<1>4. ConsoleTypeOK'
  BY <1>2, <1>3 DEF ConsoleTypeOK, ArgumentsOK, EntriesOK, OnlyCall, SameRequest
<1> QED
  BY <1>1, <1>2, <1>3, <1>4 DEF Serves, SamePage, Ends

\* The mock serves a call in one step.
LEMMA ConsoleServeMock ==
    ASSUME ConsoleTypeOK, NEW q \in Changes, Console!serveMock(q)
    PROVE  ConsoleTypeOK' /\ Serves(q)
<1>1. /\ mock /\ call[q].pc = "sent"
      /\ UNCHANGED <<scene, mock, cache, page>>
  BY DEF Console!serveMock
<1>2. CASE Console!Answer(q, 404) /\ UNCHANGED <<repo, done>>
  <2>1. /\ call' \in [Changes -> ConsoleCall] /\ OnlyCall(q)
        /\ SameRequest(q) /\ SameBrowser(q)
        /\ call'[q].pc = "answered" /\ call'[q].reply = 404 /\ call'[q].over = call[q].over
    BY <1>2, ConsoleAnswer DEF ConsoleTypeOK, OnlyCall
  <2>2. ConsoleTypeOK'
    BY <1>1, <1>2, <2>1 DEF ConsoleTypeOK, ArgumentsOK, EntriesOK, OnlyCall, SameRequest
  <2> QED
    BY <1>1, <1>2, <2>1, <2>2 DEF Serves, SamePage, Ends
<1>3. CASE Console!Executed(q, "answered", 200)
  BY <1>1, <1>3, ConsoleExecutes
<1> QED
  BY <1>2, <1>3 DEF Console!serveMock

\* Sending a call keeps the types.
LEMMA ConsoleSends ==
    ASSUME ConsoleTypeOK, NEW q \in Changes, NEW by \in Askers,
           NEW op \in Changing, NEW arg,
           NEW base \in SUBSET Changes, NEW old \in BOOLEAN,
           op # "none", op = "patch" => arg \in BOOLEAN, op # "patch" => arg \in Drafts,
           Console!Sent(q, by, op, arg, base, old),
           page' \in ConsolePage, UNCHANGED <<scene, mock, repo, cache, done>>
    PROVE  ConsoleTypeOK' /\ SentAs(q, by, op, arg, base, old)
<1>1. arg \in Arguments /\ call \in [Changes -> ConsoleCall]
  BY DEF Arguments, ConsoleTypeOK, Drafts
<1>2. SentAs(q, by, op, arg, base, old)
  BY <1>1, ConsoleSent
<1>3. ArgumentsOK'
  BY <1>2 DEF ConsoleTypeOK, ArgumentsOK, SentAs
<1>4. call' \in [Changes -> ConsoleCall]
  BY <1>2 DEF SentAs
<1>5. ConsoleTypeOK'
  BY <1>3, <1>4 DEF ConsoleTypeOK, EntriesOK
<1> QED
  BY <1>2, <1>5

\* The other operator sends a call.
LEMMA ConsoleOperator ==
    ASSUME ConsoleTypeOK, NEW q \in Changes, Console!Operator(q)
    PROVE  ConsoleTypeOK' /\ \E op \in {"patch", "put", "delete"} : Sends(q, "api", op)
<1>1. PICK op \in scene.ops : \E v \in Console!Args(op) : Console!Sent(q, "api", op, v, {}, FALSE)
  BY DEF Console!Operator
<1>2. PICK v \in Console!Args(op) : Console!Sent(q, "api", op, v, {}, FALSE)
  BY <1>1
<1>3. op \in {"patch", "put", "delete"}
  BY PageScenesAssumption DEF ConsoleTypeOK
<1>4. (op = "patch" => v \in BOOLEAN) /\ (op # "patch" => v \in Drafts)
  BY <1>3 DEF Console!Args, Drafts
<1>5. page' = page /\ UNCHANGED <<scene, mock, repo, cache, done>>
  BY DEF Console!Operator
<1>6. page' \in ConsolePage
  BY <1>5 DEF ConsoleTypeOK
<1>7. {} \in SUBSET Changes /\ FALSE \in BOOLEAN /\ "api" \in Askers /\ op \in Changing
  BY <1>3 DEF Askers, Changing
<1>8. ConsoleTypeOK' /\ SentAs(q, "api", op, v, {}, FALSE)
  BY <1>2, <1>3, <1>4, <1>5, <1>6, <1>7, ConsoleSends
<1>9. Sends(q, "api", op)
  BY <1>3, <1>5, <1>8 DEF Sends, SentAs, OnlyCall
<1> QED
  BY <1>3, <1>8, <1>9

\* The save button sends a PUT, and only while no other save is pending.
LEMMA ConsoleHandleSave ==
    ASSUME ConsoleTypeOK, NEW q \in Changes, Console!handleSave(q)
    PROVE  ConsoleTypeOK' /\ Sends(q, "ui", "put")
<1>1. /\ page.at = "prompt" /\ page.draft # page.base
      /\ \A p \in page.mine : call[p].op = "put" => ~Console!Pending(p)
      /\ Console!Sent(q, "ui", "put", page.draft, page.baseSeen, page.old)
      /\ page' = [page EXCEPT !.mine = page.mine \cup {q}]
      /\ UNCHANGED <<scene, mock, repo, cache, done>>
  BY DEF Console!handleSave, Console!saveEnabled, Console!isDirty
<1>2. page \in ConsolePage
  BY DEF ConsoleTypeOK
<1>3. /\ page' \in ConsolePage
      /\ page'.at = page.at /\ page'.mine = page.mine \cup {q} /\ page'.baseSeen = page.baseSeen
      /\ page'.init = page.init /\ page'.old = page.old /\ page'.failed = page.failed
      /\ page'.blocked = page.blocked /\ (page'.asking => page.asking)
      /\ page'.draft = page.draft /\ page'.base = page.base
  BY <1>1, <1>2 DEF ConsolePage
<1>4. /\ page.draft \in Drafts /\ page.baseSeen \in SUBSET Changes /\ page.old \in BOOLEAN
      /\ "ui" \in Askers /\ "put" \in Changing
  BY <1>2 DEF ConsolePage, Askers, Changing
<1> DEFINE draft == page.draft
           base == page.baseSeen
           old == page.old
<1>5. ConsoleTypeOK' /\ SentAs(q, "ui", "put", draft, base, old)
  <2>1. /\ draft \in Drafts /\ base \in SUBSET Changes /\ old \in BOOLEAN
        /\ Console!Sent(q, "ui", "put", draft, base, old)
    BY <1>1, <1>4
  <2>2. /\ page' \in ConsolePage /\ UNCHANGED <<scene, mock, repo, cache, done>>
        /\ "ui" \in Askers /\ "put" \in Changing
    BY <1>1, <1>3, <1>4
  <2> HIDE DEF draft, base, old
  <2> QED
    BY <2>1, <2>2, ConsoleSends
<1> QED
  BY <1>1, <1>3, <1>5 DEF Sends, SentAs, OnlyCall

\* The switch sends a PATCH, never from the prompt page.
LEMMA ConsoleToggle ==
    ASSUME ConsoleTypeOK, NEW q \in Changes, Console!toggle(q)
    PROVE  ConsoleTypeOK' /\ Sends(q, "ui", "patch")
<1>1. /\ Console!Shown # NoData
      /\ page' = [page EXCEPT !.mine = page.mine \cup {q}]
      /\ UNCHANGED <<scene, mock, repo, cache, done>>
  BY DEF Console!toggle
<1>2. page \in ConsolePage
  BY DEF ConsoleTypeOK
<1>3. /\ page' \in ConsolePage
      /\ page'.at = page.at /\ page'.mine = page.mine \cup {q} /\ page'.baseSeen = page.baseSeen
      /\ page'.init = page.init /\ page'.old = page.old /\ page'.failed = page.failed
      /\ page'.blocked = page.blocked /\ (page'.asking => page.asking)
      /\ page'.draft = page.draft /\ page'.base = page.base
  BY <1>1, <1>2 DEF ConsolePage
<1>4. page.at # "prompt"
  BY <1>1 DEF Console!Shown
<1>5. PICK arg \in BOOLEAN : Console!Sent(q, "ui", "patch", arg, {}, FALSE)
  <2>1. Console!Sent(q, "ui", "patch", ~Console!Shown.enabled, {}, FALSE)
    BY DEF Console!toggle
  <2>2. (~Console!Shown.enabled) \in BOOLEAN
    OBVIOUS
  <2> QED
    BY <2>1, <2>2
<1>6. {} \in SUBSET Changes /\ FALSE \in BOOLEAN /\ "ui" \in Askers /\ "patch" \in Changing
  BY DEF Askers, Changing
<1>7. ConsoleTypeOK' /\ SentAs(q, "ui", "patch", arg, {}, FALSE)
  BY <1>1, <1>3, <1>5, <1>6, ConsoleSends
<1> QED
  BY <1>1, <1>3, <1>4, <1>7 DEF Sends, SentAs, OnlyCall

\* The confirmed dialog sends a DELETE, never from the prompt page.
LEMMA ConsoleHandleDeleteConfirm ==
    ASSUME ConsoleTypeOK, NEW q \in Changes, Console!handleDeleteConfirm(q),
           page.asking => page.at # "prompt"
    PROVE  ConsoleTypeOK' /\ Sends(q, "ui", "delete")
<1>1. /\ page.asking
      /\ Console!Sent(q, "ui", "delete", "", {}, FALSE)
      /\ page' = [page EXCEPT !.asking = FALSE, !.mine = page.mine \cup {q}]
      /\ UNCHANGED <<scene, mock, repo, cache, done>>
  BY DEF Console!handleDeleteConfirm
<1>2. page \in ConsolePage
  BY DEF ConsoleTypeOK
<1>3. /\ page' \in ConsolePage
      /\ page'.at = page.at /\ page'.mine = page.mine \cup {q} /\ page'.baseSeen = page.baseSeen
      /\ page'.init = page.init /\ page'.old = page.old /\ page'.failed = page.failed
      /\ page'.blocked = page.blocked /\ (page'.asking => page.asking)
      /\ page'.draft = page.draft /\ page'.base = page.base
  BY <1>1, <1>2 DEF ConsolePage
<1>4. "" \in Drafts /\ {} \in SUBSET Changes /\ FALSE \in BOOLEAN /\ "ui" \in Askers /\ "delete" \in Changing
  BY DEF Drafts, Askers, Changing
<1>5. ConsoleTypeOK' /\ SentAs(q, "ui", "delete", "", {}, FALSE)
  BY <1>1, <1>3, <1>4, ConsoleSends
<1> QED
  BY <1>1, <1>3, <1>5 DEF Sends, SentAs, OnlyCall

-----------------------------------------------------------------------------
\* The browser's side of the steps.
Unmoved == repo' = repo /\ done' = done /\ mock' = mock /\ scene' = scene
OnlyEntry(k) == \A l \in Console!Keys \ {k} : cache'[l] = cache[l]
KeptPage ==
    /\ page'.at = page.at /\ page'.mine = page.mine /\ page'.init = page.init
    /\ page'.failed = page.failed /\ page'.old = page.old

\* The entries that mounting page `at` asks for.
MountedAt(at) ==
    /\ \A k \in Console!Keys :
         \/ cache'[k] = cache[k]
         \/ /\ k \in Console!Observed(at) /\ cache[k].fetch = "idle"
            /\ cache'[k].data = cache[k].data /\ cache'[k].stale = cache[k].stale
            /\ cache'[k].fetch = "asked"
    /\ \A k \in Console!Observed(at) :
         k \in Console!Keys /\ cache[k].fetch = "idle" /\ cache[k].stale => cache'[k].fetch = "asked"

\* Entry k is invalidated.
Restaled(k) ==
    /\ OnlyEntry(k)
    /\ cache'[k].data = cache[k].data /\ cache'[k].stale
    /\ \/ k \in Console!Observed(page.at) /\ cache'[k].fetch = "asked"
       \/ /\ cache'[k].fetch = cache[k].fetch /\ cache'[k].got = cache[k].got
          /\ (cache[k].fetch # "idle" => cache'[k].late)

\* The browser hears of call q: it failed, it succeeded, its query has settled.
Fails(q) == call[q].ui = "pending" /\ call'[q].ui = "failed" /\ cache' = cache /\ page' = page
Succeeds(q) ==
    /\ call[q].ui = "pending" /\ call[q].reply = 200
    /\ call'[q].ui = (IF call[q].op = "put" THEN "refetching" ELSE "ok")
    /\ Restaled(Console!Invalidates(call[q].op)) /\ page' = page
Settles(q) ==
    /\ call[q].ui = "refetching" /\ call'[q].ui = "ok" /\ cache' = cache
    /\ IF q \in page.mine
       THEN /\ KeptPage /\ page'.baseSeen = page.baseSeen \cup {q}
            /\ page'.asking = page.asking /\ page'.blocked = page.blocked
            /\ page'.draft = page.draft
       ELSE page' = page
Hears(q) ==
    /\ Unmoved /\ OnlyCall(q) /\ SameRequest(q) /\ SameServer(q) /\ (call'[q].left <=> call[q].left)
    /\ Fails(q) \/ Succeeds(q) \/ Settles(q)

\* The queries.
Asks == Unmoved /\ call' = call /\ page' = page /\ MountedAt(page.at)
Reads(k) ==
    /\ Unmoved /\ call' = call /\ page' = page /\ OnlyEntry(k)
    /\ cache[k].fetch = "asked" /\ cache'[k].fetch = "read" /\ cache'[k].got = Console!Selected(k)
    /\ cache'[k].data = cache[k].data /\ cache'[k].stale = cache[k].stale
Loads(k) ==
    /\ Unmoved /\ call' = call /\ OnlyEntry(k)
    /\ cache[k].fetch = "read" /\ cache'[k].data = cache[k].got /\ ~cache'[k].stale
    /\ cache'[k].fetch = "idle" /\ cache'[k].late = cache[k].late
    /\ Drafted(page, cache'["repo-prompt"], page')
Errs(k) ==
    /\ Unmoved /\ call' = call /\ OnlyEntry(k)
    /\ cache[k].fetch = "asked" /\ cache'[k].data = cache[k].data /\ cache'[k].stale
    /\ cache'[k].fetch = "idle"
    /\ page'.at = page.at /\ page'.mine = page.mine /\ page'.init = page.init
    /\ page'.old = page.old /\ page'.baseSeen = page.baseSeen
    /\ page'.draft = page.draft /\ page'.base = page.base
    /\ page'.asking = page.asking /\ page'.blocked = page.blocked
    /\ (page'.failed <=> page.failed \/ (k = "repo-prompt" /\ cache[k].data = NoData))

\* Page `at` is entered.
Enters(at) ==
    /\ Unmoved /\ at \in PageNames /\ at # page.at
    /\ MountedAt(at) /\ Drafted(Console!Opened(at), cache["repo-prompt"], page')
    /\ \A q \in Changes : /\ SameRequest(q) /\ SameServer(q) /\ call'[q].ui = call[q].ui
                          /\ (call'[q].left <=> (q \in page.mine /\ Console!Pending(q)) \/ call[q].left)

\* The operator types, opens a dialog or closes one.
Edits ==
    /\ Unmoved /\ call' = call /\ cache' = cache /\ KeptPage
    /\ page'.baseSeen = page.baseSeen /\ page'.base = page.base
    /\ page'.asking => page.asking \/ page.at # "prompt"
    /\ page'.blocked # NoData => page'.blocked \in {page.blocked} \cup (PageNames \ {page.at})
    /\ \/ page'.draft = page.draft \/ page'.draft = page.base
       \/ cache["repo-prompt"].data # NoData \/ cache["repo-prompt"].fetch = "idle"

\* A step that changes one entry keeps the types of all.
LEMMA ConsoleEntries ==
    ASSUME ConsoleTypeOK, NEW k \in Console!Keys, cache' \in [Console!Keys -> ConsoleEntry],
           OnlyEntry(k), cache'[k].data \in {NoData} \cup DataOf(k),
           cache'[k].fetch = "read" => cache'[k].got \in DataOf(k)
    PROVE  EntriesOK'
  BY DEF ConsoleTypeOK, EntriesOK, OnlyEntry

\* What a mutation invalidates is a key of the cache.
LEMMA ConsoleInvalidates ==
    ASSUME NEW op
    PROVE  Console!Invalidates(op) \in Console!Keys
  BY DEF Console!Invalidates, Console!Keys

\* The answer of a call arrives at the browser.
LEMMA ConsoleRespond ==
    ASSUME ConsoleTypeOK, NEW q \in Changes, Console!Respond(q)
    PROVE  ConsoleTypeOK' /\ Hears(q)
<1> DEFINE k == Console!Invalidates(call[q].op)
<1>1. /\ call[q].ui = "pending" /\ Unmoved /\ page' = page
      /\ call \in [Changes -> ConsoleCall] /\ cache \in [Console!Keys -> ConsoleEntry]
  BY DEF Console!Respond, Unmoved, ConsoleTypeOK
<1>2. CASE call[q].reply # 200
  <2>1. call' = [call EXCEPT ![q].ui = "failed"] /\ cache' = cache
    BY <1>2 DEF Console!Respond, Console!apiFetch
  <2>2. /\ call' \in [Changes -> ConsoleCall]
        /\ \A p \in Changes \ {q} : call'[p] = call[p]
        /\ SameRequest(q) /\ SameServer(q) /\ call'[q].ui = "failed" /\ call'[q].left = call[q].left
    BY <1>1, <2>1, ConsoleTold
  <2>3. ConsoleTypeOK'
    BY <1>1, <2>1, <2>2 DEF ConsoleTypeOK, ArgumentsOK, EntriesOK, SameRequest, SameServer, Unmoved
  <2> QED
    BY <1>1, <2>1, <2>2, <2>3 DEF Hears, Fails, OnlyCall
<1>3. CASE call[q].reply = 200
  <2> DEFINE ui == IF call[q].op = "put" THEN "refetching" ELSE "ok"
  <2>1. call' = [call EXCEPT ![q].ui = ui] /\ cache' = Console!Invalidated(k, cache)
    BY <1>3 DEF Console!Respond, Console!apiFetch
  <2>2. ui \in {"refetching", "ok", "failed"}
    OBVIOUS
  <2> HIDE DEF ui
  <2>3. /\ call' \in [Changes -> ConsoleCall]
        /\ \A p \in Changes \ {q} : call'[p] = call[p]
        /\ SameRequest(q) /\ SameServer(q) /\ call'[q].ui = ui /\ call'[q].left = call[q].left
    BY <1>1, <2>1, <2>2, ConsoleTold
  <2>4. k \in Console!Keys
    BY ConsoleInvalidates
  <2> HIDE DEF k
  <2>5. cache' \in [Console!Keys -> ConsoleEntry] /\ Restaled(k)
    BY <1>1, <2>1, <2>4, ConsoleInvalidated DEF Restaled, OnlyEntry
  <2>6. EntriesOK'
    BY <2>4, <2>5, ConsoleEntries DEF ConsoleTypeOK, EntriesOK, Restaled
  <2>7. ConsoleTypeOK'
    BY <1>1, <2>3, <2>5, <2>6 DEF ConsoleTypeOK, ArgumentsOK, SameRequest, SameServer, Unmoved
  <2> QED
    BY <1>1, <1>3, <2>3, <2>5, <2>7 DEF Hears, Succeeds, OnlyCall, k, ui
<1> QED
  BY <1>2, <1>3

\* The invalidated query of a save settles, and the page takes the saved
\* text for its base.
LEMMA ConsoleSaved ==
    ASSUME ConsoleTypeOK, NEW q \in Changes, Console!saved(q),
           call[q].ui = "refetching" => call[q].op = "put"
    PROVE  ConsoleTypeOK' /\ Hears(q)
<1>1. /\ call[q].ui = "refetching" /\ Unmoved /\ cache' = cache
      /\ call' = [call EXCEPT ![q].ui = "ok"]
      /\ call \in [Changes -> ConsoleCall] /\ page \in ConsolePage
  BY DEF Console!saved, Unmoved, ConsoleTypeOK
<1>2. /\ call' \in [Changes -> ConsoleCall]
      /\ \A p \in Changes \ {q} : call'[p] = call[p]
      /\ SameRequest(q) /\ SameServer(q) /\ call'[q].ui = "ok" /\ call'[q].left = call[q].left
  BY <1>1, ConsoleTold
<1>3. page' \in ConsolePage /\ Settles(q)
  <2>1. CASE q \in page.mine
    <3> DEFINE base == call[q].arg
               saves == page.baseSeen \cup {q}
    <3>1. page' = [page EXCEPT !.base = base, !.baseSeen = saves]
      BY <2>1 DEF Console!saved
    <3>2. base \in Drafts
      BY <1>1 DEF ConsoleTypeOK, ArgumentsOK
    <3>3. saves \in SUBSET Changes
      BY <1>1 DEF ConsolePage
    <3> HIDE DEF base, saves
    <3>4. /\ page' \in ConsolePage /\ KeptPage /\ page'.baseSeen = saves
          /\ page'.asking = page.asking /\ page'.blocked = page.blocked
          /\ page'.draft = page.draft
      BY <1>1, <3>1, <3>2, <3>3 DEF ConsolePage, KeptPage
    <3> QED
      BY <1>1, <1>2, <2>1, <3>4 DEF Settles, saves
  <2>2. CASE q \notin page.mine
    BY <1>1, <1>2, <2>2 DEF Settles, Console!saved
  <2> QED
    BY <2>1, <2>2
<1>4. ConsoleTypeOK'
  BY <1>1, <1>2, <1>3 DEF ConsoleTypeOK, ArgumentsOK, EntriesOK, SameRequest, SameServer, Unmoved
<1> QED
  BY <1>1, <1>2, <1>3, <1>4 DEF Hears, OnlyCall

\* The connection of a call breaks.
LEMMA ConsoleBreak ==
    ASSUME ConsoleTypeOK, NEW q \in Changes, Console!Break(q)
    PROVE  ConsoleTypeOK' /\ Hears(q)
<1>1. /\ call[q].ui = "pending" /\ Unmoved /\ cache' = cache /\ page' = page
      /\ call' = [call EXCEPT ![q].ui = "failed"]
      /\ call \in [Changes -> ConsoleCall]
  BY DEF Console!Break, Unmoved, ConsoleTypeOK
<1>2. /\ call' \in [Changes -> ConsoleCall]
      /\ \A p \in Changes \ {q} : call'[p] = call[p]
      /\ SameRequest(q) /\ SameServer(q) /\ call'[q].ui = "failed" /\ call'[q].left = call[q].left
  BY <1>1, ConsoleTold
<1>3. ConsoleTypeOK'
  BY <1>1, <1>2 DEF ConsoleTypeOK, ArgumentsOK, EntriesOK, SameRequest, SameServer, Unmoved
<1> QED
  BY <1>1, <1>2, <1>3 DEF Hears, Fails, OnlyCall

-----------------------------------------------------------------------------
\* The window gets the focus back.
LEMMA ConsoleRefocus ==
    ASSUME ConsoleTypeOK, Console!Refocus
    PROVE  ConsoleTypeOK' /\ Asks
<1>1. /\ Unmoved /\ call' = call /\ page' = page
      /\ cache' \in Console!Mounted(cache, page.at)
      /\ cache \in [Console!Keys -> ConsoleEntry]
  BY DEF Console!Refocus, Unmoved, ConsoleTypeOK
<1>2. cache' \in [Console!Keys -> ConsoleEntry] /\ MountedAt(page.at)
  BY <1>1, ConsoleMounted DEF MountedAt
<1>3. EntriesOK'
  BY <1>2 DEF ConsoleTypeOK, EntriesOK, MountedAt
<1> QED
  BY <1>1, <1>2, <1>3 DEF ConsoleTypeOK, ArgumentsOK, Unmoved, Asks

\* What GET selects for a key has every executed change that invalidates it.
LEMMA ConsoleSelected ==
    ASSUME ConsoleTypeOK, NEW k \in Console!Keys
    PROVE  /\ Console!Selected(k) \in DataOf(k)
           /\ \A q \in done : call[q].op # "none" /\ Console!Invalidates(call[q].op) = k
                => q \in Console!Selected(k).seen
<1>1. repo \in [live : BOOLEAN, enabled : BOOLEAN, prompt : Drafts] /\ done \subseteq Changes
  BY DEF ConsoleTypeOK
<1>2. CASE k = "repo-prompt"
  <2> DEFINE saves == {q \in done : call[q].op = "put"}
  <2>1. Console!Selected(k) = [prompt |-> repo.prompt, seen |-> saves]
    BY <1>2 DEF Console!Selected
  <2>2. saves \in SUBSET Changes
    BY <1>1
  <2>3. \A q \in done : Console!Invalidates(call[q].op) = k => q \in saves
    BY <1>2 DEF Console!Invalidates
  <2> HIDE DEF saves
  <2> QED
    BY <1>1, <1>2, <2>1, <2>2, <2>3 DEF DataOf, PromptData
<1>3. CASE k # "repo-prompt"
  <2> DEFINE saves == {q \in done : call[q].op # "put" /\ k = "repos"}
  <2>1. Console!Selected(k) = [live |-> repo.live, enabled |-> repo.enabled, seen |-> saves]
    BY <1>3 DEF Console!Selected
  <2>2. saves \in SUBSET Changes
    BY <1>1
  <2>3. \A q \in done : Console!Invalidates(call[q].op) = k => q \in saves
    BY <1>3 DEF Console!Invalidates
  <2> HIDE DEF saves
  <2> QED
    BY <1>1, <1>3, <2>1, <2>2, <2>3 DEF DataOf, RepoData
<1> QED
  BY <1>2, <1>3

\* A query reads its data.
LEMMA ConsoleServeFetch ==
    ASSUME ConsoleTypeOK, NEW k \in Console!Keys, Console!serveFetch(k)
    PROVE  ConsoleTypeOK' /\ Reads(k)
<1> DEFINE got == Console!Selected(k)
<1>1. /\ Unmoved /\ call' = call /\ page' = page /\ cache[k].fetch = "asked"
      /\ cache' = [cache EXCEPT ![k].fetch = "read", ![k].got = got]
      /\ cache \in [Console!Keys -> ConsoleEntry]
  BY DEF Console!serveFetch, Unmoved, ConsoleTypeOK
<1>2. got \in DataOf(k)
  BY ConsoleSelected
<1>3. got \in AnyData
  BY <1>2 DEF DataOf, AnyData
<1> HIDE DEF got
<1>4. /\ cache' \in [Console!Keys -> ConsoleEntry] /\ OnlyEntry(k)
      /\ cache'[k].data = cache[k].data /\ cache'[k].stale = cache[k].stale
      /\ cache'[k].fetch = "read" /\ cache'[k].got = got
  BY <1>1, <1>3, ConsoleFetched DEF OnlyEntry
<1>5. EntriesOK'
  <2>1. cache'[k].data \in {NoData} \cup DataOf(k)
    BY <1>4 DEF ConsoleTypeOK, EntriesOK
  <2> QED
    BY <1>2, <1>4, <2>1, ConsoleEntries
<1>6. ConsoleTypeOK'
  BY <1>1, <1>4, <1>5 DEF ConsoleTypeOK, ArgumentsOK, Unmoved
<1> QED
  BY <1>1, <1>4, <1>6 DEF Reads, got

\* The data of a query arrives.
LEMMA ConsoleLoadedStep ==
    ASSUME ConsoleTypeOK, NEW k \in Console!Keys, Console!Loaded(k)
    PROVE  ConsoleTypeOK' /\ Loads(k)
<1>1. /\ Unmoved /\ call' = call /\ cache[k].fetch = "read"
      /\ cache' = [cache EXCEPT ![k] = [data |-> cache[k].got, stale |-> FALSE,
                                      fetch |-> "idle", got |-> NoData,
                                      late |-> cache[k].late]]
      /\ cache \in [Console!Keys -> ConsoleEntry] /\ page \in ConsolePage
  BY DEF Console!Loaded, Unmoved, ConsoleTypeOK
<1>2. /\ cache' \in [Console!Keys -> ConsoleEntry] /\ OnlyEntry(k)
      /\ cache'[k].data = cache[k].got /\ ~cache'[k].stale
      /\ cache'[k].fetch = "idle" /\ cache'[k].late = cache[k].late
  BY <1>1, ConsoleLoaded DEF OnlyEntry
<1>3. cache[k].got \in DataOf(k)
  BY <1>1 DEF ConsoleTypeOK, EntriesOK
<1>4. EntriesOK'
  BY <1>2, <1>3, ConsoleEntries
<1> DEFINE e == cache'["repo-prompt"]
<1>5. e \in ConsoleEntry /\ e.data \in {NoData} \cup PromptData
  BY <1>2, <1>4 DEF EntriesOK, Console!Keys, DataOf
<1>6. page' = Console!initDraft(page, e)
  BY DEF Console!Loaded
<1> HIDE DEF e
<1>7. page' \in ConsolePage /\ Drafted(page, e, page')
  BY <1>1, <1>5, <1>6, ConsoleDrafted
<1>8. ConsoleTypeOK'
  BY <1>1, <1>2, <1>4, <1>7 DEF ConsoleTypeOK, ArgumentsOK, Unmoved
<1> QED
  BY <1>1, <1>2, <1>7, <1>8 DEF Loads, e

\* A query fails.
LEMMA ConsoleLoadFailedStep ==
    ASSUME ConsoleTypeOK, NEW k \in Console!Keys, Console!LoadFailed(k)
    PROVE  ConsoleTypeOK' /\ Errs(k)
<1> DEFINE failed == page.failed \/ (k = "repo-prompt" /\ cache[k].data = NoData)
<1>1. /\ Unmoved /\ call' = call /\ cache[k].fetch = "asked"
      /\ cache' = [cache EXCEPT ![k].fetch = "idle", ![k].got = NoData, ![k].stale = TRUE]
      /\ page' = [page EXCEPT !.failed = failed]
      /\ cache \in [Console!Keys -> ConsoleEntry] /\ page \in ConsolePage
  BY DEF Console!LoadFailed, Unmoved, ConsoleTypeOK
<1>2. /\ cache' \in [Console!Keys -> ConsoleEntry] /\ OnlyEntry(k)
      /\ cache'[k].data = cache[k].data /\ cache'[k].stale /\ cache'[k].fetch = "idle"
  BY <1>1, ConsoleLoadFailed DEF OnlyEntry
<1>3. failed \in BOOLEAN
  BY <1>1 DEF ConsolePage
<1> HIDE DEF failed
<1>4. /\ page' \in ConsolePage
      /\ page'.at = page.at /\ page'.mine = page.mine /\ page'.init = page.init
      /\ page'.old = page.old /\ page'.baseSeen = page.baseSeen
      /\ page'.draft = page.draft /\ page'.base = page.base
      /\ page'.asking = page.asking /\ page'.blocked = page.blocked
      /\ (page'.failed <=> failed)
  BY <1>1, <1>3 DEF ConsolePage
<1>5. EntriesOK'
  BY <1>2, ConsoleEntries DEF ConsoleTypeOK, EntriesOK
<1>6. ConsoleTypeOK'
  BY <1>1, <1>2, <1>4, <1>5 DEF ConsoleTypeOK, ArgumentsOK, Unmoved
<1> QED
  BY <1>1, <1>2, <1>4, <1>6 DEF Errs, failed

\* A page is left for another.
LEMMA ConsoleEnter ==
    ASSUME ConsoleTypeOK, NEW at \in PageNames, at # page.at, Unmoved,
           Console!Enter(cache, call, at)
    PROVE  ConsoleTypeOK' /\ Enters(at)
<1> DEFINE e == cache["repo-prompt"]
           S == {q \in page.mine : Console!Pending(q)}
<1>1. /\ call \in [Changes -> ConsoleCall] /\ cache \in [Console!Keys -> ConsoleEntry]
      /\ cache' \in Console!Mounted(cache, at)
      /\ page' = Console!initDraft(Console!Opened(at), e)
      /\ call' = [q \in Changes |-> IF q \in S THEN [call[q] EXCEPT !.left = TRUE] ELSE call[q]]
  BY DEF Console!Enter, ConsoleTypeOK
<1>2. cache' \in [Console!Keys -> ConsoleEntry] /\ MountedAt(at)
  BY <1>1, ConsoleMounted DEF MountedAt
<1>3. EntriesOK'
  BY <1>2 DEF ConsoleTypeOK, EntriesOK, MountedAt
<1>4. e \in ConsoleEntry /\ e.data \in {NoData} \cup PromptData
  BY DEF ConsoleTypeOK, EntriesOK, Console!Keys, DataOf
<1> HIDE DEF e, S
<1>5. page' \in ConsolePage /\ Drafted(Console!Opened(at), e, page')
  BY <1>1, <1>4, ConsoleOpened, ConsoleDrafted
<1>6. /\ call' \in [Changes -> ConsoleCall]
      /\ \A q \in Changes : /\ SameRequest(q) /\ SameServer(q) /\ call'[q].ui = call[q].ui
                            /\ (call'[q].left <=> q \in S \/ call[q].left)
  BY <1>1, ConsoleLeft
<1>7. ArgumentsOK'
  BY <1>6 DEF ConsoleTypeOK, ArgumentsOK, SameRequest, SameServer
<1>8. ConsoleTypeOK'
  BY <1>2, <1>3, <1>5, <1>6, <1>7 DEF ConsoleTypeOK, Unmoved
<1> QED
  BY <1>2, <1>5, <1>6, <1>8 DEF Enters, e, S

\* One field of the page that the operator or a dialog changes.
LEMMA ConsoleEdited ==
    ASSUME ConsoleTypeOK, Unmoved, call' = call, cache' = cache,
           \/ \E draft \in Drafts :
                /\ page' = [page EXCEPT !.draft = draft]
                /\ \/ draft = page.base
                   \/ cache["repo-prompt"].data # NoData \/ cache["repo-prompt"].fetch = "idle"
           \/ page' = [page EXCEPT !.asking = TRUE] /\ page.at # "prompt"
           \/ page' = [page EXCEPT !.asking = FALSE]
           \/ \E to \in {NoData} \cup (PageNames \ {page.at}) : page' = [page EXCEPT !.blocked = to]
    PROVE  ConsoleTypeOK' /\ Edits
<1>1. page \in ConsolePage
  BY DEF ConsoleTypeOK
<1>2. page' \in ConsolePage /\ Edits
  <2>1. ASSUME NEW draft \in Drafts, page' = [page EXCEPT !.draft = draft],
               \/ draft = page.base
               \/ cache["repo-prompt"].data # NoData \/ cache["repo-prompt"].fetch = "idle"
        PROVE  page' \in ConsolePage /\ Edits
    <3>1. /\ page' \in ConsolePage /\ KeptPage /\ page'.draft = draft
          /\ page'.baseSeen = page.baseSeen /\ page'.base = page.base
          /\ page'.asking = page.asking /\ page'.blocked = page.blocked
      BY <1>1, <2>1 DEF ConsolePage, KeptPage
    <3> QED
      BY <2>1, <3>1 DEF Edits
  <2>2. ASSUME NEW asking \in BOOLEAN, page' = [page EXCEPT !.asking = asking],
               asking => page.at # "prompt"
        PROVE  page' \in ConsolePage /\ Edits
    <3>1. /\ page' \in ConsolePage /\ KeptPage /\ page'.draft = page.draft
          /\ page'.baseSeen = page.baseSeen /\ page'.base = page.base
          /\ (page'.asking <=> asking) /\ page'.blocked = page.blocked
      BY <1>1, <2>2 DEF ConsolePage, KeptPage
    <3> QED
      BY <2>2, <3>1 DEF Edits
  <2>3. ASSUME NEW to \in {NoData} \cup (PageNames \ {page.at}), page' = [page EXCEPT !.blocked = to]
        PROVE  page' \in ConsolePage /\ Edits
    <3>1. /\ page' \in ConsolePage /\ KeptPage /\ page'.draft = page.draft
          /\ page'.baseSeen = page.baseSeen /\ page'.base = page.base
          /\ page'.asking = page.asking /\ page'.blocked = to
      BY <1>1, <2>3 DEF ConsolePage, KeptPage
    <3> QED
      BY <2>3, <3>1 DEF Edits
  <2>4. TRUE \in BOOLEAN /\ FALSE \in BOOLEAN
    OBVIOUS
  <2> QED
    BY <2>1, <2>2, <2>3, <2>4
<1>3. ConsoleTypeOK'
  BY <1>2 DEF ConsoleTypeOK, ArgumentsOK, EntriesOK, Unmoved
<1> QED
  BY <1>2, <1>3

\* The operator types.
LEMMA ConsoleHandleChange ==
    ASSUME ConsoleTypeOK, NEW text \in Prompts, Console!handleChange(text)
    PROVE  ConsoleTypeOK' /\ Edits
<1>1. /\ Unmoved /\ call' = call /\ cache' = cache /\ page' = [page EXCEPT !.draft = text]
      /\ cache["repo-prompt"].data # NoData \/ cache["repo-prompt"].fetch = "idle"
  BY DEF Console!handleChange, Unmoved
<1>2. text \in Drafts
  BY DEF Drafts
<1> QED
  BY <1>1, <1>2, ConsoleEdited

\* The operator discards the draft.
LEMMA ConsoleHandleDiscard ==
    ASSUME ConsoleTypeOK, Console!handleDiscard
    PROVE  ConsoleTypeOK' /\ Edits
<1> DEFINE base == page.base
<1>1. Unmoved /\ call' = call /\ cache' = cache /\ page' = [page EXCEPT !.draft = base]
  BY DEF Console!handleDiscard, Unmoved
<1>2. base \in Drafts /\ base = page.base
  BY DEF ConsoleTypeOK, ConsolePage
<1> HIDE DEF base
<1> QED
  BY <1>1, <1>2, ConsoleEdited

\* The delete dialog is opened, or closed without deleting.
LEMMA ConsoleHandleDelete ==
    ASSUME ConsoleTypeOK, Console!handleDelete \/ Console!handleDeleteCancel
    PROVE  ConsoleTypeOK' /\ Edits
<1>1. /\ Unmoved /\ call' = call /\ cache' = cache
      /\ \/ page' = [page EXCEPT !.asking = TRUE] /\ Console!Shown # NoData
         \/ page' = [page EXCEPT !.asking = FALSE]
  BY DEF Console!handleDelete, Console!handleDeleteCancel, Unmoved
<1>2. Console!Shown # NoData => page.at # "prompt"
  BY DEF Console!Shown
<1> HIDE DEF Console!Shown
<1> QED
  BY <1>1, <1>2, ConsoleEdited

\* A link: to another page, or to the dialog that guards a dirty draft.
LEMMA ConsoleNavigate ==
    ASSUME ConsoleTypeOK, NEW at \in scene.pages, Console!Navigate(at)
    PROVE  ConsoleTypeOK' /\ (Edits \/ \E to \in PageNames : Enters(to))
<1>1. at \in PageNames
  BY PageScenesAssumption DEF ConsoleTypeOK, PageNames
<1>2. at # page.at /\ Unmoved
  BY DEF Console!Navigate, Unmoved
<1>3. CASE page' = [page EXCEPT !.blocked = at] /\ UNCHANGED <<cache, call>>
  BY <1>1, <1>2, <1>3, ConsoleEdited
<1>4. CASE Console!Enter(cache, call, at)
  BY <1>1, <1>2, <1>4, ConsoleEnter
<1> QED
  BY <1>3, <1>4 DEF Console!Navigate

\* The dialog is answered: the other page, or this one.
LEMMA ConsoleAnswerDialog ==
    ASSUME ConsoleTypeOK, page.blocked # NoData => page.blocked # page.at, Console!AnswerDialog
    PROVE  ConsoleTypeOK' /\ (Edits \/ \E to \in PageNames : Enters(to))
<1> DEFINE at == page.blocked
<1>1. at \in PageNames /\ at # page.at /\ Unmoved
  BY DEF Console!AnswerDialog, Unmoved, ConsoleTypeOK, ConsolePage
<1>2. CASE page' = [page EXCEPT !.blocked = NoData] /\ UNCHANGED <<cache, call>>
  BY <1>1, <1>2, ConsoleEdited
<1>3. CASE Console!Enter(cache, call, page.blocked)
  <2> HIDE DEF at
  <2>1. Console!Enter(cache, call, at)
    BY <1>3 DEF at
  <2> QED
    BY <1>1, <2>1, ConsoleEnter
<1> QED
  BY <1>2, <1>3 DEF Console!AnswerDialog

\* The detail page goes back to the list.
LEMMA ConsoleDeleted ==
    ASSUME ConsoleTypeOK, NEW q \in Changes, Console!deleted(q)
    PROVE  ConsoleTypeOK' /\ Enters("repos")
<1>1. /\ "repos" \in PageNames /\ "repos" # page.at /\ Unmoved
      /\ Console!Enter(cache, call, "repos")
  BY DEF Console!deleted, Unmoved, PageNames
<1> QED
  BY <1>1, ConsoleEnter

-----------------------------------------------------------------------------
\* The inductive invariant.  The calls: what an unsent call is, what the server
\* has done of one, and that a delete which was acknowledged is final.
Unsent(q) == call[q].pc = "new" =>
    /\ call[q].by = "none" /\ call[q].ui = "none" /\ q \notin done
    /\ call[q].reply = 0 /\ ~call[q].after /\ call[q].over = {}
    /\ ~call[q].left /\ q \notin page.mine
Served(q) ==
    /\ q \in done => call[q].pc \in {"updated", "answered"}
    /\ call[q].pc = "updated" => q \in done
    /\ call[q].reply # 0 => call[q].pc = "answered"
    /\ call[q].reply = 200 => q \in done
    /\ call[q].ui \in {"ok", "refetching"} => call[q].reply = 200
    /\ call[q].ui = "refetching" => call[q].op = "put"
Final(q) == ~mock =>
    /\ call[q].reply = 204 \/ call[q].after => ~repo.live
    /\ call[q].after => call[q].pc \in {"sent", "answered"} /\ call[q].reply # 200 /\ q \notin done
CallsInv == \A q \in Changes : Unsent(q) /\ Served(q) /\ Final(q)

\* The queries: a change the browser was told of is in the data that is fresh or
\* about to be.
Told(q) == call[q].ui \in {"ok", "refetching"}
Shows(q, k) ==
    /\ cache[k].fetch = "idle" =>
         cache[k].data = NoData \/ cache[k].stale \/ cache[k].late \/ q \in cache[k].data.seen
    /\ cache[k].fetch = "read" => cache[k].late \/ q \in cache[k].got.seen
QueriesInv ==
    \A q \in Changes, k \in Console!Keys :
        Told(q) /\ k = Console!Invalidates(call[q].op) => Shows(q, k)

\* The page: it knows its calls; only one save of it is on its way; what it
\* starts from has every save it was told of; and a save on its way replaces
\* nothing but what is explained.
Explained(p) == call[p].by = "api" \/ call[p].left \/ call[p].ui = "failed"
Save(q) == call[q].by = "ui" /\ call[q].op = "put"
Mine(q) ==
    /\ q \in page.mine => call[q].by = "ui" /\ ~call[q].left
    /\ call[q].by = "ui" /\ ~call[q].left /\ q \notin page.mine => call[q].ui \in {"ok", "failed"}
    /\ call[q].pc # "new" => call[q].by \in {"ui", "api"}
    /\ call[q].by = "ui" => call[q].ui # "none"
Saving(q) == q \in page.mine /\ call[q].op = "put" /\ Console!Pending(q)
OneSave == \A p, q \in Changes : Saving(p) /\ Saving(q) => p = q
Based == ~page.old =>
    \A p \in Changes : Save(p) /\ ~call[p].left /\ call[p].ui = "ok" => p \in page.baseSeen
Replaces(q) ==
    Save(q) /\ ~Explained(q) /\ ~call[q].old /\ call[q].pc \in {"sent", "checked"} =>
        \A p \in done : call[p].op = "put" => p \in call[q].base \/ Explained(p)
Replaced(q) ==
    call[q].by = "ui" /\ ~Explained(q) /\ ~call[q].old => \A p \in call[q].over : Explained(p)
SavesInv ==
    /\ OneSave /\ Based
    /\ \A q \in Changes : Mine(q) /\ Replaces(q) /\ Replaced(q)

\* The dialogs and the draft: until it is filled, the editor of a page whose
\* prompt is being loaded is as it was opened.
Filling == page.at = "prompt" /\ ~page.init
DraftInv ==
    /\ page.asking => page.at # "prompt"
    /\ page.blocked # NoData => page.blocked # page.at
    /\ \A k \in Console!Keys : cache[k].data = NoData => cache[k].stale
    /\ "repo-prompt" \notin scene.keys => cache["repo-prompt"].fetch = "idle"
    /\ Filling => cache["repo-prompt"].data = NoData
    /\ Filling /\ ~page.failed /\ "repo-prompt" \in scene.keys =>
         cache["repo-prompt"].fetch # "idle" /\ page.draft = page.base /\ page.mine = {}

ConsoleInv == ConsoleTypeOK /\ CallsInv /\ QueriesInv /\ SavesInv /\ DraftInv

ConsoleStep ==
    \/ \E q \in Changes : \/ Serves(q) \/ Hears(q)
                          \/ \E op \in {"patch", "put", "delete"} :
                               Sends(q, "ui", op) \/ Sends(q, "api", op)
    \/ Asks \/ Edits
    \/ \E k \in Console!Keys : Reads(k) \/ Loads(k) \/ Errs(k)
    \/ \E to \in PageNames : Enters(to)

\* Every action of RepoConsole keeps the types and is a step of one of
\* these kinds.
LEMMA ConsoleSteps ==
    ASSUME ConsoleTypeOK, CallsInv, DraftInv, Console!Next
    PROVE  ConsoleTypeOK' /\ ConsoleStep
<1>1. CASE Console!Server
  <2>1. PICK q \in Changes :
          \/ Console!Refuse(q) \/ Console!selectLive(q) \/ Console!update(q)
          \/ Console!refetch(q) \/ Console!serveMock(q)
    BY <1>1 DEF Console!Server
  <2>2. ConsoleTypeOK' /\ Serves(q)
    BY <2>1, ConsoleRefuse, ConsoleSelectLive, ConsoleUpdate, ConsoleRefetch, ConsoleServeMock
  <2> QED
    BY <2>2 DEF ConsoleStep
<1>2. CASE Console!Queries
  <2>1. CASE Console!Refocus
    BY <2>1, ConsoleRefocus DEF ConsoleStep
  <2>2. ASSUME NEW k \in Console!Keys, Console!serveFetch(k) \/ Console!Loaded(k) \/ Console!LoadFailed(k)
        PROVE  ConsoleTypeOK' /\ ConsoleStep
    BY <2>2, ConsoleServeFetch, ConsoleLoadedStep, ConsoleLoadFailedStep DEF ConsoleStep
  <2> QED
    BY <1>2, <2>1, <2>2 DEF Console!Queries
<1>3. CASE Console!User
  <2>1. ASSUME NEW at \in scene.pages, Console!Navigate(at)
        PROVE  ConsoleTypeOK' /\ ConsoleStep
    BY <2>1, ConsoleNavigate DEF ConsoleStep
  <2>2. CASE Console!AnswerDialog
    BY <2>2, ConsoleAnswerDialog DEF ConsoleStep, DraftInv
  <2>3. ASSUME NEW text \in Prompts, Console!handleChange(text)
        PROVE  ConsoleTypeOK' /\ ConsoleStep
    BY <2>3, ConsoleHandleChange DEF ConsoleStep
  <2>4. CASE Console!handleDiscard \/ Console!handleDelete \/ Console!handleDeleteCancel
    BY <2>4, ConsoleHandleDiscard, ConsoleHandleDelete DEF ConsoleStep
  <2>5. ASSUME NEW q \in Changes, Console!handleSave(q) \/ Console!toggle(q) \/ Console!handleDeleteConfirm(q)
        PROVE  ConsoleTypeOK' /\ ConsoleStep
    BY <2>5, ConsoleHandleSave, ConsoleToggle, ConsoleHandleDeleteConfirm DEF ConsoleStep, DraftInv
  <2> QED
    BY <1>3, <2>1, <2>2, <2>3, <2>4, <2>5 DEF Console!User
<1>4. CASE Console!Callbacks
  <2>1. PICK q \in Changes :
          Console!Respond(q) \/ Console!saved(q) \/ Console!deleted(q) \/ Console!Break(q)
    BY <1>4 DEF Console!Callbacks
  <2>2. CASE Console!Respond(q) \/ Console!Break(q)
    BY <2>2, ConsoleRespond, ConsoleBreak DEF ConsoleStep
  <2>3. CASE Console!saved(q)
    <3>1. call[q].ui = "refetching" => call[q].op = "put"
      BY DEF CallsInv, Served
    <3> QED
      BY <2>3, <3>1, ConsoleSaved DEF ConsoleStep
  <2>4. CASE Console!deleted(q)
    <3>1. "repos" \in PageNames
      BY DEF PageNames
    <3> QED
      BY <2>4, <3>1, ConsoleDeleted DEF ConsoleStep
  <2> QED
    BY <2>1, <2>2, <2>3, <2>4
<1>5. ASSUME NEW q \in Changes, Console!Operator(q)
      PROVE  ConsoleTypeOK' /\ ConsoleStep
  BY <1>5, ConsoleOperator DEF ConsoleStep
<1> QED
  BY <1>1, <1>2, <1>3, <1>4, <1>5 DEF Console!Next

\* What is known of a page that was entered: it has no calls, and either
\* the editor is filled from the entry or it is clean.
LEMMA ConsoleEntered ==
    ASSUME NEW to \in PageNames, Enters(to)
    PROVE  /\ page'.at = to /\ page'.mine = {} /\ ~page'.failed
           /\ ~page'.asking /\ page'.blocked = NoData
           /\ \/ /\ page'.init /\ to = "prompt"
                 /\ cache["repo-prompt"].data # NoData
                 /\ page'.baseSeen = cache["repo-prompt"].data.seen
                 /\ (~page'.old => /\ ~cache["repo-prompt"].stale
                                   /\ cache["repo-prompt"].fetch = "idle"
                                   /\ ~cache["repo-prompt"].late)
              \/ /\ page'.draft = page'.base /\ page'.old
                 /\ to = "prompt" => cache["repo-prompt"].data = NoData
<1> DEFINE p == Console!Opened(to)
<1>1. /\ p.at = to /\ p.mine = {} /\ p.old /\ ~p.init /\ ~p.failed
      /\ p.draft = p.base /\ ~p.asking /\ p.blocked = NoData
  BY ConsoleOpened
<1>2. Drafted(p, cache["repo-prompt"], page')
  BY DEF Enters
<1> HIDE DEF p
<1> QED
  BY <1>1, <1>2 DEF Drafted

-----------------------------------------------------------------------------
\* CallsInv is kept when the server serves a call.
LEMMA CallsServed ==
    ASSUME ConsoleTypeOK, CallsInv, NEW q \in Changes, Serves(q)
    PROVE  CallsInv'
<1>1. /\ page' = page /\ mock' = mock /\ SameRequest(q) /\ SameBrowser(q) /\ OnlyCall(q)
      /\ Unsent(q) /\ Served(q) /\ Final(q)
  BY DEF Serves, SamePage, CallsInv
<1>2. repo'.live => repo.live
  BY DEF Serves, Checks, Ends, Executes
<1>3. done' \in {done, done \cup {q}}
  BY DEF Serves, Checks, Ends, Executes
<1>4. ASSUME NEW p \in Changes \ {q}
      PROVE  Unsent(p)' /\ Served(p)' /\ Final(p)'
  <2>1. call'[p] = call[p] /\ (p \in done' <=> p \in done) /\ Unsent(p) /\ Served(p) /\ Final(p)
    BY <1>1, <1>3, <1>4 DEF OnlyCall, CallsInv
  <2> QED
    BY <1>1, <1>2, <2>1 DEF Unsent, Served, Final
<1>5. ASSUME Checks(q) PROVE Unsent(q)' /\ Served(q)' /\ Final(q)'
  BY <1>1, <1>5 DEF Checks, Unsent, Served, Final, SameRequest, SameBrowser
<1>6. ASSUME Ends(q) PROVE Unsent(q)' /\ Served(q)' /\ Final(q)'
  BY <1>1, <1>6 DEF Ends, Unsent, Served, Final, SameRequest, SameBrowser
<1>7. ASSUME Executes(q) PROVE Unsent(q)' /\ Served(q)' /\ Final(q)'
  BY <1>1, <1>2, <1>7 DEF Executes, Unsent, Served, Final, SameRequest, SameBrowser
<1>8. Unsent(q)' /\ Served(q)' /\ Final(q)'
  BY <1>5, <1>6, <1>7 DEF Serves
<1> QED
  BY <1>4, <1>8 DEF CallsInv

\* CallsInv is kept when a call is sent: one sent after an acknowledged
\* delete finds the repository gone.
LEMMA CallsSent ==
    ASSUME ConsoleTypeOK, CallsInv, NEW q \in Changes, NEW by \in {"ui", "api"}, NEW op, Sends(q, by, op)
    PROVE  CallsInv'
<1>1. /\ mock' = mock /\ repo' = repo /\ done' = done /\ OnlyCall(q)
      /\ call[q].pc = "new" /\ Unsent(q) /\ Served(q) /\ Final(q)
      /\ page'.mine \in {page.mine, page.mine \cup {q}}
  BY DEF Sends, CallsInv
<1>2. ASSUME NEW p \in Changes \ {q}
      PROVE  Unsent(p)' /\ Served(p)' /\ Final(p)'
  <2>1. call'[p] = call[p] /\ (p \in page'.mine <=> p \in page.mine) /\ Unsent(p) /\ Served(p) /\ Final(p)
    BY <1>1, <1>2 DEF OnlyCall, CallsInv
  <2> QED
    BY <1>1, <2>1 DEF Unsent, Served, Final
<1>3. Unsent(q)' /\ Served(q)'
  BY <1>1 DEF Sends, Unsent, Served
<1>4. Final(q)'
  <2>1. ASSUME ~mock, call'[q].after PROVE ~repo.live
    <3>1. PICK d \in Changes : call[d].reply = 204
      BY <2>1 DEF Sends
    <3> QED
      BY <2>1, <3>1 DEF CallsInv, Final
  <2>2. call'[q].pc = "sent" /\ call'[q].reply = 0 /\ q \notin done
    BY <1>1 DEF Sends, Unsent
  <2> QED
    BY <1>1, <2>1, <2>2 DEF Final
<1> QED
  BY <1>2, <1>3, <1>4 DEF CallsInv

\* CallsInv is kept when the browser hears of a call.
LEMMA CallsHeard ==
    ASSUME ConsoleTypeOK, CallsInv, NEW q \in Changes, Hears(q)
    PROVE  CallsInv'
<1>1. /\ mock' = mock /\ repo' = repo /\ done' = done /\ OnlyCall(q)
      /\ SameRequest(q) /\ SameServer(q) /\ (call'[q].left <=> call[q].left)
      /\ Unsent(q) /\ Served(q) /\ Final(q)
  BY DEF Hears, Unmoved, CallsInv
<1>2. page'.mine = page.mine
  BY DEF Hears, Fails, Succeeds, Settles, KeptPage
<1>3. ASSUME NEW p \in Changes \ {q}
      PROVE  Unsent(p)' /\ Served(p)' /\ Final(p)'
  <2>1. call'[p] = call[p] /\ Unsent(p) /\ Served(p) /\ Final(p)
    BY <1>1, <1>3 DEF OnlyCall, CallsInv
  <2> QED
    BY <1>1, <1>2, <2>1 DEF Unsent, Served, Final
<1>4. Unsent(q)' /\ Served(q)' /\ Final(q)'
  <2>1. call[q].pc # "new"
    BY <1>1 DEF Hears, Fails, Succeeds, Settles, Unsent
  <2>2. Unsent(q)' /\ Final(q)'
    BY <1>1, <2>1 DEF Unsent, Final, SameRequest, SameServer
  <2>3. Served(q)'
    BY <1>1 DEF Hears, Fails, Succeeds, Settles, Served, SameRequest, SameServer
  <2> QED
    BY <2>2, <2>3
<1> QED
  BY <1>3, <1>4 DEF CallsInv

\* CallsInv is kept by the steps that leave every call's progress alone.
LEMMA CallsKept ==
    ASSUME ConsoleTypeOK, CallsInv, Unmoved, page'.mine \subseteq page.mine,
           \A q \in Changes : /\ SameRequest(q) /\ SameServer(q) /\ call'[q].ui = call[q].ui
                             /\ (call'[q].left => q \in page.mine \/ call[q].left)
    PROVE  CallsInv'
<1>1. ASSUME NEW q \in Changes
      PROVE  Unsent(q)' /\ Served(q)' /\ Final(q)'
  <2>1. /\ SameRequest(q) /\ SameServer(q) /\ call'[q].ui = call[q].ui
        /\ Unsent(q) /\ Served(q) /\ Final(q)
        /\ (call'[q].left => q \in page.mine \/ call[q].left)
    BY DEF CallsInv
  <2>2. Unsent(q)'
    BY <2>1 DEF Unsent, SameRequest, SameServer, Unmoved
  <2>3. Served(q)' /\ Final(q)'
    BY <2>1 DEF Served, Final, SameRequest, SameServer, Unmoved
  <2> QED
    BY <2>2, <2>3
<1> QED
  BY <1>1 DEF CallsInv

\* CallsInv is inductive.
LEMMA CallsInvariant ==
    ASSUME ConsoleTypeOK, CallsInv, ConsoleStep
    PROVE  CallsInv'
<1>1. ASSUME NEW q \in Changes, NEW op, Sends(q, "ui", op) \/ Sends(q, "api", op)
      PROVE  CallsInv'
  BY <1>1, CallsSent
<1>2. CASE call' = call /\ Unmoved /\ page'.mine = page.mine
  <2>1. \A q \in Changes : /\ SameRequest(q) /\ SameServer(q) /\ call'[q].ui = call[q].ui
                          /\ (call'[q].left => q \in page.mine \/ call[q].left)
    BY <1>2 DEF SameRequest, SameServer
  <2> QED
    BY <1>2, <2>1, CallsKept
<1>3. (Asks \/ Edits \/ \E k \in Console!Keys : Reads(k) \/ Loads(k) \/ Errs(k))
        => call' = call /\ Unmoved /\ page'.mine = page.mine
  BY DEF Asks, Edits, Reads, Loads, Errs, KeptPage, Drafted
<1>4. ASSUME NEW to \in PageNames, Enters(to)
      PROVE  CallsInv'
  <2>1. page'.mine = {}
    BY <1>4, ConsoleEntered
  <2> QED
    BY <1>4, <2>1, CallsKept DEF Enters
<1> QED
  BY <1>1, <1>2, <1>3, <1>4, CallsServed, CallsHeard DEF ConsoleStep

-----------------------------------------------------------------------------
\* QueriesInv is kept by a step after which no more calls are taken for
\* successful than before, if it keeps what the entries show.
LEMMA QueriesKept ==
    ASSUME ConsoleTypeOK, QueriesInv,
           \A q \in Changes : Told(q)' => Told(q) /\ call'[q].op = call[q].op,
           \A q \in Changes, k \in Console!Keys :
               Told(q) /\ k = Console!Invalidates(call[q].op) /\ Shows(q, k) => Shows(q, k)'
    PROVE  QueriesInv'
<1>1. SUFFICES ASSUME NEW q \in Changes, NEW k \in Console!Keys, Told(q)',
                      k = Console!Invalidates(call'[q].op)
               PROVE  Shows(q, k)'
  BY DEF QueriesInv, Console!Invalidates
<1>2. Told(q) /\ k = Console!Invalidates(call[q].op)
  BY <1>1
<1> QED
  BY <1>2 DEF QueriesInv

\* QueriesInv is kept while the cache stays as it is.
LEMMA QueriesSame ==
    ASSUME ConsoleTypeOK, QueriesInv, cache' = cache,
           \A q \in Changes : Told(q)' => Told(q) /\ call'[q].op = call[q].op
    PROVE  QueriesInv'
<1>1. \A q \in Changes, k \in Console!Keys : Shows(q, k) => Shows(q, k)'
  BY DEF Shows
<1> QED
  BY <1>1, QueriesKept

\* QueriesInv is kept when entries are asked for again.
LEMMA QueriesMounted ==
    ASSUME ConsoleTypeOK, QueriesInv, NEW at, MountedAt(at),
           \A q \in Changes : Told(q)' => Told(q) /\ call'[q].op = call[q].op
    PROVE  QueriesInv'
<1>1. ASSUME NEW q \in Changes, NEW k \in Console!Keys, Shows(q, k)
      PROVE  Shows(q, k)'
  <2>1. cache'[k] = cache[k] \/ cache'[k].fetch = "asked"
    BY DEF MountedAt
  <2> QED
    BY <1>1, <2>1 DEF Shows
<1> QED
  BY <1>1, QueriesKept

\* QueriesInv is kept when a query reads, loads or fails: what it reads has
\* every change the browser was told of.
LEMMA QueriesRead ==
    ASSUME ConsoleTypeOK, CallsInv, QueriesInv, NEW l \in Console!Keys, Reads(l) \/ Loads(l) \/ Errs(l)
    PROVE  QueriesInv'
<1>1. call' = call /\ OnlyEntry(l)
  BY DEF Reads, Loads, Errs
<1>2. ASSUME NEW q \in Changes, NEW k \in Console!Keys, Told(q),
             k = Console!Invalidates(call[q].op), Shows(q, k)
      PROVE  Shows(q, k)'
  <2>1. CASE k # l
    <3>1. cache'[k] = cache[k]
      BY <1>1, <2>1 DEF OnlyEntry
    <3> QED
      BY <1>2, <3>1 DEF Shows
  <2>2. CASE k = l /\ Reads(l)
    <3>1. q \in done /\ call[q].op # "none"
      BY <1>2 DEF CallsInv, Served, Unsent, Told, ConsoleTypeOK, ArgumentsOK
    <3>2. q \in Console!Selected(k).seen
      BY <1>2, <3>1, ConsoleSelected
    <3>3. cache'[k].fetch = "read" /\ cache'[k].got = Console!Selected(k)
      BY <2>2 DEF Reads
    <3> HIDE DEF Console!Selected
    <3> QED
      BY <3>2, <3>3 DEF Shows
  <2>3. CASE k = l /\ Loads(l)
    BY <1>2, <2>3 DEF Loads, Shows
  <2>4. CASE k = l /\ Errs(l)
    BY <1>2, <2>4 DEF Errs, Shows
  <2> QED
    BY <2>1, <2>2, <2>3, <2>4
<1>3. \A q \in Changes : Told(q)' => Told(q) /\ call'[q].op = call[q].op
  BY <1>1 DEF Told
<1> QED
  BY <1>2, <1>3, QueriesKept

\* QueriesInv is kept when a call succeeds, for it invalidates its entry.
LEMMA QueriesSucceed ==
    ASSUME ConsoleTypeOK, QueriesInv, NEW q \in Changes, Hears(q), Succeeds(q)
    PROVE  QueriesInv'
<1> DEFINE l == Console!Invalidates(call[q].op)
<1>1. /\ Restaled(l) /\ OnlyCall(q) /\ call'[q].op = call[q].op /\ l \in Console!Keys
  BY ConsoleInvalidates DEF Succeeds, Hears, SameRequest
<1>2. ASSUME NEW p \in Changes, NEW k \in Console!Keys, Told(p)',
             k = Console!Invalidates(call'[p].op)
      PROVE  Shows(p, k)'
  <2>1. CASE p = q
    <3>1. k = l
      BY <1>1, <1>2, <2>1
    <3> HIDE DEF l
    <3> QED
      BY <1>1, <3>1 DEF Restaled, Shows
  <2>2. CASE p # q
    <3>1. call'[p] = call[p]
      BY <1>1, <2>2 DEF OnlyCall
    <3>2. Shows(p, k)
      BY <1>2, <3>1 DEF QueriesInv, Told
    <3>3. CASE k # l
      <4>1. cache'[k] = cache[k]
        BY <1>1, <3>3 DEF Restaled, OnlyEntry
      <4> QED
        BY <3>2, <4>1 DEF Shows
    <3>4. CASE k = l
      <4> HIDE DEF l
      <4> QED
        BY <1>1, <3>2, <3>4 DEF Restaled, Shows
    <3> QED
      BY <3>3, <3>4
  <2> QED
    BY <2>1, <2>2
<1> QED
  BY <1>2 DEF QueriesInv, Console!Invalidates

\* QueriesInv is inductive.
LEMMA QueriesInvariant ==
    ASSUME ConsoleTypeOK, CallsInv, QueriesInv, ConsoleStep
    PROVE  QueriesInv'
<1>1. ASSUME NEW q \in Changes, Serves(q)
      PROVE  QueriesInv'
  <2>1. \A p \in Changes : Told(p)' => Told(p) /\ call'[p].op = call[p].op
    BY <1>1 DEF Serves, OnlyCall, SameRequest, SameBrowser, Told
  <2> QED
    BY <1>1, <2>1, QueriesSame DEF Serves
<1>2. ASSUME NEW q \in Changes, NEW by \in {"ui", "api"}, NEW op, Sends(q, by, op)
      PROVE  QueriesInv'
  <2>1. \A p \in Changes : Told(p)' => Told(p) /\ call'[p].op = call[p].op
    BY <1>2 DEF Sends, OnlyCall, Told
  <2> QED
    BY <1>2, <2>1, QueriesSame DEF Sends
<1>3. ASSUME NEW q \in Changes, Hears(q)
      PROVE  QueriesInv'
  <2>1. CASE Fails(q) \/ Settles(q)
    <3>1. \A p \in Changes : Told(p)' => Told(p) /\ call'[p].op = call[p].op
      BY <1>3, <2>1 DEF Hears, Fails, Settles, OnlyCall, SameRequest, Told
    <3> QED
      BY <2>1, <3>1, QueriesSame DEF Fails, Settles
  <2> QED
    BY <1>3, <2>1, QueriesSucceed DEF Hears
<1>4. CASE Asks \/ Edits
  <2>1. \A p \in Changes : Told(p)' => Told(p) /\ call'[p].op = call[p].op
    BY <1>4 DEF Asks, Edits, Told
  <2>2. CASE Asks
    BY <2>1, <2>2, QueriesMounted DEF Asks
  <2>3. CASE Edits
    BY <2>1, <2>3, QueriesSame DEF Edits
  <2> QED
    BY <1>4, <2>2, <2>3
<1>5. ASSUME NEW to \in PageNames, Enters(to)
      PROVE  QueriesInv'
  <2>1. \A p \in Changes : Told(p)' => Told(p) /\ call'[p].op = call[p].op
    BY <1>5 DEF Enters, SameRequest, Told
  <2> QED
    BY <1>5, <2>1, QueriesMounted DEF Enters
<1> QED
  BY <1>1, <1>2, <1>3, <1>4, <1>5, QueriesRead DEF ConsoleStep

-----------------------------------------------------------------------------
\* SavesInv.
SavedOK(q) == Mine(q) /\ Replaces(q) /\ Replaced(q)

\* A save that the server has not executed, and that nothing explains, is
\* one that its page is still waiting for.
LEMMA SaveOnItsWay ==
    ASSUME ConsoleTypeOK, CallsInv, SavesInv, NEW q \in Changes, Save(q), ~Explained(q),
           call[q].pc \in {"sent", "checked"}
    PROVE  Saving(q)
<1>1. Served(q) /\ Mine(q) /\ call[q].ui \in Heard
  BY DEF CallsInv, SavesInv, ConsoleTypeOK, ConsoleCall
<1>2. call[q].ui # "ok" /\ call[q].ui # "refetching"
  <2>1. call[q].pc # "answered"
    OBVIOUS
  <2> QED
    BY <1>1, <2>1 DEF Served
<1>3. call[q].ui = "pending"
  BY <1>1, <1>2 DEF Mine, Explained, Save, Heard
<1> QED
  BY <1>1, <1>3 DEF Mine, Explained, Save, Saving, Console!Pending

\* SavesInv is kept when the server serves a call: since a page has one
\* save on its way, no other save of it is executed in between.
LEMMA SavesServed ==
    ASSUME ConsoleTypeOK, CallsInv, SavesInv, NEW q \in Changes, Serves(q)
    PROVE  SavesInv'
<1>1. /\ page' = page /\ SameRequest(q) /\ SameBrowser(q) /\ OnlyCall(q)
      /\ Unsent(q) /\ Served(q) /\ SavedOK(q)
  BY DEF Serves, SamePage, CallsInv, SavesInv, SavedOK
<1>2. ASSUME NEW p \in Changes
      PROVE  /\ call'[p].by = call[p].by /\ call'[p].op = call[p].op /\ call'[p].base = call[p].base
             /\ call'[p].ui = call[p].ui /\ (call'[p].left <=> call[p].left)
             /\ (call'[p].old <=> call[p].old)
  BY <1>1 DEF OnlyCall, SameRequest, SameBrowser
<1>3. ASSUME NEW p \in Changes
      PROVE  /\ (Explained(p)' <=> Explained(p)) /\ (Save(p)' <=> Save(p)) /\ (Saving(p)' <=> Saving(p))
  BY <1>1, <1>2 DEF Explained, Save, Saving, Console!Pending
<1>4. OneSave' /\ Based'
  BY <1>1, <1>2, <1>3 DEF SavesInv, OneSave, Based
<1>5. ASSUME NEW p \in Changes
      PROVE  Mine(p)'
  <2>1. Mine(p)
    BY DEF SavesInv
  <2>2. call'[p].pc # "new" => call[p].pc # "new"
    BY <1>1 DEF OnlyCall, Serves, Checks, Ends, Executes
  <2> QED
    BY <1>1, <1>2, <2>1, <2>2 DEF Mine
<1>6. ASSUME NEW p \in Changes
      PROVE  Replaces(p)'
  <2>1. SUFFICES ASSUME Save(p), ~Explained(p), ~call[p].old, call'[p].pc \in {"sent", "checked"},
                        NEW r \in done', call[r].op = "put", r \in Changes
                 PROVE  r \in call[p].base \/ Explained(r)
    <3>1. done' \subseteq Changes
      BY DEF Serves, Checks, Ends, Executes, ConsoleTypeOK
    <3> QED
      BY <1>2, <1>3, <3>1 DEF Replaces
  <2>2. call[p].pc \in {"sent", "checked"}
    BY <1>1, <2>1 DEF OnlyCall, Serves, Checks, Ends, Executes
  <2>3. Replaces(p)
    BY DEF SavesInv
  <2>4. CASE r \in done
    BY <2>1, <2>2, <2>3, <2>4 DEF Replaces
  <2>5. CASE r \notin done
    <3>1. r = q /\ Executes(q)
      BY <2>1, <2>5 DEF Serves, Checks, Ends, Executes
    <3>2. p # q
      BY <2>1, <3>1 DEF Executes
    <3>3. call[r].pc \in {"sent", "checked"}
      BY <3>1 DEF Executes
    <3>4. ASSUME ~Explained(r) PROVE FALSE
      <4>1. Mine(r)
        BY <2>1 DEF SavesInv
      <4>2. Save(r)
        BY <2>1, <3>3, <3>4, <4>1 DEF Save, Mine, Explained
      <4>3. Saving(r) /\ Saving(p)
        BY <2>1, <2>2, <3>3, <3>4, <4>2, SaveOnItsWay
      <4> QED
        BY <2>1, <3>1, <3>2, <4>3 DEF SavesInv, OneSave
    <3> QED
      BY <3>4
  <2> QED
    BY <2>4, <2>5
<1>7. ASSUME NEW p \in Changes
      PROVE  Replaced(p)'
  <2>1. SUFFICES ASSUME call[p].by = "ui", ~Explained(p), ~call[p].old, NEW r \in call'[p].over
                 PROVE  Explained(r)'
    BY <1>2, <1>3 DEF Replaced
  <2>2. Replaced(p) /\ Replaces(p)
    BY DEF SavesInv
  <2>3. call[p].over \subseteq Changes
    BY DEF ConsoleTypeOK, ConsoleCall
  <2>4. CASE call'[p].over = call[p].over
    BY <1>3, <2>1, <2>2, <2>3, <2>4 DEF Replaced
  <2>5. CASE call'[p].over # call[p].over
    <3>1. p = q /\ Executes(q)
      BY <1>1, <2>5 DEF OnlyCall, Serves, Checks, Ends
    <3>2. r \in Console!Unseen(q)
      BY <2>1, <3>1 DEF Executes
    <3>3. call[q].op = "put" /\ r \in done /\ r \notin call[q].base /\ call[r].op = "put"
      BY <3>2 DEF Console!Unseen
    <3>4. call[q].pc \in {"sent", "checked"}
      BY <3>1 DEF Executes
    <3>5. Explained(r) /\ r \in Changes
      BY <2>1, <2>2, <3>1, <3>3, <3>4 DEF Replaces, Save, ConsoleTypeOK
    <3> QED
      BY <1>3, <3>5
  <2> QED
    BY <2>4, <2>5
<1> QED
  BY <1>4, <1>5, <1>6, <1>7 DEF SavesInv

\* SavesInv is kept when a call is sent: a save starts from a base that has
\* all earlier saves.
LEMMA SavesSent ==
    ASSUME ConsoleTypeOK, CallsInv, SavesInv, NEW q \in Changes, NEW by \in {"ui", "api"}, NEW op,
           Sends(q, by, op)
    PROVE  SavesInv'
<1>1. /\ done' = done /\ OnlyCall(q) /\ Unsent(q) /\ call[q].pc = "new"
      /\ call'[q].pc = "sent" /\ call'[q].by = by /\ call'[q].op = op /\ call'[q].over = {}
      /\ ~call'[q].left /\ call'[q].ui = (IF by = "ui" THEN "pending" ELSE "none")
  BY DEF Sends, CallsInv
<1>2. /\ q \notin done /\ q \notin page.mine /\ ~Explained(q)
  BY <1>1 DEF Unsent, Explained
<1>3. /\ page'.mine = (IF by = "ui" THEN page.mine \cup {q} ELSE page.mine)
      /\ page'.old = page.old /\ page'.baseSeen = page.baseSeen
  BY DEF Sends
<1>4. ASSUME NEW p \in Changes \ {q}
      PROVE  call'[p] = call[p] /\ (p \in page'.mine <=> p \in page.mine)
  BY <1>1, <1>3 DEF OnlyCall
<1>5. ASSUME NEW p \in Changes, Explained(p)
      PROVE  Explained(p)'
  <2>1. p # q
    BY <1>2, <1>5
  <2>2. call'[p] = call[p]
    BY <1>4, <2>1
  <2> QED
    BY <1>5, <2>2 DEF Explained
<1>6. OneSave'
  <2>1. ASSUME NEW p \in Changes \ {q}
        PROVE  Saving(p)' <=> Saving(p)
    BY <1>4 DEF Saving, Console!Pending
  <2>2. CASE by = "ui" /\ op = "put"
    <3>1. \A p \in Changes : ~Saving(p)
      BY <2>2 DEF Sends, Saving
    <3> QED
      BY <2>1, <3>1 DEF OneSave
  <2>3. CASE by = "api" \/ op # "put"
    <3>1. ~Saving(q)'
      BY <1>1, <1>2, <1>3, <2>3 DEF Saving
    <3> QED
      BY <2>1, <3>1 DEF OneSave, SavesInv
  <2> QED
    BY <2>2, <2>3
<1>7. Based'
  <2>1. ASSUME ~page.old, NEW p \in Changes, Save(p)', ~call'[p].left, call'[p].ui = "ok"
        PROVE  p \in page.baseSeen
    <3>1. p # q
      BY <1>1, <2>1
    <3>2. call'[p] = call[p]
      BY <1>4, <3>1
    <3> QED
      BY <2>1, <3>2 DEF SavesInv, Based, Save
  <2> QED
    BY <1>3, <2>1 DEF Based
<1>8. ASSUME NEW p \in Changes \ {q}
      PROVE  Mine(p)' /\ Replaces(p)' /\ Replaced(p)'
  <2>1. /\ call'[p] = call[p] /\ (p \in page'.mine <=> p \in page.mine)
        /\ Mine(p) /\ Replaces(p) /\ Replaced(p)
    BY <1>4 DEF SavesInv
  <2>2. Mine(p)'
    BY <2>1 DEF Mine
  <2>3. Replaces(p)'
    <3>1. \A r \in done : r \in Changes \ {q} /\ call'[r] = call[r]
      BY <1>2, <1>4 DEF ConsoleTypeOK
    <3> QED
      BY <1>1, <1>5, <2>1, <3>1 DEF Replaces, Save, Explained
  <2>4. Replaced(p)'
    <3>1. call[p].over \subseteq Changes
      BY DEF ConsoleTypeOK, ConsoleCall
    <3>2. Explained(p)' <=> Explained(p)
      BY <2>1 DEF Explained
    <3> QED
      BY <1>5, <2>1, <3>1, <3>2 DEF Replaced
  <2> QED
    BY <2>2, <2>3, <2>4
<1>9. Mine(q)' /\ Replaced(q)'
  BY <1>1, <1>2, <1>3 DEF Mine, Replaced
<1>10. Replaces(q)'
  <2>1. SUFFICES ASSUME by = "ui", op = "put", ~call'[q].old, NEW r \in done, call'[r].op = "put"
                 PROVE  r \in call'[q].base \/ Explained(r)'
    BY <1>1 DEF Replaces, Save
  <2>2. /\ ~page.old /\ call'[q].base = page.baseSeen
        /\ r \in Changes \ {q} /\ call'[r] = call[r] /\ Unsent(r) /\ Mine(r) /\ call[r].ui \in Heard
        /\ call[r].op = "put" /\ (r \in page.mine => ~Console!Pending(r))
    BY <1>2, <1>4, <2>1 DEF Sends, ConsoleTypeOK, ConsoleCall, CallsInv, SavesInv
  <2>3. CASE Explained(r)
    BY <1>5, <2>2, <2>3
  <2>4. CASE ~Explained(r)
    <3>1. call[r].by = "ui" /\ ~call[r].left /\ call[r].ui # "failed"
      BY <2>1, <2>2, <2>4 DEF Explained, Unsent, Mine
    <3>2. call[r].ui = "ok"
      BY <2>2, <3>1 DEF Mine, Console!Pending, Heard
    <3> QED
      BY <2>2, <3>1, <3>2 DEF SavesInv, Based, Save
  <2> QED
    BY <2>3, <2>4
<1> QED
  BY <1>6, <1>7, <1>8, <1>9, <1>10 DEF SavesInv

\* SavesInv is kept when the browser hears of a call.
LEMMA SavesHeard ==
    ASSUME ConsoleTypeOK, CallsInv, SavesInv, NEW q \in Changes, Hears(q)
    PROVE  SavesInv'
<1>1. /\ done' = done /\ OnlyCall(q) /\ SameRequest(q) /\ SameServer(q)
      /\ (call'[q].left <=> call[q].left)
      /\ page'.mine = page.mine /\ page'.old = page.old
      /\ Console!Pending(q) /\ call'[q].ui \in {"refetching", "ok", "failed"}
  BY DEF Hears, Unmoved, Fails, Succeeds, Settles, KeptPage, Console!Pending
<1>2. ASSUME NEW p \in Changes
      PROVE  /\ call'[p].by = call[p].by /\ call'[p].op = call[p].op /\ call'[p].base = call[p].base
             /\ call'[p].pc = call[p].pc /\ call'[p].over = call[p].over
             /\ (call'[p].left <=> call[p].left) /\ (call'[p].old <=> call[p].old)
  BY <1>1 DEF OnlyCall, SameRequest, SameServer
<1>3. ASSUME NEW p \in Changes
      PROVE  /\ Explained(p) => Explained(p)'
             /\ Save(p)' <=> Save(p)
             /\ Saving(p)' => Saving(p)
  <2>1. CASE p = q
    <3>1. call[q].ui # "failed"
      BY <1>1 DEF Console!Pending
    <3> QED
      BY <1>1, <1>2, <2>1, <3>1 DEF Explained, Save, Saving
  <2>2. CASE p # q
    <3>1. call'[p] = call[p]
      BY <1>1, <2>2 DEF OnlyCall
    <3> QED
      BY <1>1, <3>1 DEF Explained, Save, Saving, Console!Pending
  <2> QED
    BY <2>1, <2>2
<1>4. OneSave'
  BY <1>3 DEF SavesInv, OneSave
<1>5. Based'
  <2>1. SUFFICES ASSUME ~page.old, NEW p \in Changes, Save(p), ~call[p].left, call'[p].ui = "ok"
                 PROVE  p \in page'.baseSeen
    BY <1>1, <1>2, <1>3 DEF Based
  <2>2. page.baseSeen \subseteq page'.baseSeen
    BY DEF Hears, Fails, Succeeds, Settles
  <2>3. CASE call[p].ui = "ok"
    BY <2>1, <2>2, <2>3 DEF SavesInv, Based
  <2>4. CASE call[p].ui # "ok"
    <3>1. p = q /\ Settles(q)
      BY <1>1, <2>1, <2>4 DEF OnlyCall, Hears, Fails, Succeeds, Save
    <3>2. q \in page.mine
      BY <2>1, <3>1 DEF Settles, SavesInv, Mine, Save
    <3> QED
      BY <3>1, <3>2 DEF Settles
  <2> QED
    BY <2>3, <2>4
<1>6. ASSUME NEW p \in Changes
      PROVE  Mine(p)'
  <2>1. Mine(p)
    BY DEF SavesInv
  <2>2. CASE p = q
    <3>1. ~(call[q].by = "ui" /\ ~call[q].left /\ q \notin page.mine)
      BY <1>1, <2>1, <2>2 DEF Mine, Console!Pending
    <3> QED
      BY <1>1, <1>2, <2>1, <2>2, <3>1 DEF Mine
  <2>3. CASE p # q
    <3>1. call'[p] = call[p]
      BY <1>1, <2>3 DEF OnlyCall
    <3> QED
      BY <1>1, <2>1, <3>1 DEF Mine
  <2> QED
    BY <2>2, <2>3
<1>7. ASSUME NEW p \in Changes
      PROVE  Replaces(p)' /\ Replaced(p)'
  <2>1. Replaces(p) /\ Replaced(p) /\ done \subseteq Changes /\ call[p].over \subseteq Changes
    BY DEF SavesInv, ConsoleTypeOK, ConsoleCall
  <2>2. Replaces(p)'
    BY <1>1, <1>2, <1>3, <2>1 DEF Replaces
  <2>3. Replaced(p)'
    BY <1>1, <1>2, <1>3, <2>1 DEF Replaced
  <2> QED
    BY <2>2, <2>3
<1> QED
  BY <1>4, <1>5, <1>6, <1>7 DEF SavesInv

\* SavesInv is kept by the steps of the queries and of the page: the calls
\* stay, and the page keeps its own or starts without any.
LEMMA SavesKept ==
    ASSUME ConsoleTypeOK, SavesInv, Unmoved, Based',
           \A q \in Changes : SameRequest(q) /\ SameServer(q) /\ call'[q].ui = call[q].ui,
           \/ /\ page'.mine = page.mine
              /\ \A q \in Changes : call'[q].left <=> call[q].left
           \/ /\ page'.mine = {}
              /\ \A q \in Changes :
                   call'[q].left <=> (q \in page.mine /\ Console!Pending(q)) \/ call[q].left
    PROVE  SavesInv'
<1>1. ASSUME NEW p \in Changes
      PROVE  /\ call'[p].by = call[p].by /\ call'[p].op = call[p].op /\ call'[p].base = call[p].base
             /\ call'[p].pc = call[p].pc /\ call'[p].over = call[p].over /\ call'[p].ui = call[p].ui
             /\ (call[p].left => call'[p].left) /\ (call'[p].old <=> call[p].old)
  BY DEF SameRequest, SameServer
<1>2. ASSUME NEW p \in Changes
      PROVE  /\ Explained(p) => Explained(p)'
             /\ Save(p)' <=> Save(p)
             /\ Saving(p)' => Saving(p)
  BY <1>1 DEF Explained, Save, Saving, Console!Pending
<1>3. OneSave'
  BY <1>2 DEF SavesInv, OneSave
<1>4. ASSUME NEW p \in Changes
      PROVE  Mine(p)'
  <2>1. Mine(p) /\ call[p].ui \in Heard
    BY DEF SavesInv, ConsoleTypeOK, ConsoleCall
  <2> QED
    BY <1>1, <2>1 DEF Mine, Heard, Console!Pending
<1>5. ASSUME NEW p \in Changes
      PROVE  Replaces(p)' /\ Replaced(p)'
  <2>1. Replaces(p) /\ Replaced(p) /\ done \subseteq Changes /\ call[p].over \subseteq Changes
    BY DEF SavesInv, ConsoleTypeOK, ConsoleCall
  <2>2. done' = done
    BY DEF Unmoved
  <2>3. Replaces(p)'
    BY <1>1, <1>2, <2>1, <2>2 DEF Replaces
  <2>4. Replaced(p)'
    BY <1>1, <1>2, <2>1 DEF Replaced
  <2> QED
    BY <2>3, <2>4
<1> QED
  BY <1>3, <1>4, <1>5 DEF SavesInv

\* What a page is filled with has every save the browser was told of.
LEMMA FilledWithSaves ==
    ASSUME QueriesInv, NEW q \in Changes, Save(q), call[q].ui = "ok",
           cache["repo-prompt"].data # NoData, ~cache["repo-prompt"].stale,
           cache["repo-prompt"].fetch = "idle", ~cache["repo-prompt"].late
    PROVE  q \in cache["repo-prompt"].data.seen
<1>1. /\ "repo-prompt" \in Console!Keys /\ Told(q)
      /\ "repo-prompt" = Console!Invalidates(call[q].op)
  BY DEF Console!Keys, Told, Console!Invalidates, Save
<1>2. Shows(q, "repo-prompt")
  BY <1>1 DEF QueriesInv
<1> QED
  BY <1>2 DEF Shows

\* SavesInv is inductive, given what the queries show.
LEMMA SavesInvariant ==
    ASSUME ConsoleTypeOK, CallsInv, QueriesInv, SavesInv, ConsoleStep, QueriesInv'
    PROVE  SavesInv'
<1>1. ASSUME NEW q \in Changes, NEW op, Sends(q, "ui", op) \/ Sends(q, "api", op)
      PROVE  SavesInv'
  BY <1>1, SavesSent
<1>2. ASSUME call' = call, Unmoved, page'.mine = page.mine, Based'
      PROVE  SavesInv'
  <2>1. \A q \in Changes : /\ SameRequest(q) /\ SameServer(q) /\ call'[q].ui = call[q].ui
                          /\ (call'[q].left <=> call[q].left)
    BY <1>2 DEF SameRequest, SameServer
  <2> QED
    BY <1>2, <2>1, SavesKept
<1>3. CASE Asks \/ Edits \/ \E k \in Console!Keys : Reads(k) \/ Errs(k)
  <2>1. /\ call' = call /\ Unmoved /\ page'.mine = page.mine
        /\ page'.old = page.old /\ page'.baseSeen = page.baseSeen
    BY <1>3 DEF Asks, Edits, Reads, Errs, KeptPage
  <2>2. Based'
    BY <2>1 DEF SavesInv, Based, Save
  <2> QED
    BY <1>2, <2>1, <2>2
<1>4. ASSUME NEW k \in Console!Keys, Loads(k)
      PROVE  SavesInv'
  <2>1. call' = call /\ Unmoved /\ page'.mine = page.mine /\ Drafted(page, cache'["repo-prompt"], page')
    BY <1>4 DEF Loads, Drafted
  <2>2. CASE page' = page
    <3>1. Based'
      BY <2>1, <2>2 DEF SavesInv, Based, Save
    <3> QED
      BY <1>2, <2>1, <3>1
  <2>3. CASE page' # page
    <3>1. /\ cache'["repo-prompt"].data # NoData
          /\ page'.baseSeen = cache'["repo-prompt"].data.seen
          /\ (~page'.old => /\ ~cache'["repo-prompt"].stale /\ cache'["repo-prompt"].fetch = "idle"
                            /\ ~cache'["repo-prompt"].late)
      BY <2>1, <2>3 DEF Drafted
    <3>2. ASSUME ~page'.old, NEW q \in Changes, Save(q)', call'[q].ui = "ok"
          PROVE  q \in page'.baseSeen
      <4>1. /\ "repo-prompt" \in Console!Keys /\ Told(q)'
            /\ "repo-prompt" = Console!Invalidates(call'[q].op)
        BY <3>2 DEF Console!Keys, Told, Console!Invalidates, Save
      <4>2. Shows(q, "repo-prompt")'
        BY <4>1 DEF QueriesInv
      <4> QED
        BY <3>1, <3>2, <4>2 DEF Shows
    <3>3. Based'
      BY <3>2 DEF Based
    <3> QED
      BY <1>2, <2>1, <3>3
  <2> QED
    BY <2>2, <2>3
<1>5. ASSUME NEW to \in PageNames, Enters(to)
      PROVE  SavesInv'
  <2>1. /\ Unmoved /\ page'.mine = {}
        /\ \A q \in Changes : /\ SameRequest(q) /\ SameServer(q) /\ call'[q].ui = call[q].ui
                              /\ (call'[q].left <=> (q \in page.mine /\ Console!Pending(q)) \/ call[q].left)
    BY <1>5, ConsoleEntered DEF Enters
  <2>2. ASSUME ~page'.old, NEW q \in Changes, Save(q)', call'[q].ui = "ok"
        PROVE  q \in page'.baseSeen
    <3>1. /\ cache["repo-prompt"].data # NoData /\ ~cache["repo-prompt"].stale
          /\ cache["repo-prompt"].fetch = "idle" /\ ~cache["repo-prompt"].late
          /\ page'.baseSeen = cache["repo-prompt"].data.seen
      BY <1>5, <2>2, ConsoleEntered
    <3>2. Save(q) /\ call[q].ui = "ok"
      BY <2>1, <2>2 DEF SameRequest, Save
    <3> QED
      BY <3>1, <3>2, FilledWithSaves
  <2>3. Based'
    BY <2>2 DEF Based
  <2> QED
    BY <2>1, <2>3, SavesKept
<1> QED
  BY <1>1, <1>3, <1>4, <1>5, SavesServed, SavesHeard DEF ConsoleStep

-----------------------------------------------------------------------------
\* A page observes keys of the cache; the prompt page the prompt's.
LEMMA ObservedKeys ==
    ASSUME NEW at \in PageNames
    PROVE  /\ Console!Observed(at) \subseteq scene.keys
           /\ Console!Observed(at) \subseteq Console!Keys
           /\ at = "prompt" /\ "repo-prompt" \in scene.keys => "repo-prompt" \in Console!Observed(at)
  BY DEF Console!Observed, Console!Keys, PageNames

DataStale == \A k \in Console!Keys : cache[k].data = NoData => cache[k].stale
PromptUnread == "repo-prompt" \notin scene.keys => cache["repo-prompt"].fetch = "idle"

\* An entry without data stays stale, and a prompt nobody observes is
\* never fetched.
LEMMA DraftQueries ==
    ASSUME ConsoleTypeOK, DraftInv, ConsoleStep
    PROVE  DataStale' /\ PromptUnread'
<1>1. /\ "repo-prompt" \in Console!Keys /\ page.at \in PageNames /\ DataStale /\ PromptUnread
  BY DEF Console!Keys, ConsoleTypeOK, ConsolePage, DraftInv, DataStale, PromptUnread
<1>2. CASE cache' = cache /\ scene' = scene
  BY <1>1, <1>2 DEF DataStale, PromptUnread
<1>3. ASSUME NEW at \in PageNames, MountedAt(at), scene' = scene
      PROVE  DataStale' /\ PromptUnread'
  BY <1>1, <1>3, ObservedKeys DEF MountedAt, DataStale, PromptUnread
<1>4. ASSUME NEW k \in Console!Keys, Restaled(k), scene' = scene
      PROVE  DataStale' /\ PromptUnread'
  BY <1>1, <1>4, ObservedKeys DEF Restaled, OnlyEntry, DataStale, PromptUnread
<1>5. ASSUME NEW k \in Console!Keys, Reads(k) \/ Errs(k)
      PROVE  DataStale' /\ PromptUnread'
  BY <1>1, <1>5 DEF Reads, Errs, Unmoved, OnlyEntry, DataStale, PromptUnread
<1>6. ASSUME NEW k \in Console!Keys, Loads(k)
      PROVE  DataStale' /\ PromptUnread'
  <2>1. cache[k].got \in DataOf(k)
    BY <1>6 DEF Loads, ConsoleTypeOK, EntriesOK
  <2>2. cache[k].got # NoData
    BY <2>1, NoDataAssumption DEF DataOf, PromptData, RepoData, Drafts
  <2> QED
    BY <1>1, <1>6, <2>2 DEF Loads, Unmoved, OnlyEntry, DataStale, PromptUnread
<1>7. ASSUME NEW q \in Changes, Hears(q)
      PROVE  DataStale' /\ PromptUnread'
  <2>1. scene' = scene
    BY <1>7 DEF Hears, Unmoved
  <2>2. CASE Succeeds(q)
    BY <1>4, <2>1, <2>2, ConsoleInvalidates DEF Succeeds
  <2>3. CASE Fails(q) \/ Settles(q)
    BY <1>2, <2>1, <2>3 DEF Fails, Settles
  <2> QED
    BY <1>7, <2>2, <2>3 DEF Hears
<1>8. (\E q \in Changes : Serves(q) \/ \E op \in {"patch", "put", "delete"} :
                               Sends(q, "ui", op) \/ Sends(q, "api", op)) \/ Edits
        => cache' = cache /\ scene' = scene
  BY DEF Serves, SamePage, Sends, Edits, Unmoved
<1>9. Asks => MountedAt(page.at) /\ scene' = scene
  BY DEF Asks, Unmoved
<1>10. ASSUME NEW to \in PageNames, Enters(to)
       PROVE  DataStale' /\ PromptUnread'
  BY <1>3, <1>10 DEF Enters, Unmoved
<1> QED
  BY <1>1, <1>2, <1>3, <1>5, <1>6, <1>7, <1>8, <1>9, <1>10 DEF ConsoleStep

\* The page that stays, with what its prompt's entry holds.
Editor ==
    /\ page.asking => page.at # "prompt"
    /\ page.blocked # NoData => page.blocked # page.at
    /\ Filling => cache["repo-prompt"].data = NoData
    /\ Filling /\ ~page.failed /\ "repo-prompt" \in scene.keys =>
         cache["repo-prompt"].fetch # "idle" /\ page.draft = page.base /\ page.mine = {}

\* The editor's part of DraftInv is kept by the steps of the calls.
LEMMA DraftCalls ==
    ASSUME ConsoleTypeOK, CallsInv, SavesInv, DraftInv, NEW q \in Changes,
           \/ Serves(q) \/ Hears(q)
           \/ \E op \in {"patch", "put", "delete"} : Sends(q, "ui", op) \/ Sends(q, "api", op)
    PROVE  Editor'
<1>1. Editor /\ "repo-prompt" \in Console!Keys
  BY DEF Editor, DraftInv, Console!Keys
<1>2. CASE page' = page /\ cache' = cache /\ scene' = scene
  BY <1>1, <1>2 DEF Editor, Filling
<1>3. CASE Serves(q)
  BY <1>2, <1>3 DEF Serves, SamePage
<1>4. CASE Hears(q)
  <2>1. scene' = scene
    BY <1>4 DEF Hears, Unmoved
  <2>2. CASE Fails(q)
    BY <1>2, <2>1, <2>2 DEF Fails
  <2>3. CASE Succeeds(q)
    <3>1. page' = page /\ Restaled(Console!Invalidates(call[q].op))
      BY <2>3 DEF Succeeds
    <3>2. /\ cache'["repo-prompt"].data = cache["repo-prompt"].data
          /\ cache["repo-prompt"].fetch # "idle" => cache'["repo-prompt"].fetch # "idle"
      BY <1>1, <3>1, ConsoleInvalidates DEF Restaled, OnlyEntry
    <3> QED
      BY <1>1, <2>1, <3>1, <3>2 DEF Editor, Filling
  <2>4. CASE Settles(q)
    <3>1. CASE q \in page.mine
      <4>1. /\ page'.at = page.at /\ page'.mine = page.mine /\ (page'.init <=> page.init)
            /\ (page'.failed <=> page.failed) /\ (page'.asking <=> page.asking)
            /\ page'.blocked = page.blocked /\ cache' = cache
        BY <2>4, <3>1 DEF Settles, KeptPage
      <4> QED
        BY <1>1, <2>1, <3>1, <4>1 DEF Editor, Filling
    <3>2. CASE q \notin page.mine
      BY <1>2, <2>1, <2>4, <3>2 DEF Settles
    <3> QED
      BY <3>1, <3>2
  <2> QED
    BY <1>4, <2>2, <2>3, <2>4 DEF Hears
<1>5. ASSUME NEW op \in {"patch", "put", "delete"}, Sends(q, "api", op)
      PROVE  Editor'
  BY <1>2, <1>5 DEF Sends
<1>6. ASSUME NEW op \in {"patch", "put", "delete"}, Sends(q, "ui", op)
      PROVE  Editor'
  <2>1. /\ page'.at = page.at /\ (page'.init <=> page.init)
        /\ (page'.failed <=> page.failed) /\ (page'.asking => page.asking)
        /\ page'.blocked = page.blocked /\ cache' = cache /\ scene' = scene
        /\ page'.draft = page.draft /\ page'.base = page.base
        /\ page.at = "prompt" => page.draft # page.base
    BY <1>6 DEF Sends
  <2> QED
    BY <1>1, <2>1 DEF Editor, Filling
<1> QED
  BY <1>3, <1>4, <1>5, <1>6

\* The editor's part of DraftInv is kept by the queries and by typing.
LEMMA DraftPages ==
    ASSUME ConsoleTypeOK, DraftInv, \/ Asks \/ Edits
                                   \/ \E k \in Console!Keys : Reads(k) \/ Loads(k) \/ Errs(k)
    PROVE  Editor'
<1>1. /\ Editor /\ "repo-prompt" \in Console!Keys /\ page.at \in PageNames
      /\ PromptUnread /\ DataStale
  BY DEF Editor, DraftInv, Console!Keys, ConsoleTypeOK, ConsolePage, PromptUnread, DataStale
<1>2. CASE Asks
  <2>1. page' = page /\ scene' = scene
    BY <1>2 DEF Asks, Unmoved
  <2>2. /\ cache'["repo-prompt"].data = cache["repo-prompt"].data
        /\ cache["repo-prompt"].fetch # "idle" => cache'["repo-prompt"].fetch # "idle"
    BY <1>1, <1>2 DEF Asks, MountedAt
  <2> QED
    BY <1>1, <2>1, <2>2 DEF Editor, Filling
<1>3. CASE Edits
  <2>1. /\ page'.at = page.at /\ page'.mine = page.mine /\ (page'.init <=> page.init)
        /\ (page'.failed <=> page.failed) /\ page'.base = page.base /\ cache' = cache /\ scene' = scene
        /\ page'.asking => page.asking \/ page.at # "prompt"
        /\ page'.blocked # NoData => page'.blocked \in {page.blocked} \cup (PageNames \ {page.at})
        /\ \/ page'.draft = page.draft \/ page'.draft = page.base
           \/ cache["repo-prompt"].data # NoData \/ cache["repo-prompt"].fetch = "idle"
    BY <1>3 DEF Edits, KeptPage, Unmoved
  <2> QED
    BY <1>1, <2>1 DEF Editor, Filling
<1>4. ASSUME NEW k \in Console!Keys, Reads(k)
      PROVE  Editor'
  <2>1. /\ page' = page /\ scene' = scene
        /\ cache'["repo-prompt"].data = cache["repo-prompt"].data
        /\ cache["repo-prompt"].fetch # "idle" => cache'["repo-prompt"].fetch # "idle"
    BY <1>1, <1>4 DEF Reads, Unmoved, OnlyEntry
  <2> QED
    BY <1>1, <2>1 DEF Editor, Filling
<1>5. ASSUME NEW k \in Console!Keys, Errs(k)
      PROVE  Editor'
  <2>1. /\ page'.at = page.at /\ page'.mine = page.mine /\ (page'.init <=> page.init)
        /\ page'.draft = page.draft /\ page'.base = page.base
        /\ (page'.asking <=> page.asking) /\ page'.blocked = page.blocked /\ scene' = scene
        /\ (page'.failed <=> page.failed \/ (k = "repo-prompt" /\ cache[k].data = NoData))
    BY <1>5 DEF Errs, Unmoved
  <2>2. cache'["repo-prompt"].data = cache["repo-prompt"].data
    BY <1>1, <1>5 DEF Errs, OnlyEntry
  <2>3. k # "repo-prompt" => cache'["repo-prompt"] = cache["repo-prompt"]
    BY <1>1, <1>5 DEF Errs, OnlyEntry
  <2> QED
    BY <1>1, <2>1, <2>2, <2>3 DEF Editor, Filling
<1>6. ASSUME NEW k \in Console!Keys, Loads(k)
      PROVE  Editor'
  <2> DEFINE e == cache'["repo-prompt"]
  <2>1. Drafted(page, e, page') /\ scene' = scene
    BY <1>6 DEF Loads, Unmoved
  <2>2. k # "repo-prompt" => e = cache["repo-prompt"]
    BY <1>1, <1>6 DEF Loads, OnlyEntry
  <2>3. k = "repo-prompt" => e.data # NoData
    <3>1. cache[k].got \in DataOf(k) /\ cache'[k].data = cache[k].got
      BY <1>6 DEF Loads, ConsoleTypeOK, EntriesOK
    <3>2. cache[k].got # NoData
      BY <3>1, NoDataAssumption DEF DataOf, PromptData, RepoData, Drafts
    <3> QED
      BY <3>1, <3>2
  <2>4. CASE page' = page /\ (Filling => e.data = NoData)
    <3> QED
      BY <1>1, <2>1, <2>2, <2>3, <2>4 DEF Editor, Filling
  <2>5. CASE page'.init
    <3>1. page'.at = page.at /\ (page'.asking <=> page.asking) /\ page'.blocked = page.blocked
      BY <2>1 DEF Drafted
    <3> QED
      BY <1>1, <2>1, <2>5, <3>1 DEF Editor, Filling
  <2> QED
    BY <2>1, <2>4, <2>5 DEF Drafted, Filling
<1> QED
  BY <1>2, <1>3, <1>4, <1>5, <1>6

\* The editor's part of DraftInv holds of a page that is entered.
LEMMA DraftEntered ==
    ASSUME ConsoleTypeOK, DraftInv, NEW to \in PageNames, Enters(to)
    PROVE  Editor'
<1>1. /\ page'.at = to /\ page'.mine = {} /\ ~page'.asking /\ page'.blocked = NoData
      /\ \/ page'.init
         \/ /\ page'.draft = page'.base
            /\ to = "prompt" => cache["repo-prompt"].data = NoData
  BY ConsoleEntered
<1>2. scene' = scene /\ MountedAt(to) /\ "repo-prompt" \in Console!Keys
  BY DEF Enters, Unmoved, Console!Keys
<1>3. cache'["repo-prompt"].data = cache["repo-prompt"].data
  BY <1>2 DEF MountedAt
<1>4. ASSUME to = "prompt", cache["repo-prompt"].data = NoData, "repo-prompt" \in scene.keys
      PROVE  cache'["repo-prompt"].fetch # "idle"
  <2>1. cache["repo-prompt"].stale /\ "repo-prompt" \in Console!Observed(to)
    BY <1>2, <1>4, ObservedKeys DEF DraftInv
  <2>2. CASE cache["repo-prompt"].fetch = "idle"
    BY <1>2, <2>1, <2>2 DEF MountedAt
  <2>3. CASE cache["repo-prompt"].fetch # "idle"
    BY <1>2, <2>3 DEF MountedAt
  <2> QED
    BY <2>2, <2>3
<1> QED
  BY <1>1, <1>2, <1>3, <1>4 DEF Editor, Filling

\* DraftInv is inductive.
LEMMA DraftInvariant ==
    ASSUME ConsoleTypeOK, CallsInv, SavesInv, DraftInv, ConsoleStep
    PROVE  DraftInv'
<1>1. DataStale' /\ PromptUnread'
  BY DraftQueries
<1>2. Editor'
  BY DraftCalls, DraftPages, DraftEntered DEF ConsoleStep
<1> QED
  BY <1>1, <1>2 DEF DraftInv, DataStale, PromptUnread, Editor

-----------------------------------------------------------------------------
\* ConsoleInv holds at the start.
LEMMA ConsoleStarts ==
    ASSUME Console!Init
    PROVE  ConsoleInv
<1> DEFINE at == scene.start
           fresh(k) == IF k \in Console!Observed(at)
                       THEN [Console!NoEntry EXCEPT !.fetch = "asked"] ELSE Console!NoEntry
<1>1. /\ scene \in PageScenes /\ mock \in BOOLEAN /\ done = {}
      /\ repo = [live |-> TRUE, enabled |-> TRUE, prompt |-> ""]
      /\ call = [q \in Changes |-> Console!NoCall]
      /\ cache = [k \in Console!Keys |-> fresh(k)]
      /\ page = Console!Opened(at)
  BY DEF Console!Init
<1>2. at \in {"repos", "repo"} /\ at \in PageNames
  BY <1>1, PageScenesAssumption DEF PageNames
<1> DEFINE new == Console!NoCall
<1>3. /\ new \in ConsoleCall /\ new.by = "none" /\ new.op = "none" /\ new.pc = "new"
      /\ new.ui = "none" /\ new.reply = 0 /\ ~new.after /\ new.over = {} /\ ~new.left
  <2>1. "" \in Arguments
    BY DEF Arguments
  <2> QED
    BY <2>1 DEF Console!NoCall, ConsoleCall, Askers, Changing, Progress, Statuses, Heard
<1>4. \A k : /\ fresh(k) \in ConsoleEntry /\ fresh(k).data = NoData /\ fresh(k).stale
              /\ fresh(k).fetch = (IF k \in Console!Observed(at) THEN "asked" ELSE "idle")
  BY DEF Console!NoEntry, ConsoleEntry, AnyData, Fetches
<1> HIDE DEF new, fresh
<1>5. call = [q \in Changes |-> new]
  BY <1>1 DEF new
<1>6. /\ page \in ConsolePage /\ page.at = at /\ page.mine = {} /\ page.old
      /\ ~page.asking /\ page.blocked = NoData
  BY <1>1, <1>2, ConsoleOpened
<1>7. ConsoleTypeOK
  <2>1. repo \in [live : BOOLEAN, enabled : BOOLEAN, prompt : Drafts]
    BY <1>1 DEF Drafts
  <2>2. call \in [Changes -> ConsoleCall] /\ ArgumentsOK
    BY <1>3, <1>5 DEF ArgumentsOK
  <2>3. cache \in [Console!Keys -> ConsoleEntry] /\ EntriesOK
    BY <1>1, <1>4 DEF EntriesOK
  <2> QED
    BY <1>1, <1>6, <2>1, <2>2, <2>3 DEF ConsoleTypeOK
<1>8. ASSUME NEW q \in Changes
      PROVE  /\ call[q].by = "none" /\ call[q].op = "none" /\ call[q].pc = "new"
             /\ call[q].ui = "none" /\ call[q].reply = 0 /\ ~call[q].after /\ call[q].over = {}
             /\ ~call[q].left
  BY <1>3, <1>5
<1>9. CallsInv
  <2>1. ASSUME NEW q \in Changes
        PROVE  Unsent(q) /\ Served(q) /\ Final(q)
    <3>1. Unsent(q)
      BY <1>1, <1>6, <1>8 DEF Unsent
    <3>2. Served(q)
      <4>1. call[q].reply = 0 /\ call[q].pc = "new" /\ call[q].ui = "none" /\ q \notin done
        BY <1>1, <1>8
      <4> QED
        BY <4>1 DEF Served
    <3>3. Final(q)
      BY <1>8 DEF Final
    <3> QED
      BY <3>1, <3>2, <3>3
  <2> QED
    BY <2>1 DEF CallsInv
<1>10. QueriesInv
  BY <1>8 DEF QueriesInv, Told
<1>11. SavesInv
  BY <1>1, <1>6, <1>8 DEF SavesInv, OneSave, Saving, Based, Mine, Replaces, Replaced, Save
<1>12. DraftInv
  <2>1. \A k \in Console!Keys : cache[k].stale
    BY <1>1, <1>4
  <2>2. "repo-prompt" \notin scene.keys => cache["repo-prompt"].fetch = "idle"
    BY <1>1, <1>2, <1>4, ObservedKeys DEF Console!Keys
  <2> QED
    BY <1>2, <1>6, <2>1, <2>2 DEF DraftInv, Filling
<1> QED
  BY <1>7, <1>9, <1>10, <1>11, <1>12 DEF ConsoleInv

\* ConsoleInv is inductive.
LEMMA ConsoleGoesOn ==
    ASSUME ConsoleInv, Console!Next
    PROVE  ConsoleInv'
<1>1. ConsoleTypeOK' /\ ConsoleStep
  BY ConsoleSteps DEF ConsoleInv
<1>2. CallsInv' /\ QueriesInv' /\ DraftInv'
  BY <1>1, CallsInvariant, QueriesInvariant, DraftInvariant DEF ConsoleInv
<1>3. SavesInv'
  BY <1>1, <1>2, SavesInvariant DEF ConsoleInv
<1> QED
  BY <1>1, <1>2, <1>3 DEF ConsoleInv

\* ConsoleInv is kept by the steps of the dashboard's other parts.
LEMMA ConsoleStutters ==
    ASSUME ConsoleInv, UNCHANGED consoleVars
    PROVE  ConsoleInv'
<1>1. ConsoleTypeOK'
  BY DEF ConsoleInv, consoleVars, ConsoleTypeOK, ArgumentsOK, EntriesOK
<1>2. CallsInv'
  BY DEF ConsoleInv, consoleVars, CallsInv, Unsent, Served, Final
<1>3. QueriesInv'
  BY DEF ConsoleInv, consoleVars, QueriesInv, Told, Shows
<1>4. SavesInv'
  BY DEF ConsoleInv, consoleVars, SavesInv, OneSave, Saving, Console!Pending, Based, Mine, Replaces,
         Replaced, Save, Explained
<1>5. DraftInv'
  BY DEF ConsoleInv, consoleVars, DraftInv, Filling
<1> QED
  BY <1>1, <1>2, <1>3, <1>4, <1>5 DEF ConsoleInv

\* The pages of a repository, the query cache and the API calls keep their
\* types, and the four invariants above hold of every reachable state.
THEOREM ConsoleIsSafe == DashboardSpec => [](part = "console" => ConsoleInv)
<1> DEFINE I == part = "console" => ConsoleInv
<1>1. DashboardInit => I
  BY ConsoleStarts DEF DashboardInit
<1>2. I /\ [DashboardNext]_<<part, consoleVars, historyVars, keyVars>> => I'
  <2> SUFFICES ASSUME I, [DashboardNext]_<<part, consoleVars, historyVars, keyVars>>, part' = "console"
               PROVE  ConsoleInv'
    OBVIOUS
  <2>1. part = "console" /\ ConsoleInv
    BY DEF DashboardNext
  <2>2. CASE Console!Next
    BY <2>1, <2>2, ConsoleGoesOn
  <2>3. CASE UNCHANGED consoleVars
    BY <2>1, <2>3, ConsoleStutters
  <2> QED
    BY <2>1, <2>2, <2>3 DEF DashboardNext
<1> QED
  BY <1>1, <1>2, PTL DEF DashboardSpec

\* A delete that was acknowledged is final: no change sent later succeeds
\* (repos.ts checks deleted_at, and no UPDATE resets it).
THEOREM ConsoleDeletesAreFinal == DashboardSpec => []ConsoleDeletesFinal
<1>1. (part = "console" => ConsoleInv) => ConsoleDeletesFinal
  BY DEF ConsoleInv, CallsInv, Final, ConsoleDeletesFinal, Console!DeletesFinal
<1> QED
  BY <1>1, ConsoleIsSafe, PTL

\* A change the browser was told of is in the data it takes for fresh, or
\* the entry is stale, being fetched, or was loaded late (client.ts).
THEOREM ConsoleShowsChanges == DashboardSpec => []ConsoleShowsOwnChanges
<1>1. (part = "console" => ConsoleInv) => ConsoleShowsOwnChanges
  <2> SUFFICES ASSUME ConsoleInv, NEW q \in Changes, Told(q)
               PROVE  LET e == cache[Console!Invalidates(call[q].op)]
                      IN  e.data = NoData \/ e.stale \/ e.fetch # "idle" \/ e.late \/ q \in e.data.seen
    BY DEF ConsoleShowsOwnChanges, Console!OwnChangesShown, Told
  <2> DEFINE k == Console!Invalidates(call[q].op)
  <2>1. k \in Console!Keys
    BY ConsoleInvalidates
  <2>2. Shows(q, k)
    BY <2>1 DEF ConsoleInv, QueriesInv
  <2> HIDE DEF k
  <2>3. cache[k].data = NoData \/ cache[k].stale \/ cache[k].fetch # "idle" \/ cache[k].late
        \/ q \in cache[k].data.seen
    BY <2>2 DEF Shows
  <2> QED
    BY <2>3 DEF k
<1> QED
  BY <1>1, ConsoleIsSafe, PTL

\* A save from the page replaces no prompt that its author had not seen,
\* other than the other operator's, one whose page was left and one that the
\* page saw fail (repo-prompt.tsx).
THEOREM ConsoleOverwrites == DashboardSpec => []ConsoleOverwritesExplained
<1>1. (part = "console" => ConsoleInv) => ConsoleOverwritesExplained
  BY DEF ConsoleInv, SavesInv, Replaced, Explained, ConsoleOverwritesExplained, Console!OverwritesExplained
<1> QED
  BY <1>1, ConsoleIsSafe, PTL

\* No step that changes the queries changes a typed draft.
LEMMA DraftSurvives ==
    ASSUME ConsoleInv, ConsoleStep
    PROVE  Console!KeepsDraft
<1>1. SUFFICES ASSUME page.at = "prompt", page'.at = "prompt", page.draft # page.base, cache' # cache
               PROVE  page'.draft = page.draft \/ page.failed
  BY DEF Console!KeepsDraft, Console!isDirty
<1>2. "repo-prompt" \in Console!Keys /\ DraftInv
  BY DEF Console!Keys, ConsoleInv
<1>3. ASSUME NEW q \in Changes, Hears(q)
      PROVE  page' = page
  BY <1>1, <1>3 DEF Hears, Fails, Succeeds, Settles
<1>4. ASSUME NEW k \in Console!Keys, Loads(k)
      PROVE  page'.draft = page.draft \/ page.failed
  <2>1. CASE page' = page
    BY <2>1
  <2>2. CASE page' # page
    <3>1. Filling /\ cache'["repo-prompt"].data # NoData
      BY <1>4, <2>2 DEF Loads, Drafted, Filling
    <3>2. k = "repo-prompt"
      BY <1>2, <1>4, <3>1 DEF Loads, OnlyEntry, DraftInv
    <3>3. "repo-prompt" \in scene.keys
      BY <1>2, <1>4, <3>2 DEF Loads, DraftInv
    <3> QED
      BY <1>1, <1>2, <3>1, <3>3 DEF DraftInv
  <2> QED
    BY <2>1, <2>2
<1>5. ASSUME NEW to \in PageNames, Enters(to)
      PROVE  FALSE
  BY <1>1, <1>5, ConsoleEntered DEF Enters
<1>6. (\E q \in Changes : Serves(q) \/ \E op \in {"patch", "put", "delete"} :
                               Sends(q, "ui", op) \/ Sends(q, "api", op)) \/ Edits
        => cache' = cache
  BY DEF Serves, Sends, Edits
<1>7. (Asks \/ \E k \in Console!Keys : Reads(k) \/ Errs(k)) => page'.draft = page.draft
  BY DEF Asks, Reads, Errs
<1> QED
  BY <1>1, <1>3, <1>4, <1>5, <1>6, <1>7 DEF ConsoleStep

\* Loaded data never replaces typed text, but for a page whose first load
\* failed (repo-prompt.tsx: initDraft).
THEOREM ConsoleKeepsDraft == DashboardSpec => ConsoleDraftKept
<1>1. (part = "console" => ConsoleInv) /\ [DashboardNext]_<<part, consoleVars, historyVars, keyVars>>
        => [part = "console" => Console!KeepsDraft]_consoleVars
  <2> SUFFICES ASSUME ConsoleInv, part = "console", DashboardNext
               PROVE  Console!KeepsDraft \/ UNCHANGED consoleVars
    BY DEF consoleVars
  <2>1. CASE Console!Next
    <3>1. ConsoleStep
      BY <2>1, ConsoleSteps DEF ConsoleInv
    <3> QED
      BY <3>1, DraftSurvives
  <2> QED
    BY <2>1 DEF DashboardNext
<1> QED
  BY <1>1, ConsoleIsSafe, PTL DEF DashboardSpec, ConsoleDraftKept

-----------------------------------------------------------------------------
(* The page of LLM keys: what the variables hold.                           *)
KeyOps == {"none", "upsert", "rotate", "remove"}
KeySlots == Byok!Slots \cup {<<0, "">>}
KeyAskers == {"nobody", "page", "operator"}
KeyProgress == {"new", "sent", "ok", "error"}
KeyHeard == {"none", "pending", "ok", "failed"}
KeyTexts == STRING \cup {"", "key"}
KeyRecord == [op : KeyOps, slot : KeySlots, text : KeyTexts, by : KeyAskers, pc : KeyProgress,
              ui : KeyHeard, heard : BOOLEAN, mounted : BOOLEAN]
KeyListing == [keys : SUBSET Providers, seen : SUBSET KeyCalls]
KeyData == {Byok!Nothing} \cup KeyListing
KeyFetches == {"idle", "asked", "read"}
KeyEntry == [data : KeyData, stale : BOOLEAN, fetch : KeyFetches, got : KeyData, late : BOOLEAN]
KeyActions == [kind : {"rotate", "remove"}, provider : Providers]
KeyForm == [open : BOOLEAN, installation : Installations \cup {0}, provider : Providers,
            apiKey : KeyTexts, pendingAction : {Byok!Nothing} \cup KeyActions, blocked : BOOLEAN]
KeyWiped == [text : BOOLEAN, overlap : BOOLEAN]

KeysTypeOK ==
    /\ keyScene \in KeyScenes
    /\ store \in [Byok!Slots -> KeyCalls \cup {0}]
    /\ lists \in [Installations -> KeyEntry]
    /\ form \in KeyForm
    /\ keyCall \in [KeyCalls -> KeyRecord]
    /\ keysDone \subseteq KeyCalls
    /\ wiped \in KeyWiped

\* The inductive invariant.  The calls; what the lists show of the server and of
\* the calls; the form.
KeyServed(q) ==
    /\ keyCall[q].op = "none" =>
         keyCall[q].pc = "new" /\ keyCall[q].ui = "none" /\ ~keyCall[q].mounted
    /\ keyCall[q].op # "none" => keyCall[q].slot \in Byok!Slots
    /\ keyCall[q].pc \in {"new", "sent"} => q \notin keysDone
    /\ keyCall[q].pc = "ok" => q \in keysDone
    /\ keyCall[q].ui = "ok" => q \in keysDone
ServedInv == \A q \in KeyCalls : KeyServed(q)

\* Listing l of installation i is what the server held, but for later calls.
Tells(i, l) ==
    /\ l.seen \subseteq keysDone
    /\ \A p \in Providers : ~(p \in l.keys <=> store[<<i, p>>] # 0)
         => \E q \in keysDone \ l.seen : keyCall[q].slot = <<i, p>>
TellsInv ==
    \A i \in Installations :
        /\ lists[i].data # Byok!Nothing => Tells(i, lists[i].data)
        /\ lists[i].fetch = "read" => lists[i].got # Byok!Nothing /\ Tells(i, lists[i].got)

KeyShows(q, i) ==
    /\ lists[i].fetch = "idle" =>
         \/ lists[i].data = Byok!Nothing \/ lists[i].stale \/ lists[i].late
         \/ q \in lists[i].data.seen
    /\ lists[i].fetch = "read" => lists[i].late \/ q \in lists[i].got.seen
ListsInv ==
    \A q \in KeyCalls, i \in Installations :
        keyCall[q].ui = "ok" /\ keyCall[q].slot[1] = i => KeyShows(q, i)

\* While a save of the page is pending, the form holds its text or none, or the
\* operator has typed meanwhile.
Typing(q) ==
    keyCall[q].mounted /\ keyCall[q].op = "upsert" /\ keyCall[q].ui = "pending" =>
        form.apiKey \in {keyCall[q].text, ""} \/ wiped.overlap
Toasts(q) ==
    keyCall[q].ui \in {"ok", "failed"} /\ ~keyCall[q].heard =>
        ~keyCall[q].mounted \/ \E p \in Byok!Mine(keyCall[q].op) : p > q
\* An action to be confirmed belongs to an installation.
FormInv ==
    /\ \A q \in KeyCalls : Typing(q) /\ Toasts(q)
    /\ wiped.text => wiped.overlap
    /\ form.pendingAction # Byok!Nothing => form.installation # 0

KeysInv == KeysTypeOK /\ ServedInv /\ TellsInv /\ ListsInv /\ FormInv

-----------------------------------------------------------------------------
\* What the steps do.
OnlyKeyCall(q) == \A p \in KeyCalls \ {q} : keyCall'[p] = keyCall[p]
OnlyList(i) == \A j \in Installations \ {i} : lists'[j] = lists[j]
SameKeyRequest(q) ==
    /\ keyCall'[q].op = keyCall[q].op /\ keyCall'[q].slot = keyCall[q].slot
    /\ keyCall'[q].text = keyCall[q].text
KeysUnmoved == store' = store /\ keysDone' = keysDone /\ keyScene' = keyScene

\* The server executes call q, or answers it.
KeyServes(q) ==
    /\ OnlyKeyCall(q) /\ SameKeyRequest(q) /\ lists' = lists /\ form' = form /\ wiped' = wiped
    /\ keyCall'[q].ui = keyCall[q].ui /\ (keyCall'[q].heard <=> keyCall[q].heard)
    /\ (keyCall'[q].mounted <=> keyCall[q].mounted)
    /\ \/ /\ keyCall[q].pc = "sent" /\ keyCall'[q].pc = "ok" /\ keysDone' = keysDone \cup {q}
          /\ \A s \in Byok!Slots \ {keyCall[q].slot} : store'[s] = store[s]
       \/ /\ keyCall[q].pc \in {"sent", "ok"} /\ keyCall'[q].pc = "error"
          /\ keysDone' = keysDone /\ store' = store

\* A call is sent.
KeySends(q) ==
    /\ KeysUnmoved /\ OnlyKeyCall(q) /\ lists' = lists /\ wiped' = wiped
    /\ keyCall[q].op = "none" /\ keyCall'[q].op # "none" /\ keyCall'[q].pc = "sent"
    /\ keyCall'[q].slot \in Byok!Slots /\ keyCall'[q].ui \in {"none", "pending"}
    /\ form'.apiKey = form.apiKey /\ form'.installation = form.installation
    /\ form'.pendingAction \in {form.pendingAction, Byok!Nothing}
    /\ keyCall'[q].op = "upsert" /\ keyCall'[q].mounted => keyCall'[q].text = form.apiKey

\* The browser hears of call q.
KeyHears(q) ==
    /\ KeysUnmoved /\ OnlyKeyCall(q) /\ SameKeyRequest(q) /\ keyCall'[q].pc = keyCall[q].pc
    /\ keyCall[q].ui = "pending" /\ (keyCall'[q].mounted <=> keyCall[q].mounted)
    /\ (keyCall'[q].heard <=> Byok!Heard(q))
    /\ \/ keyCall'[q].ui = "failed" /\ lists' = lists /\ form' = form /\ wiped' = wiped
       \/ /\ keyCall[q].pc = "ok" /\ keyCall'[q].ui = "ok"
          /\ LET i == keyCall[q].slot[1]
             IN  /\ OnlyList(i) /\ lists'[i].data = lists[i].data /\ lists'[i].stale
                 /\ \/ lists'[i].fetch = "asked"
                    \/ /\ lists'[i].fetch = lists[i].fetch /\ lists'[i].got = lists[i].got
                       /\ (lists[i].fetch # "idle" => lists'[i].late)
          /\ form'.pendingAction = form.pendingAction /\ form'.installation = form.installation
          /\ \/ /\ form'.apiKey = "" /\ keyCall[q].op = "upsert" /\ Byok!Heard(q)
                /\ (wiped'.text <=> wiped.text \/ form.apiKey \notin {keyCall[q].text, ""})
                /\ (wiped'.overlap <=> wiped.overlap)
             \/ form'.apiKey = form.apiKey /\ wiped' = wiped

\* Lists that are not being fetched are asked for.
KeyAsks ==
    \A i \in Installations :
        \/ lists'[i] = lists[i]
        \/ /\ lists[i].fetch = "idle" /\ lists'[i].fetch = "asked" /\ lists'[i].data = lists[i].data

\* List i reads, loads or fails.
KeyReads(i) ==
    /\ OnlyList(i)
    /\ \/ /\ lists'[i].data = lists[i].data /\ lists'[i].fetch = "read"
          /\ lists'[i].got = [keys |-> {p \in Providers : store[<<i, p>>] # 0}, seen |-> keysDone]
       \/ /\ lists[i].fetch = "read" /\ lists'[i].data = lists[i].got
          /\ lists'[i].fetch = "idle" /\ (lists'[i].late <=> lists[i].late)
       \/ lists'[i].data = lists[i].data /\ lists'[i].fetch = "idle" /\ lists'[i].stale
KeyFetch ==
    /\ KeysUnmoved /\ keyCall' = keyCall /\ form' = form /\ wiped' = wiped
    /\ KeyAsks \/ \E i \in Installations : KeyReads(i)

\* The operator uses the form, comes back to it or leaves it.
KeyEdits ==
    /\ KeysUnmoved /\ keyCall' = keyCall /\ KeyAsks /\ (wiped'.text <=> wiped.text)
    /\ form'.pendingAction # Byok!Nothing => form'.installation # 0
    /\ \/ form'.apiKey = form.apiKey /\ wiped'.overlap = wiped.overlap
       \/ form'.apiKey = "" /\ wiped'.overlap = wiped.overlap
       \/ (wiped'.overlap <=> wiped.overlap \/ Byok!isPending("upsert"))
KeyLeaves ==
    /\ KeysUnmoved /\ lists' = lists /\ wiped' = wiped
    /\ form'.pendingAction = Byok!Nothing
    /\ \A q \in KeyCalls : /\ SameKeyRequest(q) /\ keyCall'[q].pc = keyCall[q].pc
                           /\ keyCall'[q].ui = keyCall[q].ui /\ ~keyCall'[q].mounted

KeyStepped ==
    \/ \E q \in KeyCalls : KeyServes(q) \/ KeySends(q) \/ KeyHears(q)
    \/ KeyFetch \/ KeyEdits \/ KeyLeaves

-----------------------------------------------------------------------------
\* One call is replaced.
LEMMA KeyReplaced ==
    ASSUME keyCall \in [KeyCalls -> KeyRecord], NEW q \in KeyCalls, NEW new \in KeyRecord,
           keyCall' = [keyCall EXCEPT ![q] = new]
    PROVE  keyCall' \in [KeyCalls -> KeyRecord] /\ keyCall'[q] = new /\ OnlyKeyCall(q)
  BY DEF OnlyKeyCall

\* A call is sent with these arguments.
KeySentAs(q, by, op, slot, text) ==
    /\ keyCall' \in [KeyCalls -> KeyRecord] /\ OnlyKeyCall(q)
    /\ keyCall[q].op = "none" /\ keyCall'[q].op = op /\ keyCall'[q].slot = slot
    /\ keyCall'[q].text = text /\ keyCall'[q].pc = "sent"
    /\ keyCall'[q].ui = (IF by = "page" THEN "pending" ELSE "none")
    /\ (keyCall'[q].mounted <=> by = "page")

\* Sent sends a call with its arguments.
LEMMA KeySent ==
    ASSUME keyCall \in [KeyCalls -> KeyRecord], NEW q \in KeyCalls, NEW by \in KeyAskers,
           NEW op \in KeyOps, NEW slot \in KeySlots, NEW text \in KeyTexts,
           Byok!Sent(q, by, op, slot, text)
    PROVE  KeySentAs(q, by, op, slot, text)
<1> DEFINE ui == IF by = "page" THEN "pending" ELSE "none"
           mounted == (by = "page")
           new == [Byok!NoCall EXCEPT !.op = op, !.slot = slot, !.text = text,
                  !.by = by, !.pc = "sent", !.ui = ui, !.mounted = mounted]
<1>1. keyCall' = [keyCall EXCEPT ![q] = new] /\ keyCall[q].op = "none"
  BY DEF Byok!Sent
<1>2. "sent" \in KeyProgress /\ ui \in KeyHeard /\ mounted \in BOOLEAN
  BY DEF KeyProgress, KeyHeard
<1>3. Byok!NoCall \in KeyRecord
  <2>1. <<0, "">> \in KeySlots
    BY DEF KeySlots
  <2> QED
    BY <2>1 DEF Byok!NoCall, KeyRecord, KeyOps, KeyAskers, KeyProgress, KeyHeard, KeyTexts
<1> HIDE DEF ui, mounted
<1>4. /\ new \in KeyRecord /\ new.op = op /\ new.slot = slot /\ new.text = text
      /\ new.pc = "sent" /\ new.ui = ui /\ (new.mounted <=> mounted)
  BY <1>2, <1>3 DEF KeyRecord
<1> HIDE DEF new
<1>5. keyCall' \in [KeyCalls -> KeyRecord] /\ keyCall'[q] = new /\ OnlyKeyCall(q)
  BY <1>1, <1>4, KeyReplaced
<1> QED
  BY <1>1, <1>4, <1>5 DEF KeySentAs, ui, mounted

\* The server moves one call on.
LEMMA KeyProgresses ==
    ASSUME keyCall \in [KeyCalls -> KeyRecord], NEW q \in KeyCalls, NEW pc \in KeyProgress,
           keyCall' = [keyCall EXCEPT ![q].pc = pc]
    PROVE  /\ keyCall' \in [KeyCalls -> KeyRecord] /\ OnlyKeyCall(q) /\ SameKeyRequest(q)
           /\ keyCall'[q].pc = pc /\ keyCall'[q].ui = keyCall[q].ui
           /\ (keyCall'[q].heard <=> keyCall[q].heard)
           /\ (keyCall'[q].mounted <=> keyCall[q].mounted)
<1> DEFINE new == [keyCall[q] EXCEPT !.pc = pc]
<1>1. keyCall' = [keyCall EXCEPT ![q] = new] /\ keyCall[q] \in KeyRecord
  OBVIOUS
<1>2. /\ new \in KeyRecord /\ new.op = keyCall[q].op /\ new.slot = keyCall[q].slot
      /\ new.text = keyCall[q].text /\ new.pc = pc /\ new.ui = keyCall[q].ui
      /\ (new.heard <=> keyCall[q].heard) /\ (new.mounted <=> keyCall[q].mounted)
  BY <1>1 DEF KeyRecord
<1> HIDE DEF new
<1> QED
  BY <1>1, <1>2, KeyReplaced DEF SameKeyRequest

\* The browser hears of one call.
LEMMA KeyHeardOf ==
    ASSUME keyCall \in [KeyCalls -> KeyRecord], NEW q \in KeyCalls, NEW ui \in KeyHeard,
           NEW heard \in BOOLEAN,
           keyCall' = [keyCall EXCEPT ![q].ui = ui, ![q].heard = heard]
    PROVE  /\ keyCall' \in [KeyCalls -> KeyRecord] /\ OnlyKeyCall(q) /\ SameKeyRequest(q)
           /\ keyCall'[q].pc = keyCall[q].pc /\ keyCall'[q].ui = ui
           /\ (keyCall'[q].heard <=> heard)
           /\ (keyCall'[q].mounted <=> keyCall[q].mounted)
<1> DEFINE new == [keyCall[q] EXCEPT !.ui = ui, !.heard = heard]
<1>1. keyCall' = [keyCall EXCEPT ![q] = new] /\ keyCall[q] \in KeyRecord
  OBVIOUS
<1>2. /\ new \in KeyRecord /\ new.op = keyCall[q].op /\ new.slot = keyCall[q].slot
      /\ new.text = keyCall[q].text /\ new.pc = keyCall[q].pc /\ new.ui = ui
      /\ (new.heard <=> heard) /\ (new.mounted <=> keyCall[q].mounted)
  BY <1>1 DEF KeyRecord
<1> HIDE DEF new
<1> QED
  BY <1>1, <1>2, KeyReplaced DEF SameKeyRequest

\* The server executes a call, or finds no key to rotate.
LEMMA KeyServeStep ==
    ASSUME KeysTypeOK, ServedInv, NEW q \in KeyCalls, Byok!Serve(q)
    PROVE  KeysTypeOK' /\ KeyServes(q)
<1>1. /\ keyCall \in [KeyCalls -> KeyRecord] /\ keyCall[q].pc = "sent"
      /\ UNCHANGED <<keyScene, lists, form, wiped>> /\ KeyServed(q)
  BY DEF Byok!Serve, KeysTypeOK, ServedInv
<1>2. "ok" \in KeyProgress /\ "error" \in KeyProgress
  BY DEF KeyProgress
<1>3. CASE keyCall' = [keyCall EXCEPT ![q].pc = "error"] /\ UNCHANGED <<store, keysDone>>
  <2>1. /\ keyCall' \in [KeyCalls -> KeyRecord] /\ OnlyKeyCall(q) /\ SameKeyRequest(q)
        /\ keyCall'[q].pc = "error" /\ keyCall'[q].ui = keyCall[q].ui
        /\ (keyCall'[q].heard <=> keyCall[q].heard)
        /\ (keyCall'[q].mounted <=> keyCall[q].mounted)
    BY <1>1, <1>2, <1>3, KeyProgresses
  <2> QED
    BY <1>1, <1>3, <2>1 DEF KeysTypeOK, KeyServes
<1>4. CASE /\ store' = [store EXCEPT ![keyCall[q].slot] = Byok!Effect(q)]
           /\ keyCall' = [keyCall EXCEPT ![q].pc = "ok"] /\ keysDone' = keysDone \cup {q}
  <2>1. /\ keyCall' \in [KeyCalls -> KeyRecord] /\ OnlyKeyCall(q) /\ SameKeyRequest(q)
        /\ keyCall'[q].pc = "ok" /\ keyCall'[q].ui = keyCall[q].ui
        /\ (keyCall'[q].heard <=> keyCall[q].heard)
        /\ (keyCall'[q].mounted <=> keyCall[q].mounted)
    BY <1>1, <1>2, <1>4, KeyProgresses
  <2>2. keyCall[q].slot \in Byok!Slots
    <3>1. keyCall[q].pc # "new"
      BY <1>1
    <3> QED
      BY <1>1, <3>1 DEF KeyServed
  <2>3. Byok!Effect(q) \in KeyCalls \cup {0}
    BY <2>2 DEF Byok!Effect, KeysTypeOK
  <2>4. /\ store' \in [Byok!Slots -> KeyCalls \cup {0}]
        /\ \A s \in Byok!Slots \ {keyCall[q].slot} : store'[s] = store[s]
    BY <1>4, <2>2, <2>3 DEF KeysTypeOK
  <2>5. keysDone' \subseteq KeyCalls
    BY <1>4 DEF KeysTypeOK
  <2> QED
    BY <1>1, <1>4, <2>1, <2>4, <2>5 DEF KeysTypeOK, KeyServes
<1> QED
  BY <1>3, <1>4 DEF Byok!Serve

\* The answer of a call of the page is lost or is an error.
LEMMA KeyFailStep ==
    ASSUME KeysTypeOK, NEW q \in KeyCalls, Byok!Fails(q)
    PROVE  KeysTypeOK' /\ KeyServes(q)
<1>1. /\ keyCall \in [KeyCalls -> KeyRecord] /\ keyCall[q].pc \in {"sent", "ok"}
      /\ UNCHANGED <<keyScene, store, lists, form, keysDone, wiped>>
      /\ keyCall' = [keyCall EXCEPT ![q].pc = "error"]
  BY DEF Byok!Fails, KeysTypeOK
<1>2. "error" \in KeyProgress
  BY DEF KeyProgress
<1>3. /\ keyCall' \in [KeyCalls -> KeyRecord] /\ OnlyKeyCall(q) /\ SameKeyRequest(q)
      /\ keyCall'[q].pc = "error" /\ keyCall'[q].ui = keyCall[q].ui
      /\ (keyCall'[q].heard <=> keyCall[q].heard)
      /\ (keyCall'[q].mounted <=> keyCall[q].mounted)
  BY <1>1, <1>2, KeyProgresses
<1> QED
  BY <1>1, <1>3 DEF KeysTypeOK, KeyServes

\* Another operator calls the API.
LEMMA KeyOperatorStep ==
    ASSUME KeysTypeOK, NEW q \in KeyCalls, Byok!Operator(q)
    PROVE  KeysTypeOK' /\ KeySends(q)
<1>1. PICK op \in {"upsert", "remove"}, s \in keyScene.installations \X keyScene.providers :
        Byok!Sent(q, "operator", op, s, "key")
  BY DEF Byok!Operator
<1>2. s \in Byok!Slots
  BY KeyScenesAssumption DEF KeysTypeOK, Byok!Slots
<1>3. /\ s \in KeySlots /\ op \in KeyOps /\ "operator" \in KeyAskers /\ "key" \in KeyTexts
      /\ keyCall \in [KeyCalls -> KeyRecord]
  BY <1>2 DEF KeySlots, KeyOps, KeyAskers, KeyTexts, KeysTypeOK
<1>4. KeySentAs(q, "operator", op, s, "key")
  BY <1>1, <1>3, KeySent
<1>5. UNCHANGED <<keyScene, store, lists, form, keysDone, wiped>>
  BY DEF Byok!Operator
<1> QED
  BY <1>2, <1>4, <1>5 DEF KeysTypeOK, KeySends, KeySentAs, KeysUnmoved

\* The form is submitted.
LEMMA KeyAddStep ==
    ASSUME KeysTypeOK, NEW q \in KeyCalls, Byok!handleAddKeySubmit(q)
    PROVE  KeysTypeOK' /\ KeySends(q)
<1> DEFINE s == <<form.installation, form.provider>>
           text == form.apiKey
<1>1. /\ form \in KeyForm /\ form.installation # 0 /\ keyCall \in [KeyCalls -> KeyRecord]
      /\ UNCHANGED <<keyScene, store, lists, form, keysDone, wiped>>
  BY DEF Byok!handleAddKeySubmit, KeysTypeOK
<1>2. s \in Byok!Slots /\ text \in KeyTexts
  BY <1>1 DEF KeyForm, Byok!Slots
<1>3. /\ s \in KeySlots /\ "upsert" \in KeyOps /\ "page" \in KeyAskers
  BY <1>2 DEF KeySlots, KeyOps, KeyAskers
<1>4. Byok!Sent(q, "page", "upsert", s, text)
  BY DEF Byok!handleAddKeySubmit
<1> HIDE DEF s, text
<1>5. KeySentAs(q, "page", "upsert", s, text)
  BY <1>1, <1>2, <1>3, <1>4, KeySent
<1> QED
  BY <1>1, <1>2, <1>5 DEF KeysTypeOK, KeySends, KeySentAs, KeysUnmoved, text

\* Rotating or removing is confirmed.
LEMMA KeyConfirmStep ==
    ASSUME KeysTypeOK, NEW q \in KeyCalls, Byok!handleConfirm(q),
           form.pendingAction # Byok!Nothing => form.installation # 0
    PROVE  KeysTypeOK' /\ KeySends(q)
<1> DEFINE op == form.pendingAction.kind
           s == <<form.installation, form.pendingAction.provider>>
<1>1. /\ form \in KeyForm /\ form.installation # 0 /\ keyCall \in [KeyCalls -> KeyRecord]
      /\ form.pendingAction # Byok!Nothing
      /\ form' = [form EXCEPT !.pendingAction = Byok!Nothing]
      /\ UNCHANGED <<keyScene, store, lists, keysDone, wiped>>
  BY DEF Byok!handleConfirm, KeysTypeOK
<1>2. form.pendingAction \in KeyActions
  BY <1>1 DEF KeyForm
<1>3. op \in {"rotate", "remove"} /\ s \in Byok!Slots
  BY <1>1, <1>2 DEF KeyForm, KeyActions, Byok!Slots
<1>4. /\ s \in KeySlots /\ op \in KeyOps /\ op # "upsert" /\ op # "none" /\ "page" \in KeyAskers
      /\ "" \in KeyTexts
  BY <1>3 DEF KeySlots, KeyOps, KeyAskers, KeyTexts
<1>5. Byok!Sent(q, "page", op, s, "")
  BY DEF Byok!handleConfirm
<1>6. /\ form' \in KeyForm /\ form'.pendingAction = Byok!Nothing
      /\ form'.apiKey = form.apiKey /\ form'.installation = form.installation
  BY <1>1 DEF KeyForm
<1> HIDE DEF op, s
<1>7. KeySentAs(q, "page", op, s, "")
  BY <1>1, <1>4, <1>5, KeySent
<1> QED
  BY <1>1, <1>3, <1>4, <1>6, <1>7 DEF KeysTypeOK, KeySends, KeySentAs, KeysUnmoved

\* One list is replaced.
LEMMA KeyListReplaced ==
    ASSUME lists \in [Installations -> KeyEntry], NEW i \in Installations, NEW new \in KeyEntry,
           lists' = [lists EXCEPT ![i] = new]
    PROVE  lists' \in [Installations -> KeyEntry] /\ lists'[i] = new /\ OnlyList(i)
  BY DEF OnlyList

\* List i is asked for.
LEMMA KeyAsked ==
    ASSUME lists \in [Installations -> KeyEntry], NEW i \in Installations
    PROVE  /\ Byok!Ask(lists[i]) \in KeyEntry
           /\ Byok!Ask(lists[i]).fetch = "asked" /\ Byok!Ask(lists[i]).data = lists[i].data
           /\ Byok!Ask(lists[i]).stale = lists[i].stale
<1>1. lists[i] \in KeyEntry /\ "asked" \in KeyFetches /\ Byok!Nothing \in KeyData
  BY DEF KeyFetches, KeyData
<1> QED
  BY <1>1 DEF Byok!Ask, KeyEntry

\* An invalidated list is stale, and fetched anew or fetched too late.
LEMMA KeyInvalidates ==
    ASSUME lists \in [Installations -> KeyEntry], NEW i \in Installations,
           lists' = Byok!Invalidated(lists, i)
    PROVE  /\ lists' \in [Installations -> KeyEntry] /\ OnlyList(i)
           /\ lists'[i].data = lists[i].data /\ lists'[i].stale
           /\ \/ lists'[i].fetch = "asked"
              \/ /\ lists'[i].fetch = lists[i].fetch /\ lists'[i].got = lists[i].got
                 /\ (lists[i].fetch # "idle" => lists'[i].late)
<1> DEFINE e == [lists[i] EXCEPT !.stale = TRUE]
           asks == form.open /\ form.installation = i
                     /\ (e.fetch = "idle" \/ e.data # Byok!Nothing)
           late == e.fetch # "idle"
           asked == Byok!Ask(e)
           goes == [e EXCEPT !.late = late]
           new == IF asks THEN asked ELSE goes
<1>1. lists' = [lists EXCEPT ![i] = new]
  BY DEF Byok!Invalidated
<1>2. lists[i] \in KeyEntry
  OBVIOUS
<1>3. /\ e \in KeyEntry /\ e.data = lists[i].data /\ e.stale
      /\ e.fetch = lists[i].fetch /\ e.got = lists[i].got
  BY <1>2 DEF KeyEntry
<1>4. late \in BOOLEAN /\ (lists[i].fetch # "idle" => late)
  BY <1>3
<1> HIDE DEF e, late, asks
<1>5. /\ goes \in KeyEntry /\ goes.data = e.data /\ goes.stale /\ goes.fetch = e.fetch
      /\ goes.got = e.got /\ (late => goes.late)
  BY <1>3, <1>4 DEF KeyEntry
<1>6. asked \in KeyEntry /\ asked.data = e.data /\ asked.stale /\ asked.fetch = "asked"
  <2>1. "asked" \in KeyFetches /\ Byok!Nothing \in KeyData
    BY DEF KeyFetches, KeyData
  <2> QED
    BY <1>3, <2>1 DEF Byok!Ask, KeyEntry
<1> HIDE DEF goes, asked
<1>7. new \in {asked, goes}
  OBVIOUS
<1> HIDE DEF new
<1>8. new \in KeyEntry
  BY <1>5, <1>6, <1>7
<1>9. lists' \in [Installations -> KeyEntry] /\ lists'[i] = new /\ OnlyList(i)
  BY <1>1, <1>8, KeyListReplaced
<1>10. CASE new = asked
  BY <1>3, <1>6, <1>9, <1>10
<1>11. CASE new = goes
  BY <1>3, <1>4, <1>5, <1>9, <1>11
<1> QED
  BY <1>7, <1>10, <1>11

\* The browser hears of a success.
LEMMA KeySuccessStep ==
    ASSUME KeysTypeOK, ServedInv, NEW q \in KeyCalls, Byok!onSuccess(q)
    PROVE  KeysTypeOK' /\ KeyHears(q)
<1> DEFINE i == keyCall[q].slot[1]
           heard == Byok!Heard(q)
<1>1. /\ keyCall \in [KeyCalls -> KeyRecord] /\ lists \in [Installations -> KeyEntry]
      /\ form \in KeyForm /\ wiped \in KeyWiped /\ KeyServed(q)
      /\ keyCall[q].pc = "ok" /\ keyCall[q].ui = "pending"
      /\ UNCHANGED <<keyScene, store, keysDone>>
      /\ keyCall' = [keyCall EXCEPT ![q].ui = "ok", ![q].heard = heard]
  BY DEF Byok!onSuccess, KeysTypeOK, ServedInv
<1>2. heard \in BOOLEAN /\ "ok" \in KeyHeard
  BY <1>1 DEF Byok!Heard, KeyHeard, KeyRecord
<1>3. keyCall[q].slot \in Byok!Slots
  <2>1. keyCall[q].pc # "new"
    BY <1>1
  <2> QED
    BY <1>1, <2>1 DEF KeyServed
<1>4. i \in Installations
  BY <1>3 DEF Byok!Slots
<1>5. lists' = Byok!Invalidated(lists, i)
  BY <1>4 DEF Byok!onSuccess, Byok!Invalidates
<1> HIDE DEF i, heard
<1>6. /\ keyCall' \in [KeyCalls -> KeyRecord] /\ OnlyKeyCall(q) /\ SameKeyRequest(q)
      /\ keyCall'[q].pc = keyCall[q].pc /\ keyCall'[q].ui = "ok"
      /\ (keyCall'[q].heard <=> heard)
      /\ (keyCall'[q].mounted <=> keyCall[q].mounted)
  BY <1>1, <1>2, KeyHeardOf
<1>7. /\ lists' \in [Installations -> KeyEntry] /\ OnlyList(i)
      /\ lists'[i].data = lists[i].data /\ lists'[i].stale
      /\ \/ lists'[i].fetch = "asked"
         \/ /\ lists'[i].fetch = lists[i].fetch /\ lists'[i].got = lists[i].got
            /\ (lists[i].fetch # "idle" => lists'[i].late)
  BY <1>1, <1>4, <1>5, KeyInvalidates
<1>8. /\ form' \in KeyForm /\ wiped' \in KeyWiped
      /\ form'.pendingAction = form.pendingAction /\ form'.installation = form.installation
      /\ \/ /\ form'.apiKey = "" /\ keyCall[q].op = "upsert" /\ heard
            /\ (wiped'.text <=> wiped.text \/ form.apiKey \notin {keyCall[q].text, ""})
            /\ (wiped'.overlap <=> wiped.overlap)
         \/ form'.apiKey = form.apiKey /\ wiped' = wiped
  <2>1. CASE keyCall[q].op = "upsert" /\ heard
    <3> DEFINE text == wiped.text \/ form.apiKey \notin {keyCall[q].text, ""}
    <3>1. /\ form' = [form EXCEPT !.apiKey = ""]
          /\ wiped' = [wiped EXCEPT !.text = text]
      BY <2>1 DEF Byok!onSuccess, Byok!PRISTINE_API_KEY, heard
    <3>2. text \in BOOLEAN /\ "" \in KeyTexts
      BY <1>1 DEF KeyWiped, KeyTexts
    <3> HIDE DEF text
    <3>3. wiped' \in KeyWiped /\ (wiped'.text <=> text) /\ (wiped'.overlap <=> wiped.overlap)
      BY <1>1, <3>1, <3>2 DEF KeyWiped
    <3>4. /\ form' \in KeyForm /\ form'.apiKey = ""
          /\ form'.pendingAction = form.pendingAction /\ form'.installation = form.installation
      BY <1>1, <3>1, <3>2 DEF KeyForm
    <3> QED
      BY <2>1, <3>3, <3>4 DEF text
  <2>2. CASE ~(keyCall[q].op = "upsert" /\ heard)
    BY <1>1, <2>2 DEF Byok!onSuccess, heard
  <2> QED
    BY <2>1, <2>2
<1>9. KeysTypeOK'
  BY <1>1, <1>6, <1>7, <1>8 DEF KeysTypeOK
<1>10. KeysUnmoved
  BY <1>1 DEF KeysUnmoved
<1> QED
  BY <1>1, <1>6, <1>7, <1>8, <1>9, <1>10 DEF KeyHears, i, heard

\* The browser hears of a failure.
LEMMA KeyErrorStep ==
    ASSUME KeysTypeOK, NEW q \in KeyCalls, Byok!onError(q)
    PROVE  KeysTypeOK' /\ KeyHears(q)
<1> DEFINE heard == Byok!Heard(q)
<1>1. /\ keyCall \in [KeyCalls -> KeyRecord] /\ keyCall[q].ui = "pending"
      /\ UNCHANGED <<keyScene, store, lists, form, keysDone, wiped>>
      /\ keyCall' = [keyCall EXCEPT ![q].ui = "failed", ![q].heard = heard]
  BY DEF Byok!onError, KeysTypeOK
<1>2. heard \in BOOLEAN /\ "failed" \in KeyHeard
  BY <1>1 DEF Byok!Heard, KeyHeard, KeyRecord
<1> HIDE DEF heard
<1>3. /\ keyCall' \in [KeyCalls -> KeyRecord] /\ OnlyKeyCall(q) /\ SameKeyRequest(q)
      /\ keyCall'[q].pc = keyCall[q].pc /\ keyCall'[q].ui = "failed"
      /\ (keyCall'[q].heard <=> heard)
      /\ (keyCall'[q].mounted <=> keyCall[q].mounted)
  BY <1>1, <1>2, KeyHeardOf
<1>4. KeysTypeOK' /\ KeysUnmoved
  BY <1>1, <1>3 DEF KeysTypeOK, KeysUnmoved
<1> QED
  BY <1>1, <1>3, <1>4 DEF KeyHears, heard

\* Showing a list at most asks for it.
LEMMA KeyMounts ==
    ASSUME lists \in [Installations -> KeyEntry], NEW i, lists' \in Byok!Mounted(lists, i)
    PROVE  lists' \in [Installations -> KeyEntry] /\ KeyAsks
<1>1. CASE lists' = lists
  BY <1>1 DEF KeyAsks
<1>2. CASE /\ i \in Installations /\ lists[i].fetch = "idle"
           /\ lists' = [lists EXCEPT ![i] = Byok!Ask(lists[i])]
  <2>1. /\ Byok!Ask(lists[i]) \in KeyEntry
        /\ Byok!Ask(lists[i]).fetch = "asked" /\ Byok!Ask(lists[i]).data = lists[i].data
    BY <1>2, KeyAsked
  <2>2. /\ lists' \in [Installations -> KeyEntry] /\ lists'[i] = Byok!Ask(lists[i])
        /\ OnlyList(i)
    BY <1>2, <2>1, KeyListReplaced
  <2> QED
    BY <1>2, <2>1, <2>2 DEF KeyAsks, OnlyList
<1> QED
  BY <1>1, <1>2 DEF Byok!Mounted

\* The operator comes back to the window.
LEMMA KeyRefocusStep ==
    ASSUME KeysTypeOK, Byok!Refocus
    PROVE  KeysTypeOK' /\ KeyFetch
<1>1. /\ lists \in [Installations -> KeyEntry]
      /\ lists' \in Byok!Mounted(lists, form.installation)
      /\ UNCHANGED <<keyScene, store, form, keyCall, keysDone, wiped>>
  BY DEF KeysTypeOK, Byok!Refocus
<1>2. lists' \in [Installations -> KeyEntry] /\ KeyAsks
  BY <1>1, KeyMounts
<1> QED
  BY <1>1, <1>2 DEF KeysTypeOK, KeyFetch, KeysUnmoved

\* The server answers the fetch of a list.
LEMMA KeyReadStep ==
    ASSUME KeysTypeOK, NEW i \in Installations, Byok!fetchLlmKeys(i)
    PROVE  KeysTypeOK' /\ KeyFetch
<1> DEFINE got == [keys |-> {p \in Providers : store[<<i, p>>] # 0}, seen |-> keysDone]
           new == [lists[i] EXCEPT !.fetch = "read", !.got = got]
<1>1. /\ lists \in [Installations -> KeyEntry] /\ lists' = [lists EXCEPT ![i] = new]
      /\ UNCHANGED <<keyScene, store, form, keyCall, keysDone, wiped>>
  BY DEF KeysTypeOK, Byok!fetchLlmKeys
<1>2. got \in KeyData /\ "read" \in KeyFetches
  BY DEF KeysTypeOK, KeyData, KeyListing, KeyFetches
<1> HIDE DEF got
<1>3. new \in KeyEntry /\ new.data = lists[i].data /\ new.fetch = "read" /\ new.got = got
  BY <1>1, <1>2 DEF KeyEntry
<1> HIDE DEF new
<1>4. lists' \in [Installations -> KeyEntry] /\ lists'[i] = new /\ OnlyList(i)
  BY <1>1, <1>3, KeyListReplaced
<1>5. KeyReads(i)
  BY <1>3, <1>4 DEF KeyReads, got
<1> QED
  BY <1>1, <1>4, <1>5 DEF KeysTypeOK, KeyFetch, KeysUnmoved

\* A list is loaded.
LEMMA KeyLoadStep ==
    ASSUME KeysTypeOK, NEW i \in Installations, Byok!Loaded(i)
    PROVE  KeysTypeOK' /\ KeyFetch
<1> DEFINE new == [data |-> lists[i].got, stale |-> FALSE, fetch |-> "idle",
                   got |-> Byok!Nothing, late |-> lists[i].late]
<1>1. /\ lists \in [Installations -> KeyEntry] /\ lists' = [lists EXCEPT ![i] = new]
      /\ lists[i].fetch = "read"
      /\ UNCHANGED <<keyScene, store, form, keyCall, keysDone, wiped>>
  BY DEF KeysTypeOK, Byok!Loaded
<1>2. Byok!Nothing \in KeyData /\ "idle" \in KeyFetches
  BY DEF KeyData, KeyFetches
<1>3. /\ new \in KeyEntry /\ new.data = lists[i].got /\ new.fetch = "idle"
      /\ (new.late <=> lists[i].late)
  BY <1>1, <1>2 DEF KeyEntry
<1> HIDE DEF new
<1>4. lists' \in [Installations -> KeyEntry] /\ lists'[i] = new /\ OnlyList(i)
  BY <1>1, <1>3, KeyListReplaced
<1>5. KeyReads(i)
  BY <1>1, <1>3, <1>4 DEF KeyReads
<1> QED
  BY <1>1, <1>4, <1>5 DEF KeysTypeOK, KeyFetch, KeysUnmoved

\* The fetch of a list fails.
LEMMA KeyLoadFailStep ==
    ASSUME KeysTypeOK, NEW i \in Installations, Byok!LoadFailed(i)
    PROVE  KeysTypeOK' /\ KeyFetch
<1> DEFINE new == [lists[i] EXCEPT !.fetch = "idle", !.stale = TRUE]
<1>1. /\ lists \in [Installations -> KeyEntry] /\ lists' = [lists EXCEPT ![i] = new]
      /\ UNCHANGED <<keyScene, store, form, keyCall, keysDone, wiped>>
  BY DEF KeysTypeOK, Byok!LoadFailed
<1>2. "idle" \in KeyFetches
  BY DEF KeyFetches
<1>3. new \in KeyEntry /\ new.data = lists[i].data /\ new.fetch = "idle" /\ new.stale
  BY <1>1, <1>2 DEF KeyEntry
<1> HIDE DEF new
<1>4. lists' \in [Installations -> KeyEntry] /\ lists'[i] = new /\ OnlyList(i)
  BY <1>1, <1>3, KeyListReplaced
<1>5. KeyReads(i)
  BY <1>3, <1>4 DEF KeyReads
<1> QED
  BY <1>1, <1>4, <1>5 DEF KeysTypeOK, KeyFetch, KeysUnmoved

\* The form with another action to confirm, installation or provider.
KeyChosen == form.pendingAction # Byok!Nothing => form.installation # 0

\* An installation is looked up.
LEMMA KeyLookupStep ==
    ASSUME KeysTypeOK, NEW i \in Installations, Byok!resolveInstallationId(i)
    PROVE  KeysTypeOK' /\ KeyEdits
<1>1. /\ form \in KeyForm /\ wiped \in KeyWiped /\ lists \in [Installations -> KeyEntry]
      /\ lists' \in Byok!Mounted(lists, i) /\ form' = [form EXCEPT !.installation = i]
      /\ UNCHANGED <<keyScene, store, keyCall, keysDone, wiped>>
  BY DEF KeysTypeOK, Byok!resolveInstallationId
<1>2. lists' \in [Installations -> KeyEntry] /\ KeyAsks
  BY <1>1, KeyMounts
<1>3. i # 0 /\ form' \in KeyForm /\ form'.installation = i /\ form'.apiKey = form.apiKey
  BY <1>1, InstallationsAssumption DEF KeyForm
<1> QED
  BY <1>1, <1>2, <1>3 DEF KeysTypeOK, KeyEdits, KeysUnmoved

\* A provider is chosen.
LEMMA KeyProviderStep ==
    ASSUME KeysTypeOK, NEW p \in Providers, Byok!setProvider(p)
    PROVE  KeysTypeOK' /\ KeyEdits
<1>1. /\ form \in KeyForm /\ form.installation # 0
      /\ form' = [form EXCEPT !.provider = p]
      /\ UNCHANGED <<keyScene, store, lists, keyCall, keysDone, wiped>>
  BY DEF KeysTypeOK, Byok!setProvider
<1>2. /\ form' \in KeyForm /\ form'.installation = form.installation
      /\ form'.apiKey = form.apiKey
  BY <1>1 DEF KeyForm
<1> QED
  BY <1>1, <1>2 DEF KeysTypeOK, KeyEdits, KeysUnmoved, KeyAsks

\* A key is typed.
LEMMA KeyTextStep ==
    ASSUME KeysTypeOK, NEW text \in keyScene.texts, Byok!setApiKey(text)
    PROVE  KeysTypeOK' /\ KeyEdits
<1> DEFINE overlap == wiped.overlap \/ Byok!isPending("upsert")
<1>1. /\ form \in KeyForm /\ form.installation # 0 /\ wiped \in KeyWiped
      /\ form' = [form EXCEPT !.apiKey = text] /\ wiped' = [wiped EXCEPT !.overlap = overlap]
      /\ UNCHANGED <<keyScene, store, lists, keyCall, keysDone>>
  BY DEF KeysTypeOK, Byok!setApiKey
<1>2. text \in KeyTexts
  BY KeyScenesAssumption DEF KeysTypeOK, KeyTexts
<1>3. overlap \in BOOLEAN
  BY <1>1 DEF KeyWiped, Byok!isPending
<1> HIDE DEF overlap
<1>4. wiped' \in KeyWiped /\ (wiped'.text <=> wiped.text) /\ (wiped'.overlap <=> overlap)
  BY <1>1, <1>3 DEF KeyWiped
<1>5. form' \in KeyForm /\ form'.installation = form.installation
  BY <1>1, <1>2 DEF KeyForm
<1> QED
  BY <1>1, <1>4, <1>5 DEF KeysTypeOK, KeyEdits, KeysUnmoved, KeyAsks, overlap

\* Rotate or remove is clicked.
LEMMA KeyClickStep ==
    ASSUME KeysTypeOK, NEW p \in Providers, NEW kind \in {"rotate", "remove"},
           Byok!handleActionClick(kind, p)
    PROVE  KeysTypeOK' /\ KeyEdits
<1> DEFINE action == [kind |-> kind, provider |-> p]
<1>1. /\ form \in KeyForm /\ form.installation # 0
      /\ form' = [form EXCEPT !.pendingAction = action]
      /\ UNCHANGED <<keyScene, store, lists, keyCall, keysDone, wiped>>
  BY DEF KeysTypeOK, Byok!handleActionClick
<1>2. action \in KeyActions
  BY DEF KeyActions
<1> HIDE DEF action
<1>3. /\ form' \in KeyForm /\ form'.installation = form.installation
      /\ form'.apiKey = form.apiKey
  BY <1>1, <1>2 DEF KeyForm
<1> QED
  BY <1>1, <1>3 DEF KeysTypeOK, KeyEdits, KeysUnmoved, KeyAsks

\* The confirmation is cancelled.
LEMMA KeyCancelStep ==
    ASSUME KeysTypeOK, Byok!handleCancelConfirm
    PROVE  KeysTypeOK' /\ KeyEdits
<1>1. /\ form \in KeyForm /\ form' = [form EXCEPT !.pendingAction = Byok!Nothing]
      /\ UNCHANGED <<keyScene, store, lists, keyCall, keysDone, wiped>>
  BY DEF KeysTypeOK, Byok!handleCancelConfirm
<1>2. /\ form' \in KeyForm /\ form'.pendingAction = Byok!Nothing
      /\ form'.apiKey = form.apiKey
  BY <1>1 DEF KeyForm
<1> QED
  BY <1>1, <1>2 DEF KeysTypeOK, KeyEdits, KeysUnmoved, KeyAsks

\* The dialog that holds up leaving opens or closes.
LEMMA KeyBlockedStep ==
    ASSUME KeysTypeOK, KeyChosen, NEW b \in BOOLEAN, form' = [form EXCEPT !.blocked = b],
           UNCHANGED <<keyScene, store, lists, keyCall, keysDone, wiped>>
    PROVE  KeysTypeOK' /\ KeyEdits
<1>1. form \in KeyForm
  BY DEF KeysTypeOK
<1>2. /\ form' \in KeyForm /\ form'.pendingAction = form.pendingAction
      /\ form'.installation = form.installation /\ form'.apiKey = form.apiKey
  BY <1>1 DEF KeyForm
<1> QED
  BY <1>2 DEF KeysTypeOK, KeyEdits, KeysUnmoved, KeyAsks, KeyChosen

\* The form of a page that was just opened, or is closed.
LEMMA KeyFresh ==
    /\ Byok!Fresh \in KeyForm /\ [Byok!Fresh EXCEPT !.open = FALSE] \in KeyForm
    /\ Byok!Fresh.pendingAction = Byok!Nothing /\ Byok!Fresh.apiKey = ""
    /\ [Byok!Fresh EXCEPT !.open = FALSE].pendingAction = Byok!Nothing
<1>1. Byok!PRISTINE_PROVIDER \in Providers
  BY InstallationsAssumption DEF Byok!PRISTINE_PROVIDER
<1>2. "" \in KeyTexts
  BY DEF KeyTexts
<1> QED
  BY <1>1, <1>2 DEF KeyForm, Byok!Fresh, Byok!PRISTINE_API_KEY

\* The page is opened again.
LEMMA KeyReturnStep ==
    ASSUME KeysTypeOK, Byok!Return
    PROVE  KeysTypeOK' /\ KeyEdits
<1>1. /\ form' = Byok!Fresh
      /\ UNCHANGED <<keyScene, store, lists, keyCall, keysDone, wiped>>
  BY DEF Byok!Return
<1> QED
  BY <1>1, KeyFresh DEF KeysTypeOK, KeyEdits, KeysUnmoved, KeyAsks

\* The page is left.
LEMMA KeyUnmountStep ==
    ASSUME KeysTypeOK, Byok!Unmount, UNCHANGED <<keyScene, store, lists, keysDone, wiped>>
    PROVE  KeysTypeOK' /\ KeyLeaves
<1>1. /\ form' \in KeyForm /\ form'.pendingAction = Byok!Nothing
  BY KeyFresh DEF Byok!Unmount
<1>2. /\ keyCall \in [KeyCalls -> KeyRecord]
      /\ keyCall' = [q \in KeyCalls |-> [keyCall[q] EXCEPT !.mounted = FALSE]]
  BY DEF KeysTypeOK, Byok!Unmount
<1>3. ASSUME NEW q \in KeyCalls
      PROVE  /\ [keyCall[q] EXCEPT !.mounted = FALSE] \in KeyRecord
             /\ SameKeyRequest(q) /\ keyCall'[q].pc = keyCall[q].pc
             /\ keyCall'[q].ui = keyCall[q].ui /\ ~keyCall'[q].mounted
  <2> DEFINE new == [keyCall[q] EXCEPT !.mounted = FALSE]
  <2>1. keyCall[q] \in KeyRecord
    BY <1>2
  <2>2. /\ new \in KeyRecord /\ new.op = keyCall[q].op /\ new.slot = keyCall[q].slot
        /\ new.text = keyCall[q].text /\ new.pc = keyCall[q].pc /\ new.ui = keyCall[q].ui
        /\ ~new.mounted
    BY <2>1 DEF KeyRecord
  <2>3. keyCall'[q] = new
    BY <1>2
  <2> HIDE DEF new
  <2>4. SameKeyRequest(q) /\ keyCall'[q].pc = keyCall[q].pc
        /\ keyCall'[q].ui = keyCall[q].ui /\ ~keyCall'[q].mounted
    BY <2>2, <2>3 DEF SameKeyRequest
  <2> QED
    BY <2>2, <2>4 DEF new
<1>4. keyCall' \in [KeyCalls -> KeyRecord]
  BY <1>2, <1>3
<1> QED
  BY <1>1, <1>3, <1>4 DEF KeysTypeOK, KeyLeaves, KeysUnmoved

\* Every step of the page of keys is of one of the six kinds.
LEMMA KeySteps ==
    ASSUME KeysInv, Byok!Next
    PROVE  KeysTypeOK' /\ KeyStepped
<1>1. KeysTypeOK /\ ServedInv /\ KeyChosen
  BY DEF KeysInv, FormInv, KeyChosen
<1>2. CASE Byok!Refocus
  BY <1>1, <1>2, KeyRefocusStep DEF KeyStepped
<1>3. CASE \E i \in Installations : Byok!fetchLlmKeys(i) \/ Byok!Loaded(i) \/ Byok!LoadFailed(i)
                                    \/ Byok!resolveInstallationId(i)
  BY <1>1, <1>3, KeyReadStep, KeyLoadStep, KeyLoadFailStep, KeyLookupStep DEF KeyStepped
<1>4. CASE \E p \in Providers : Byok!setProvider(p)
                   \/ \E kind \in {"rotate", "remove"} : Byok!handleActionClick(kind, p)
  BY <1>1, <1>4, KeyProviderStep, KeyClickStep DEF KeyStepped
<1>5. CASE \E text \in keyScene.texts : Byok!setApiKey(text)
  BY <1>1, <1>5, KeyTextStep DEF KeyStepped
<1>6. ASSUME NEW q \in KeyCalls,
             \/ Byok!Serve(q) \/ Byok!Fails(q) \/ Byok!Operator(q)
             \/ Byok!handleAddKeySubmit(q) \/ Byok!handleConfirm(q)
             \/ Byok!onSuccess(q) \/ Byok!onError(q)
      PROVE  KeysTypeOK' /\ (KeyServes(q) \/ KeySends(q) \/ KeyHears(q))
  <2>1. CASE Byok!Serve(q)
    BY <1>1, <2>1, KeyServeStep
  <2>2. CASE Byok!Fails(q)
    BY <1>1, <2>2, KeyFailStep
  <2>3. CASE Byok!Operator(q)
    BY <1>1, <2>3, KeyOperatorStep
  <2>4. CASE Byok!handleAddKeySubmit(q)
    BY <1>1, <2>4, KeyAddStep
  <2>5. CASE Byok!handleConfirm(q)
    BY <1>1, <2>5, KeyConfirmStep DEF KeyChosen
  <2>6. CASE Byok!onSuccess(q)
    BY <1>1, <2>6, KeySuccessStep
  <2>7. CASE Byok!onError(q)
    BY <1>1, <2>7, KeyErrorStep
  <2> QED
    BY <1>6, <2>1, <2>2, <2>3, <2>4, <2>5, <2>6, <2>7
<1>7. CASE Byok!handleCancelConfirm
  BY <1>1, <1>7, KeyCancelStep DEF KeyStepped
<1>8. CASE Byok!Leave
  <2>1. UNCHANGED <<keyScene, store, lists, keysDone, wiped>>
    BY <1>8 DEF Byok!Leave
  <2>2. CASE form' = [form EXCEPT !.blocked = TRUE] /\ UNCHANGED keyCall
    BY <1>1, <2>1, <2>2, KeyBlockedStep DEF KeyStepped
  <2>3. CASE Byok!Unmount
    BY <1>1, <2>1, <2>3, KeyUnmountStep DEF KeyStepped
  <2> QED
    BY <1>8, <2>2, <2>3 DEF Byok!Leave
<1>9. CASE Byok!AnswerDialog
  <2>1. UNCHANGED <<keyScene, store, lists, keysDone, wiped>>
    BY <1>9 DEF Byok!AnswerDialog
  <2>2. CASE form' = [form EXCEPT !.blocked = FALSE] /\ UNCHANGED keyCall
    BY <1>1, <2>1, <2>2, KeyBlockedStep DEF KeyStepped
  <2>3. CASE Byok!Unmount
    BY <1>1, <2>1, <2>3, KeyUnmountStep DEF KeyStepped
  <2> QED
    BY <1>9, <2>2, <2>3 DEF Byok!AnswerDialog
<1>10. CASE Byok!Return
  BY <1>1, <1>10, KeyReturnStep DEF KeyStepped
<1>11. CASE \E q \in KeyCalls :
              \/ Byok!Serve(q) \/ Byok!Fails(q) \/ Byok!Operator(q)
              \/ Byok!handleAddKeySubmit(q) \/ Byok!handleConfirm(q)
              \/ Byok!onSuccess(q) \/ Byok!onError(q)
  BY <1>6, <1>11 DEF KeyStepped
<1> QED
  BY <1>2, <1>3, <1>4, <1>5, <1>7, <1>8, <1>9, <1>10, <1>11 DEF Byok!Next

\* What the server did and the browser heard stay in step.
LEMMA ServedKept ==
    ASSUME KeysInv, KeysTypeOK', KeyStepped
    PROVE  ServedInv'
<1> USE DEF KeysInv, ServedInv, KeyServed
<1>1. ASSUME NEW q \in KeyCalls, KeyServes(q)
      PROVE  ServedInv'
  <2>1. ASSUME NEW p \in KeyCalls
        PROVE  KeyServed(p)'
    <3>1. CASE p = q
      BY <1>1, <3>1 DEF KeyServes, SameKeyRequest
    <3>2. CASE p # q
      BY <1>1, <3>2 DEF KeyServes, OnlyKeyCall
    <3> QED
      BY <3>1, <3>2
  <2> QED
    BY <2>1
<1>2. ASSUME NEW q \in KeyCalls, KeySends(q)
      PROVE  ServedInv'
  <2>1. ASSUME NEW p \in KeyCalls
        PROVE  KeyServed(p)'
    <3>1. CASE p = q
      BY <1>2, <3>1 DEF KeySends, KeysUnmoved
    <3>2. CASE p # q
      BY <1>2, <3>2 DEF KeySends, OnlyKeyCall, KeysUnmoved
    <3> QED
      BY <3>1, <3>2
  <2> QED
    BY <2>1
<1>3. ASSUME NEW q \in KeyCalls, KeyHears(q)
      PROVE  ServedInv'
  <2>1. ASSUME NEW p \in KeyCalls
        PROVE  KeyServed(p)'
    <3>1. CASE p = q
      BY <1>3, <3>1 DEF KeyHears, SameKeyRequest, KeysUnmoved
    <3>2. CASE p # q
      BY <1>3, <3>2 DEF KeyHears, OnlyKeyCall, KeysUnmoved
    <3> QED
      BY <3>1, <3>2
  <2> QED
    BY <2>1
<1>4. CASE KeyFetch
  BY <1>4 DEF KeyFetch, KeysUnmoved
<1>5. CASE KeyEdits
  BY <1>5 DEF KeyEdits, KeysUnmoved
<1>6. CASE KeyLeaves
  BY <1>6 DEF KeyLeaves, KeysUnmoved, SameKeyRequest
<1> QED
  BY <1>1, <1>2, <1>3, <1>4, <1>5, <1>6 DEF KeyStepped

\* Calls that took effect keep their slots.
KeySlotsKept == \A q \in keysDone : keyCall'[q].slot = keyCall[q].slot
TellsAfter(i, l) ==
    /\ l.seen \subseteq keysDone'
    /\ \A p \in Providers : ~(p \in l.keys <=> store'[<<i, p>>] # 0)
         => \E q \in keysDone' \ l.seen : keyCall'[q].slot = <<i, p>>

\* No step moves a call that took effect to another slot.
LEMMA KeySlotsStay ==
    ASSUME KeysInv, KeyStepped
    PROVE  KeySlotsKept
<1>1. keysDone \subseteq KeyCalls
  BY DEF KeysInv, KeysTypeOK
<1>2. ASSUME NEW q \in KeyCalls, KeyServes(q) \/ KeyHears(q)
      PROVE  KeySlotsKept
  BY <1>1, <1>2 DEF KeyServes, KeyHears, OnlyKeyCall, SameKeyRequest, KeySlotsKept
<1>3. ASSUME NEW q \in KeyCalls, KeySends(q)
      PROVE  KeySlotsKept
  <2>1. q \notin keysDone
    BY <1>3 DEF KeySends, KeysInv, ServedInv, KeyServed
  <2> QED
    BY <1>1, <1>3, <2>1 DEF KeySends, OnlyKeyCall, KeySlotsKept
<1>4. CASE KeyFetch \/ KeyEdits
  BY <1>4 DEF KeyFetch, KeyEdits, KeySlotsKept
<1>5. CASE KeyLeaves
  BY <1>1, <1>5 DEF KeyLeaves, SameKeyRequest, KeySlotsKept
<1> QED
  BY <1>2, <1>3, <1>4, <1>5 DEF KeyStepped

\* While the server does not move, a list stays as good as it was.
LEMMA TellsUnmoved ==
    ASSUME NEW i, NEW l, Tells(i, l), KeySlotsKept, store' = store, keysDone' = keysDone
    PROVE  TellsAfter(i, l)
  BY DEF Tells, TellsAfter, KeySlotsKept

\* A call the server executes explains the difference it makes to a list.
LEMMA TellsServed ==
    ASSUME KeysInv, NEW q \in KeyCalls, KeyServes(q), KeySlotsKept,
           NEW i \in Installations, NEW l, Tells(i, l)
    PROVE  TellsAfter(i, l)
<1>1. CASE keysDone' = keysDone /\ store' = store
  BY <1>1, TellsUnmoved
<1>2. CASE /\ keyCall[q].pc = "sent" /\ keysDone' = keysDone \cup {q}
           /\ \A s \in Byok!Slots \ {keyCall[q].slot} : store'[s] = store[s]
  <2>1. q \notin keysDone /\ keyCall'[q].slot = keyCall[q].slot
    BY <1>2 DEF KeysInv, ServedInv, KeyServed, KeyServes, SameKeyRequest
  <2>2. l.seen \subseteq keysDone /\ q \notin l.seen
    BY <2>1 DEF Tells
  <2>3. ASSUME NEW p \in Providers, ~(p \in l.keys <=> store'[<<i, p>>] # 0)
        PROVE  \E r \in keysDone' \ l.seen : keyCall'[r].slot = <<i, p>>
    <3>1. CASE keyCall[q].slot = <<i, p>>
      BY <1>2, <2>1, <2>2, <3>1
    <3>2. CASE keyCall[q].slot # <<i, p>>
      <4>1. <<i, p>> \in Byok!Slots \ {keyCall[q].slot}
        BY <3>2 DEF Byok!Slots
      <4>2. store'[<<i, p>>] = store[<<i, p>>]
        BY <1>2, <4>1
      <4>3. \E r \in keysDone \ l.seen : keyCall[r].slot = <<i, p>>
        BY <2>3, <4>2 DEF Tells
      <4> QED
        BY <1>2, <4>3 DEF KeySlotsKept
    <3> QED
      BY <3>1, <3>2
  <2> QED
    BY <1>2, <2>2, <2>3 DEF TellsAfter
<1> QED
  BY <1>1, <1>2 DEF KeyServes

\* The lists differ from the server by the calls they have not seen.
LEMMA TellsKept ==
    ASSUME KeysInv, KeyStepped
    PROVE  TellsInv'
<1>1. KeySlotsKept
  BY KeySlotsStay
<1> DEFINE ToldOf(i) ==
             /\ lists'[i].data # Byok!Nothing => TellsAfter(i, lists'[i].data)
             /\ lists'[i].fetch = "read"
                  => lists'[i].got # Byok!Nothing /\ TellsAfter(i, lists'[i].got)
           Kept(i) == \A l : Tells(i, l) => TellsAfter(i, l)
<1>2. SUFFICES ASSUME NEW i \in Installations
               PROVE  ToldOf(i)
  BY DEF TellsInv, Tells, TellsAfter
<1>3. /\ lists[i].data # Byok!Nothing => Tells(i, lists[i].data)
      /\ lists[i].fetch = "read" => lists[i].got # Byok!Nothing /\ Tells(i, lists[i].got)
  BY DEF KeysInv, TellsInv
<1>4. CASE \E q \in KeyCalls : KeyServes(q)
  <2>1. Kept(i)
    BY <1>1, <1>4, TellsServed
  <2>2. lists' = lists
    BY <1>4 DEF KeyServes
  <2> QED
    BY <1>3, <2>1, <2>2
<1>5. ASSUME store' = store, keysDone' = keysDone
      PROVE  Kept(i)
  BY <1>1, <1>5, TellsUnmoved
<1> HIDE DEF Kept
<1>6. CASE (\E q \in KeyCalls : KeySends(q)) \/ KeyLeaves
  <2>1. lists' = lists /\ Kept(i)
    BY <1>5, <1>6 DEF KeySends, KeyLeaves, KeysUnmoved
  <2> QED
    BY <1>3, <2>1 DEF Kept
<1>7. CASE \E q \in KeyCalls : KeyHears(q)
  <2>1. Kept(i)
    BY <1>5, <1>7 DEF KeyHears, KeysUnmoved
  <2>2. /\ lists'[i].data = lists[i].data
        /\ \/ lists'[i].fetch = "asked"
           \/ lists'[i].fetch = lists[i].fetch /\ lists'[i].got = lists[i].got
    BY <1>7 DEF KeyHears, OnlyList
  <2> QED
    BY <1>3, <2>1, <2>2 DEF Kept
<1>8. CASE KeyAsks /\ KeysUnmoved
  <2>1. Kept(i)
    BY <1>5, <1>8 DEF KeysUnmoved
  <2>2. \/ lists'[i] = lists[i]
        \/ lists'[i].fetch = "asked" /\ lists'[i].data = lists[i].data
    BY <1>8 DEF KeyAsks
  <2> QED
    BY <1>3, <2>1, <2>2 DEF Kept
<1>9. ASSUME NEW j \in Installations, KeyReads(j), KeysUnmoved
      PROVE  ToldOf(i)
  <2>1. Kept(i) /\ store' = store /\ keysDone' = keysDone
    BY <1>5, <1>9 DEF KeysUnmoved
  <2>2. CASE lists'[i] = lists[i]
    BY <1>3, <2>1, <2>2 DEF Kept
  <2>3. CASE /\ lists'[i].data = lists[i].data /\ lists'[i].fetch = "read"
             /\ lists'[i].got = [keys |-> {p \in Providers : store[<<i, p>>] # 0},
                                 seen |-> keysDone]
    <3>1. lists'[i].got # Byok!Nothing
      BY <2>3 DEF Byok!Nothing
    <3>2. TellsAfter(i, lists'[i].got)
      BY <2>1, <2>3 DEF TellsAfter
    <3> QED
      BY <1>3, <2>1, <2>3, <3>1, <3>2 DEF Kept
  <2>4. CASE /\ lists[i].fetch = "read" /\ lists'[i].data = lists[i].got
             /\ lists'[i].fetch = "idle"
    BY <1>3, <2>1, <2>4 DEF Kept
  <2>5. CASE lists'[i].data = lists[i].data /\ lists'[i].fetch = "idle"
    BY <1>3, <2>1, <2>5 DEF Kept
  <2> QED
    BY <1>9, <2>2, <2>3, <2>4, <2>5 DEF KeyReads, OnlyList
<1> HIDE DEF ToldOf
<1> QED
  BY <1>4, <1>6, <1>7, <1>8, <1>9 DEF KeyStepped, KeyFetch, KeyEdits

\* A list that misses a reported change is stale, or is fetched or was
\* fetched too late.
LEMMA ListsKept ==
    ASSUME KeysInv, KeyStepped
    PROVE  ListsInv'
<1> DEFINE Shown(q, i) ==
             /\ lists'[i].fetch = "idle" =>
                  \/ lists'[i].data = Byok!Nothing \/ lists'[i].stale \/ lists'[i].late
                  \/ q \in lists'[i].data.seen
             /\ lists'[i].fetch = "read" => lists'[i].late \/ q \in lists'[i].got.seen
<1>1. SUFFICES ASSUME NEW q \in KeyCalls, NEW i \in Installations,
                      keyCall'[q].ui = "ok", keyCall'[q].slot[1] = i
               PROVE  Shown(q, i)
  BY DEF ListsInv, KeyShows
<1>2. /\ keyCall[q].ui = "ok" /\ keyCall[q].slot[1] = i => KeyShows(q, i)
      /\ keyCall[q].ui = "ok" => q \in keysDone
  BY DEF KeysInv, ListsInv, ServedInv, KeyServed
<1>3. ASSUME NEW p \in KeyCalls, KeyServes(p)
      PROVE  Shown(q, i)
  BY <1>1, <1>2, <1>3 DEF KeyServes, OnlyKeyCall, SameKeyRequest, KeyShows
<1>4. ASSUME NEW p \in KeyCalls, KeySends(p)
      PROVE  Shown(q, i)
  BY <1>1, <1>2, <1>4 DEF KeySends, OnlyKeyCall, KeyShows
<1>5. ASSUME NEW p \in KeyCalls, KeyHears(p)
      PROVE  Shown(q, i)
  <2>1. CASE q = p
    BY <1>1, <1>5, <2>1 DEF KeyHears, SameKeyRequest
  <2>2. CASE q # p
    <3>1. KeyShows(q, i)
      BY <1>1, <1>2, <1>5, <2>2 DEF KeyHears, OnlyKeyCall
    <3>2. CASE lists'[i] = lists[i]
      BY <3>1, <3>2 DEF KeyShows
    <3>3. CASE i = keyCall[p].slot[1]
      BY <1>1, <1>5, <3>1, <3>3 DEF KeyHears, KeyShows
    <3> QED
      BY <1>5, <3>2, <3>3 DEF KeyHears, OnlyList
  <2> QED
    BY <2>1, <2>2
<1>6. CASE KeyLeaves
  BY <1>1, <1>2, <1>6 DEF KeyLeaves, SameKeyRequest, KeyShows
<1>7. CASE KeyAsks /\ keyCall' = keyCall
  BY <1>1, <1>2, <1>7 DEF KeyAsks, KeyShows
<1>8. ASSUME NEW j \in Installations, KeyReads(j), keyCall' = keyCall
      PROVE  Shown(q, i)
  <2>1. KeyShows(q, i) /\ q \in keysDone
    BY <1>1, <1>2, <1>8
  <2> QED
    BY <1>8, <2>1 DEF KeyReads, OnlyList, KeyShows
<1> HIDE DEF Shown
<1> QED
  BY <1>3, <1>4, <1>5, <1>6, <1>7, <1>8 DEF KeyStepped, KeyFetch, KeyEdits

\* Typed text and toasts.
LEMMA FormKept ==
    ASSUME KeysInv, KeyStepped
    PROVE  FormInv'
<1>1. /\ \A q \in KeyCalls : Typing(q) /\ Toasts(q)
      /\ wiped.text => wiped.overlap
      /\ form.pendingAction # Byok!Nothing => form.installation # 0
  BY DEF KeysInv, FormInv
<1>2. ASSUME NEW q \in KeyCalls, KeyServes(q)
      PROVE  FormInv'
  <2>1. ASSUME NEW p \in KeyCalls
        PROVE  /\ SameKeyRequest(p) /\ keyCall'[p].ui = keyCall[p].ui
               /\ (keyCall'[p].heard <=> keyCall[p].heard)
               /\ (keyCall'[p].mounted <=> keyCall[p].mounted)
    BY <1>2 DEF KeyServes, OnlyKeyCall, SameKeyRequest
  <2>2. form' = form /\ wiped' = wiped
    BY <1>2 DEF KeyServes
  <2>3. ASSUME NEW p \in KeyCalls
        PROVE  Typing(p)' /\ Toasts(p)'
    <3>1. Typing(p) /\ Toasts(p)
      BY <1>1
    <3> QED
      BY <2>1, <2>2, <3>1 DEF Typing, Toasts, Byok!Mine, SameKeyRequest
  <2> QED
    BY <1>1, <2>2, <2>3 DEF FormInv
<1>3. ASSUME NEW q \in KeyCalls, KeySends(q)
      PROVE  FormInv'
  <2>1. ~keyCall[q].mounted /\ keyCall[q].op = "none"
    BY <1>3 DEF KeySends, KeysInv, ServedInv, KeyServed
  <2>2. ASSUME NEW p \in KeyCalls
        PROVE  Typing(p)' /\ Toasts(p)'
    <3>1. CASE p = q
      BY <1>3, <3>1 DEF KeySends, Typing, Toasts
    <3>2. CASE p # q
      <4>1. keyCall'[p] = keyCall[p] /\ form'.apiKey = form.apiKey /\ wiped' = wiped
        BY <1>3, <3>2 DEF KeySends, OnlyKeyCall
      <4>2. \A r \in Byok!Mine(keyCall[p].op) : r \in Byok!Mine(keyCall[p].op)'
        BY <1>3, <2>1, <4>1 DEF KeySends, OnlyKeyCall, Byok!Mine
      <4>3. Typing(p)'
        BY <1>1, <4>1 DEF Typing
      <4>4. Toasts(p)'
        BY <1>1, <4>1, <4>2 DEF Toasts, Byok!Mine
      <4> QED
        BY <4>3, <4>4
    <3> QED
      BY <3>1, <3>2
  <2> QED
    BY <1>1, <1>3, <2>2 DEF KeySends, FormInv
<1>4. ASSUME NEW q \in KeyCalls, KeyHears(q)
      PROVE  FormInv'
  <2>1. ASSUME NEW p \in KeyCalls
        PROVE  SameKeyRequest(p) /\ (keyCall'[p].mounted <=> keyCall[p].mounted)
    BY <1>4 DEF KeyHears, OnlyKeyCall, SameKeyRequest
  <2>2. \A op : Byok!Mine(op)' = Byok!Mine(op)
    BY <2>1 DEF Byok!Mine, SameKeyRequest
  <2>3. ASSUME NEW p \in KeyCalls
        PROVE  Toasts(p)'
    <3>1. CASE p = q
      <4>1. (keyCall'[q].heard <=> Byok!Heard(q)) /\ SameKeyRequest(q)
        BY <1>4 DEF KeyHears
      <4>2. SUFFICES ASSUME ~Byok!Heard(q), keyCall[q].mounted
                     PROVE  \E r \in Byok!Mine(keyCall[q].op) : r > q
        BY <2>1, <2>2, <3>1, <4>1 DEF Toasts, SameKeyRequest, Byok!Mine
      <4>3. PICK r \in Byok!Mine(keyCall[q].op) : ~(r <= q)
        BY <4>2 DEF Byok!Heard
      <4>4. r \in Nat /\ q \in Nat
        BY <4>3, KeyCallsAssumption DEF Byok!Mine
      <4> QED
        BY <4>3, <4>4
    <3>2. CASE p # q
      <4>1. keyCall'[p] = keyCall[p]
        BY <1>4, <3>2 DEF KeyHears, OnlyKeyCall
      <4> QED
        BY <1>1, <2>2, <4>1 DEF Toasts, Byok!Mine
    <3> QED
      BY <3>1, <3>2
  <2>4. /\ form'.pendingAction = form.pendingAction /\ form'.installation = form.installation
        /\ wiped'.overlap = wiped.overlap \/ (wiped'.overlap <=> wiped.overlap)
    BY <1>4 DEF KeyHears
  <2>5. ASSUME NEW p \in KeyCalls
        PROVE  Typing(p)'
    <3>1. keyCall'[p].ui = "pending" => keyCall[p].ui = "pending"
      BY <1>4 DEF KeyHears, OnlyKeyCall
    <3>2. form'.apiKey = "" \/ (form'.apiKey = form.apiKey /\ wiped' = wiped)
      BY <1>4 DEF KeyHears
    <3> QED
      BY <1>1, <2>1, <3>1, <3>2 DEF Typing, SameKeyRequest
  <2>6. wiped'.text => wiped'.overlap
    <3>1. CASE wiped' = wiped
      BY <1>1, <3>1
    <3>2. CASE /\ keyCall[q].op = "upsert" /\ Byok!Heard(q)
               /\ (wiped'.text <=> wiped.text \/ form.apiKey \notin {keyCall[q].text, ""})
               /\ (wiped'.overlap <=> wiped.overlap)
      <4>1. keyCall[q].mounted /\ keyCall[q].ui = "pending"
        BY <1>4, <3>2 DEF KeyHears, Byok!Heard
      <4>2. form.apiKey \in {keyCall[q].text, ""} \/ wiped.overlap
        BY <1>1, <3>2, <4>1 DEF Typing
      <4> QED
        BY <1>1, <3>2, <4>2
    <3> QED
      BY <1>4, <3>1, <3>2 DEF KeyHears
  <2> QED
    BY <1>1, <1>4, <2>3, <2>5, <2>6 DEF FormInv, KeyHears
<1>5. CASE KeyFetch
  BY <1>1, <1>5 DEF KeyFetch, FormInv, Typing, Toasts, Byok!Mine
<1>6. CASE KeyEdits
  <2>1. /\ keyCall' = keyCall /\ (wiped'.text <=> wiped.text)
        /\ (form'.pendingAction # Byok!Nothing => form'.installation # 0)
        /\ \/ form'.apiKey = form.apiKey /\ wiped'.overlap = wiped.overlap
           \/ form'.apiKey = "" /\ wiped'.overlap = wiped.overlap
           \/ (wiped'.overlap <=> wiped.overlap \/ Byok!isPending("upsert"))
    BY <1>6 DEF KeyEdits
  <2>2. wiped.overlap => wiped'.overlap
    BY <2>1
  <2>3. ASSUME NEW q \in KeyCalls
        PROVE  Typing(q)' /\ Toasts(q)'
    <3>1. Toasts(q)'
      BY <1>1, <2>1 DEF Toasts, Byok!Mine
    <3>2. Typing(q)'
      BY <1>1, <2>1, <2>2 DEF Typing, Byok!isPending, Byok!Mine
    <3> QED
      BY <3>1, <3>2
  <2> QED
    BY <1>1, <2>1, <2>2, <2>3 DEF FormInv
<1>7. CASE KeyLeaves
  BY <1>1, <1>7 DEF KeyLeaves, FormInv, Typing, Toasts
<1> QED
  BY <1>2, <1>3, <1>4, <1>5, <1>6, <1>7 DEF KeyStepped

\* KeysInv holds at first.
LEMMA KeysStart ==
    ASSUME Byok!Init
    PROVE  KeysInv
<1>1. /\ keyScene \in KeyScenes /\ store = [s \in Byok!Slots |-> 0]
      /\ lists = [i \in Installations |-> Byok!NoEntry] /\ form = Byok!Fresh
      /\ keyCall = [q \in KeyCalls |-> Byok!NoCall] /\ keysDone = {}
      /\ wiped = [text |-> FALSE, overlap |-> FALSE]
  BY DEF Byok!Init
<1>2. /\ Byok!NoCall \in KeyRecord /\ Byok!NoCall.op = "none" /\ Byok!NoCall.pc = "new"
      /\ Byok!NoCall.ui = "none" /\ ~Byok!NoCall.mounted
  <2>1. <<0, "">> \in KeySlots
    BY DEF KeySlots
  <2> QED
    BY <2>1 DEF Byok!NoCall, KeyRecord, KeyOps, KeyAskers, KeyProgress, KeyHeard, KeyTexts
<1>3. /\ Byok!NoEntry \in KeyEntry /\ Byok!NoEntry.data = Byok!Nothing
      /\ Byok!NoEntry.fetch = "idle"
  <2>1. Byok!Nothing \in KeyData /\ "idle" \in KeyFetches
    BY DEF KeyData, KeyFetches
  <2> QED
    BY <2>1 DEF Byok!NoEntry, KeyEntry
<1>4. /\ \A q \in KeyCalls : keyCall[q] = Byok!NoCall
      /\ \A i \in Installations : lists[i] = Byok!NoEntry
  BY <1>1
<1>5. KeysTypeOK
  <2>1. /\ store \in [Byok!Slots -> KeyCalls \cup {0}] /\ lists \in [Installations -> KeyEntry]
        /\ keyCall \in [KeyCalls -> KeyRecord]
    BY <1>1, <1>2, <1>3
  <2>2. form \in KeyForm /\ keysDone \subseteq KeyCalls /\ wiped \in KeyWiped
    BY <1>1, KeyFresh DEF KeyWiped
  <2> QED
    BY <1>1, <2>1, <2>2 DEF KeysTypeOK
<1>6. ServedInv
  BY <1>1, <1>2, <1>4 DEF ServedInv, KeyServed
<1>7. TellsInv
  BY <1>3, <1>4 DEF TellsInv
<1>8. ListsInv
  BY <1>2, <1>4 DEF ListsInv
<1>9. FormInv
  <2>1. ~wiped.text /\ form.pendingAction = Byok!Nothing
    BY <1>1, KeyFresh
  <2>2. \A q \in KeyCalls : Typing(q) /\ Toasts(q)
    BY <1>2, <1>4 DEF Typing, Toasts
  <2> QED
    BY <2>1, <2>2 DEF FormInv
<1> QED
  BY <1>5, <1>6, <1>7, <1>8, <1>9 DEF KeysInv

\* KeysInv is kept by the steps of the dashboard's other parts.
LEMMA KeysStutter ==
    ASSUME KeysInv, UNCHANGED keyVars
    PROVE  KeysInv'
<1>1. KeysTypeOK'
  BY DEF KeysInv, keyVars, KeysTypeOK
<1>2. ServedInv'
  BY DEF KeysInv, keyVars, ServedInv, KeyServed
<1>3. TellsInv'
  BY DEF KeysInv, keyVars, TellsInv, Tells
<1>4. ListsInv'
  BY DEF KeysInv, keyVars, ListsInv, KeyShows
<1>5. FormInv'
  BY DEF KeysInv, keyVars, FormInv, Typing, Toasts, Byok!Mine
<1> QED
  BY <1>1, <1>2, <1>3, <1>4, <1>5 DEF KeysInv

\* KeysInv is inductive.
LEMMA KeysGoOn ==
    ASSUME KeysInv, Byok!Next
    PROVE  KeysInv'
<1>1. KeysTypeOK' /\ KeyStepped
  BY KeySteps
<1>2. ServedInv' /\ TellsInv' /\ ListsInv' /\ FormInv'
  BY <1>1, ServedKept, TellsKept, ListsKept, FormKept
<1> QED
  BY <1>1, <1>2 DEF KeysInv

\* The page of LLM keys, its lists and its calls keep their types, and what
\* the invariants above say of them holds of every reachable state.
THEOREM KeysAreSafe == DashboardSpec => [](part = "keys" => KeysInv)
<1> DEFINE I == part = "keys" => KeysInv
<1>1. DashboardInit => I
  BY KeysStart DEF DashboardInit
<1>2. I /\ [DashboardNext]_<<part, consoleVars, historyVars, keyVars>> => I'
  <2> SUFFICES ASSUME I, [DashboardNext]_<<part, consoleVars, historyVars, keyVars>>, part' = "keys"
               PROVE  KeysInv'
    OBVIOUS
  <2>1. part = "keys" /\ KeysInv
    BY DEF DashboardNext
  <2>2. CASE Byok!Next
    BY <2>1, <2>2, KeysGoOn
  <2>3. CASE UNCHANGED keyVars
    BY <2>1, <2>3, KeysStutter
  <2> QED
    BY <2>1, <2>2, <2>3 DEF DashboardNext
<1> QED
  BY <1>1, <1>2, PTL DEF DashboardSpec

\* A settled list contains every change of its installation that the dashboard
\* reported, and differs from the server only by changes it was not told of;
\* text is dropped only if it was typed during the save; an outcome without
\* its toast belongs to a page that was left or was followed by another call
\* (byok-keys.tsx, client.ts).
THEOREM KeysArePresented == DashboardSpec => []KeysAreShown
<1>1. KeysInv => Byok!KeysShown
  <2> SUFFICES ASSUME KeysInv
               PROVE  Byok!KeysShown
    OBVIOUS
  <2>1. ASSUME NEW i \in Installations, Byok!Settled(i),
               NEW q \in keysDone \ lists[i].data.seen, keyCall[q].slot[1] = i
        PROVE  keyCall[q].ui # "ok"
    <3>1. q \in KeyCalls
      BY DEF KeysInv, KeysTypeOK
    <3> QED
      BY <2>1, <3>1 DEF KeysInv, ListsInv, KeyShows, Byok!Settled
  <2>2. ASSUME NEW i \in Installations, Byok!Settled(i), NEW p \in Providers,
               (p \in lists[i].data.keys) # (store[<<i, p>>] # 0)
        PROVE  \E q \in keysDone \ lists[i].data.seen : keyCall[q].slot = <<i, p>>
    <3>1. ~(p \in lists[i].data.keys <=> store[<<i, p>>] # 0)
      BY <2>2
    <3> QED
      BY <2>2, <3>1 DEF KeysInv, TellsInv, Tells, Byok!Settled
  <2>3. wiped.text => wiped.overlap
    BY DEF KeysInv, FormInv
  <2>4. \A q \in KeyCalls : Toasts(q)
    BY DEF KeysInv, FormInv
  <2> QED
    BY <2>1, <2>2, <2>3, <2>4 DEF Byok!KeysShown, Toasts
<1>2. (part = "keys" => KeysInv) => KeysAreShown
  BY <1>1 DEF KeysAreShown
<1> QED
  BY <1>2, KeysAreSafe, PTL

-----------------------------------------------------------------------------
(* The review history: the table, and how far each job and a recovery are. *)
HistoryRow == [id : Nat, at : Nat, job : Jobs, repo : DOMAIN Platforms,
               failed : BOOLEAN, recovered : BOOLEAN]
HistoryTable == now \in Nat /\ IsFiniteSet(events) /\ events \subseteq HistoryRow

Own(j) == \E e \in events : e.job = j /\ ~e.recovered
Recovered(j) == \E e \in events : e.job = j /\ e.recovered

\* A job whose event was not written, and will not be any more.
Eventless(j) == job[j] = "recorded" /\ ~Own(j)

RecordsInv ==
    /\ job \in [Jobs -> {"new", "costed", "recorded"}]
    /\ \A j \in Jobs : Own(j) => job[j] = "recorded"
    /\ \A j \in Jobs : Recovered(j) => j \in raced \/ Eventless(j)
    /\ \A d, e \in events : d.job = e.job /\ (d.recovered <=> e.recovered) => d = e

\* What a recovery goes by may change under it, but only in one way: a job
\* that was about to write its event writes it.
RecoveryInv ==
    /\ recover.candidates \subseteq Jobs /\ recover.fresh \subseteq Jobs
    /\ recover = [pc |-> recover.pc, candidates |-> recover.candidates,
                  fresh |-> recover.fresh, repo |-> recover.repo]
    /\ recover.pc = "idle" \/ recover.repo \in DOMAIN Platforms
    /\ recover.pc = "candidates" => \A j \in recover.candidates : job[j] # "new"
    /\ recover.pc = "fresh" =>
         \A j \in recover.fresh : ~Recovered(j) /\ (j \in raced \/ Eventless(j))

TableInv == HistoryTable /\ RecordsInv /\ RecoveryInv
-----------------------------------------------------------------------------
(* The pages: what was read is a beginning of the rows there were.         *)
HistoryKeyed(k) == k = [filter |-> k.filter, cursor |-> k.cursor]

\* The rows that a query for key k would read, among those of a table of b rows.
Wanted(k, b) ==
    {e \in events : e.id <= b /\ History!inSql(e, k.filter) /\ History!afterCursor(e, k.cursor)}
ReadFrom(b) == b \in Nat /\ b <= Cardinality(events)

RowsRead(k, b, F) ==
    /\ ReadFrom(b) /\ F \subseteq events /\ IsFiniteSet(F) /\ Cardinality(F) <= Limit + 1
    /\ \A e \in F : History!afterCursor(e, k.cursor)
    /\ \A e \in Wanted(k, b) \ F : Cardinality(F) = Limit + 1 /\ \A x \in F : History!Later(x, e)

HistoryRequest(q) ==
    /\ HistoryKeyed(q.key)
    /\ q = [key |-> q.key, pc |-> q.pc, rows |-> q.rows, fetched |-> q.fetched, base |-> q.base]
    /\ q.pc = "rows" => RowsRead(q.key, q.base, q.rows)
    /\ q.pc = "filtered" => RowsRead(q.key, q.base, q.fetched) /\ q.rows \subseteq q.fetched

\* A cursor is that of the last row of the page it comes with.
EndsAt(l, S) == l \in S /\ \A x \in S \ {l} : History!Later(x, l)
HistoryPage(d) ==
    /\ HistoryKeyed(d.key) /\ ReadFrom(d.base) /\ d.items \subseteq events
    /\ \A e \in d.items : History!afterCursor(e, d.key.cursor)
    /\ d.next = NoData /\ ~d.cut => Wanted(d.key, d.base) \subseteq d.items \cup d.dropped
    /\ d.next # NoData =>
         \E l \in d.items :
            /\ EndsAt(l, d.items) /\ d.next = History!encodeCursor(l)
            /\ \A e \in Wanted(d.key, d.base) \ d.items : History!Later(l, e)

\* What a walk has not shown comes after its cursor, or was cut off by it.
Covered(e) ==
    e \in walk.prev \/ e.at \div PerMs \in walk.ends \/ History!afterCursor(e, shown.cursor)
WalkInv ==
    /\ HistoryKeyed(shown)
    /\ shown.cursor = NoData => walk.prev = {}
    /\ shown.cursor # NoData =>
         /\ ReadFrom(walk.base) /\ walk.prev \subseteq events
         /\ \E l \in walk.prev : EndsAt(l, walk.prev) /\ shown.cursor = History!encodeCursor(l)
         /\ \A e \in events : e.id <= walk.base /\ History!inSql(e, shown.filter) => Covered(e)

PagesInv ==
    /\ \A q \in request : HistoryRequest(q)
    /\ \A d \in answers : HistoryPage(d)
    /\ WalkInv

HistoryInv == TableInv /\ PagesInv
-----------------------------------------------------------------------------
\* The table only grows, by rows with later ids, and the clock goes on.
TableGrows ==
    /\ now' \in Nat /\ now <= now' /\ events \subseteq events'
    /\ Cardinality(events) <= Cardinality(events')
    /\ \A e \in events' \ events : e.id > Cardinality(events)

\* The instance has the cardinalities of the library.
LEMMA HistoryCardinality == \A S : History!Cardinality(S) = Cardinality(S)
BY DEF History!Cardinality, Cardinality

\* A statement that reads leaves the table as it is.
LEMMA TableStays ==
    ASSUME HistoryTable, events' = events, now' \in Nat, now <= now'
    PROVE  HistoryTable' /\ TableGrows
<1>1. Cardinality(events) \in Nat BY FS_CardinalityType DEF HistoryTable
<1> QED BY <1>1 DEF HistoryTable, TableGrows

\* One that writes adds finitely many rows with ids of their own.
LEMMA RowsAdded ==
    ASSUME HistoryTable, NEW R \in SUBSET HistoryRow, IsFiniteSet(R),
           \A e \in R : e.id > Cardinality(events),
           events' = events \cup R, now' = now
    PROVE  HistoryTable' /\ TableGrows
<1>1. IsFiniteSet(events') BY FS_Union DEF HistoryTable
<1>2. Cardinality(events) <= Cardinality(events')
  BY <1>1, FS_Subset
<1> QED BY <1>1, <1>2 DEF HistoryTable, TableGrows

\* A step that changes neither the jobs nor the events keeps the records.
LEMMA RecordsKept ==
    ASSUME RecordsInv, UNCHANGED <<job, events>>, raced \subseteq raced'
    PROVE  RecordsInv'
BY DEF RecordsInv, Own, Recovered, Eventless

\* A recovery that does nothing keeps what it goes by.
LEMMA RecoveryKept ==
    ASSUME RecoveryInv, UNCHANGED <<job, events, recover>>, raced \subseteq raced'
    PROVE  RecoveryInv'
BY DEF RecoveryInv, Own, Recovered, Eventless

\* recordCost: the job has no event yet.
LEMMA RecordCostStep ==
    ASSUME TableInv, NEW j \in Jobs, History!recordCost(j)
    PROVE  TableInv' /\ TableGrows
<1> USE DEF TableInv
<1>1. /\ job[j] = "new" /\ job' = [job EXCEPT ![j] = "costed"]
      /\ now' = now /\ events' = events /\ recover' = recover /\ raced' = raced
  BY DEF History!recordCost
<1>2. HistoryTable' /\ TableGrows BY <1>1, TableStays DEF HistoryTable
<1>3. /\ job' \in [Jobs -> {"new", "costed", "recorded"}]
      /\ \A i \in Jobs : job'[i] = IF i = j THEN "costed" ELSE job[i]
  BY <1>1 DEF RecordsInv
<1>4. \A i \in Jobs : job[i] = "recorded" => job'[i] = "recorded" BY <1>1, <1>3
<1>5. RecordsInv' BY <1>1, <1>3, <1>4 DEF RecordsInv, Own, Recovered, Eventless
<1>6. \A i \in Jobs : job[i] # "new" => job'[i] # "new" BY <1>3
<1>7. RecoveryInv' BY <1>1, <1>4, <1>6 DEF RecoveryInv, Own, Recovered, Eventless
<1> QED BY <1>2, <1>5, <1>7

\* recordEvalEvent: the job's own event, or none.
LEMMA RecordEvalEventStep ==
    ASSUME TableInv, NEW j \in Jobs, History!recordEvalEvent(j)
    PROVE  TableInv' /\ TableGrows
<1> USE DEF TableInv
<1>1. /\ job[j] = "costed" /\ job' = [job EXCEPT ![j] = "recorded"]
      /\ now' = now /\ recover' = recover /\ raced' = raced
  BY DEF History!recordEvalEvent
<1>2. /\ job' \in [Jobs -> {"new", "costed", "recorded"}]
      /\ \A i \in Jobs : job'[i] = IF i = j THEN "recorded" ELSE job[i]
  BY <1>1 DEF RecordsInv
<1>3. ~Own(j) /\ ~Eventless(j) BY <1>1 DEF RecordsInv, Eventless
<1>4. CASE events' = events
  <2>1. HistoryTable' /\ TableGrows BY <1>1, <1>4, TableStays DEF HistoryTable
  <2>2. RecordsInv' BY <1>1, <1>2, <1>3, <1>4 DEF RecordsInv, Own, Recovered, Eventless
  <2>3. \A i \in Jobs : job[i] # "new" => job'[i] # "new" BY <1>2
  <2>4. RecoveryInv'
    BY <1>1, <1>2, <1>3, <1>4, <2>3 DEF RecoveryInv, Own, Recovered, Eventless
  <2> QED BY <2>1, <2>2, <2>4
<1>5. ASSUME NEW t \in History!Began,
             events' = events \cup {History!row(Cardinality(events) + 1, t, j, JobRepo[j],
                                                j \in Aborted, FALSE)}
      PROVE  TableInv' /\ TableGrows
  <2> DEFINE r == History!row(Cardinality(events) + 1, t, j, JobRepo[j], j \in Aborted, FALSE)
  <2>1. Cardinality(events) \in Nat BY FS_CardinalityType DEF HistoryTable
  <2>2. t \in Nat BY <1>5 DEF History!Began, HistoryTable
  <2>3. JobRepo[j] \in DOMAIN Platforms BY HistoryAssumption
  <2>4. r \in HistoryRow /\ r.id = Cardinality(events) + 1 /\ r.job = j /\ ~r.recovered
    BY <2>1, <2>2, <2>3 DEF HistoryRow, History!row
  <2>5. events' = events \cup {r} BY <1>5
  <2> HIDE DEF r
  <2>6. HistoryTable' /\ TableGrows
    <3>1. IsFiniteSet({r}) BY FS_Singleton
    <3> QED BY <1>1, <2>1, <2>4, <2>5, <3>1, RowsAdded
  <2>7. /\ \A i \in Jobs : Recovered(i)' = Recovered(i)
        /\ \A i \in Jobs : i # j => (Own(i)' <=> Own(i))
    BY <2>4, <2>5 DEF Recovered, Own
  <2>8. \A i \in Jobs : i # j /\ Eventless(i) => Eventless(i)'
    BY <1>2, <2>7 DEF Eventless
  <2>9. \A d, e \in events' : d.job = e.job /\ (d.recovered <=> e.recovered) => d = e
    BY <1>3, <2>4, <2>5 DEF RecordsInv, Own
  <2>10. \A i \in Jobs : Own(i)' => job'[i] = "recorded"
    BY <1>2, <2>7 DEF RecordsInv
  <2>11. \A i \in Jobs : Recovered(i)' => i \in raced' \/ Eventless(i)'
    BY <1>1, <1>3, <2>7, <2>8 DEF RecordsInv
  <2>12. RecordsInv' BY <1>2, <2>9, <2>10, <2>11 DEF RecordsInv
  <2>13. \A i \in Jobs : job[i] # "new" => job'[i] # "new" BY <1>2
  <2>14. recover.pc = "fresh" =>
           \A i \in recover.fresh : ~Recovered(i)' /\ (i \in raced' \/ Eventless(i)')
    BY <1>1, <1>3, <2>7, <2>8 DEF RecoveryInv
  <2>15. RecoveryInv' BY <1>1, <2>13, <2>14 DEF RecoveryInv
  <2> QED BY <2>6, <2>12, <2>15
<1> QED BY <1>4, <1>5, HistoryCardinality DEF History!recordEvalEvent

\* selectCandidates: jobs with a cost row.
LEMMA SelectCandidatesStep ==
    ASSUME TableInv, NEW n \in DOMAIN Platforms, History!selectCandidates(n)
    PROVE  TableInv' /\ TableGrows
<1> USE DEF TableInv
<1>1. /\ now' = now /\ events' = events /\ job' = job /\ raced' = raced
      /\ recover' = [History!NoRecover EXCEPT !.pc = "candidates",
                       !.candidates = {j \in Jobs : job[j] # "new"}, !.repo = n]
  BY DEF History!selectCandidates
<1>2. /\ recover'.pc = "candidates" /\ recover'.candidates = {j \in Jobs : job[j] # "new"}
      /\ recover'.fresh = {} /\ recover'.repo = n
      /\ recover' = [pc |-> recover'.pc, candidates |-> recover'.candidates,
                     fresh |-> recover'.fresh, repo |-> recover'.repo]
  BY <1>1 DEF History!NoRecover
<1>3. HistoryTable' /\ TableGrows BY <1>1, TableStays DEF HistoryTable
<1>4. RecordsInv' BY <1>1, RecordsKept
<1>5. RecoveryInv' BY <1>1, <1>2 DEF RecoveryInv
<1> QED BY <1>3, <1>4, <1>5

\* selectExisting: of a job without an event it is known whether one is to come.
LEMMA SelectExistingStep ==
    ASSUME TableInv, History!selectExisting
    PROVE  TableInv' /\ TableGrows
<1> USE DEF TableInv
<1> DEFINE fresh == recover.candidates \ {e.job : e \in events}
           next == IF fresh = {} THEN "done" ELSE "fresh"
<1>1. /\ now' = now /\ events' = events /\ job' = job
      /\ raced' = raced \cup {j \in Jobs : job[j] = "costed"}
      /\ recover.pc = "candidates"
      /\ recover' = [recover EXCEPT !.pc = next, !.fresh = fresh]
  BY DEF History!selectExisting
<1>2. /\ recover'.pc = next /\ recover'.candidates = recover.candidates
      /\ recover'.fresh = fresh /\ recover'.repo = recover.repo
      /\ recover' = [pc |-> recover'.pc, candidates |-> recover'.candidates,
                     fresh |-> recover'.fresh, repo |-> recover'.repo]
  BY <1>1 DEF RecoveryInv
<1>3. HistoryTable' /\ TableGrows BY <1>1, TableStays DEF HistoryTable
<1>4. RecordsInv' BY <1>1, RecordsKept
<1>5. \A j \in fresh : j \in Jobs /\ ~Recovered(j) /\ ~Own(j) /\ job[j] \in {"costed", "recorded"}
  BY <1>1 DEF RecoveryInv, RecordsInv, Recovered, Own
<1>6. \A j \in fresh : ~Recovered(j)' /\ (j \in raced' \/ Eventless(j)')
  BY <1>1, <1>5 DEF Recovered, Own, Eventless
<1>7. next # "candidates" /\ recover.repo \in DOMAIN Platforms BY <1>1 DEF RecoveryInv
<1>8. fresh \subseteq Jobs BY <1>5
<1> HIDE DEF fresh, next
<1>9. RecoveryInv' BY <1>2, <1>6, <1>7, <1>8 DEF RecoveryInv
<1> QED BY <1>3, <1>4, <1>9

\* insertFresh: one recovered event for each job that has none recovered.
LEMMA InsertFreshStep ==
    ASSUME TableInv, History!insertFresh
    PROVE  TableInv' /\ TableGrows
<1> USE DEF TableInv
<1>1. PICK t \in History!Began, ids \in History!nextIds(recover.fresh) :
        events' = events \cup
          {History!row(ids[j], t, j, recover.repo, FALSE, TRUE) : j \in recover.fresh}
  BY DEF History!insertFresh
<1>2. /\ recover.pc = "fresh" /\ recover' = [recover EXCEPT !.pc = "done"]
      /\ now' = now /\ job' = job /\ raced' = raced
  BY DEF History!insertFresh
<1> DEFINE f == [j \in recover.fresh |-> History!row(ids[j], t, j, recover.repo, FALSE, TRUE)]
           R == {f[j] : j \in recover.fresh}
<1>3. IsFiniteSet(recover.fresh) BY HistoryAssumption, FS_Subset DEF RecoveryInv
<1>4. Cardinality(events) \in Nat /\ Cardinality(recover.fresh) \in Nat
  BY <1>3, FS_CardinalityType DEF HistoryTable
<1>5. \A j \in recover.fresh : ids[j] \in Nat /\ ids[j] > Cardinality(events)
  BY <1>4, HistoryCardinality DEF History!nextIds, History!Injection
<1>6. t \in Nat /\ recover.repo \in DOMAIN Platforms /\ recover.fresh \subseteq Jobs
  BY <1>2 DEF History!Began, HistoryTable, RecoveryInv
<1>7. \A j \in recover.fresh :
        f[j] \in HistoryRow /\ f[j].id > Cardinality(events) /\ f[j].job = j /\ f[j].recovered
  BY <1>5, <1>6 DEF HistoryRow, History!row
<1>8. IsFiniteSet(R)
  <2>1. f \in Surjection(recover.fresh, R) BY DEF Surjection
  <2> QED BY <1>3, <2>1, FS_Surjection
<1>9. events' = events \cup R BY <1>1
<1> HIDE DEF f
<1>10. R \subseteq HistoryRow /\ \A e \in R : e.id > Cardinality(events) BY <1>7
<1>11. HistoryTable' /\ TableGrows BY <1>2, <1>8, <1>9, <1>10, RowsAdded
<1>12. \A e \in R : e.job \in recover.fresh /\ e.recovered /\ e = f[e.job] BY <1>7
<1>13. \A j \in Jobs : (Own(j)' <=> Own(j)) /\ (Recovered(j)' => Recovered(j) \/ j \in recover.fresh)
  BY <1>9, <1>12 DEF Own, Recovered
<1>14. \A j \in recover.fresh : ~Recovered(j) /\ (j \in raced \/ Eventless(j))
  BY <1>2 DEF RecoveryInv
<1>15. \A j \in Jobs : Eventless(j)' <=> Eventless(j) BY <1>2, <1>13 DEF Eventless
<1>16. \A d, e \in events' : d.job = e.job /\ (d.recovered <=> e.recovered) => d = e
  BY <1>9, <1>12, <1>14 DEF RecordsInv, Recovered
<1>17. \A j \in Jobs : Recovered(j)' => j \in raced' \/ Eventless(j)'
  BY <1>2, <1>13, <1>14, <1>15 DEF RecordsInv
<1>18. \A j \in Jobs : Own(j)' => job'[j] = "recorded" BY <1>2, <1>13 DEF RecordsInv
<1>19. RecordsInv' BY <1>2, <1>16, <1>17, <1>18 DEF RecordsInv
<1>20. RecoveryInv' BY <1>2 DEF RecoveryInv
<1> QED BY <1>11, <1>19, <1>20

\* Every step of the history, seen from the table.
LEMMA TableStep ==
    ASSUME TableInv, History!Next
    PROVE  TableInv' /\ TableGrows
<1> USE DEF TableInv
<1>1. ASSUME UNCHANGED <<job, events, recover, raced>>, now' \in Nat, now <= now'
      PROVE  TableInv' /\ TableGrows
  BY <1>1, TableStays, RecordsKept, RecoveryKept
<1>2. now \in Nat BY DEF HistoryTable
<1>3. CASE History!Tick BY <1>1, <1>2, <1>3 DEF History!Tick
<1>4. CASE \E j \in Jobs : History!recordCost(j) \/ History!recordEvalEvent(j)
  BY <1>4, RecordCostStep, RecordEvalEventStep
<1>5. CASE \E n \in DOMAIN Platforms : History!selectCandidates(n)
  BY <1>5, SelectCandidatesStep
<1>6. CASE \E n \in DOMAIN Platforms : History!changeRepos(n)
  BY <1>1, <1>2, <1>6 DEF History!changeRepos
<1>7. CASE History!selectExisting \/ History!insertFresh
  BY <1>7, SelectExistingStep, InsertFreshStep
<1>8. CASE History!recoverAgain
  <2>1. /\ UNCHANGED <<job, events, raced>> /\ now' = now
        /\ recover' = History!NoRecover
    BY <1>8 DEF History!recoverAgain
  <2>2. RecoveryInv' BY <2>1 DEF RecoveryInv, History!NoRecover
  <2> QED BY <1>2, <2>1, <2>2, TableStays, RecordsKept
<1>9. CASE \/ \E q \in request : \/ History!selectRows(q) \/ History!fetchFails(q)
                                 \/ History!resolve(q) \/ History!answer(q)
           \/ \E f \in left.filters : History!resetCursor(f)
           \/ \E d \in answers : History!loadMore(d)
           \/ History!refetch
  <2>1. History!unchangedTable
    BY <1>9 DEF History!selectRows, History!fetchFails, History!resolve, History!answer,
         History!resetCursor, History!loadMore, History!refetch
  <2> QED BY <1>1, <1>2, <2>1 DEF History!unchangedTable
<1> QED BY <1>3, <1>4, <1>5, <1>6, <1>7, <1>8, <1>9 DEF History!Next, History!Names
-----------------------------------------------------------------------------
(* Positions in the order of (created_at, id), and cursors.                *)

\* The order is one: what precedes what precedes a row precedes it.
LEMMA LaterTransitive ==
    ASSUME NEW a \in HistoryRow, NEW b \in HistoryRow, NEW c \in HistoryRow,
           History!Later(a, b), History!Later(b, c)
    PROVE  History!Later(a, c)
<1>1. /\ a.at \in Nat /\ b.at \in Nat /\ c.at \in Nat
      /\ a.id \in Nat /\ b.id \in Nat /\ c.id \in Nat
  BY DEF HistoryRow
<1> QED BY <1>1 DEF History!Later

\* A page has one last row.
LEMMA LastIsUnique ==
    ASSUME NEW S \in SUBSET HistoryRow, NEW l, NEW m, EndsAt(l, S), EndsAt(m, S)
    PROVE  l = m
<1> SUFFICES ASSUME l # m PROVE FALSE OBVIOUS
<1>1. l \in S /\ m \in S /\ History!Later(l, m) /\ History!Later(m, l) BY DEF EndsAt
<1>2. l.at \in Nat /\ m.at \in Nat /\ l.id \in Nat /\ m.id \in Nat BY <1>1 DEF HistoryRow
<1> QED BY <1>1, <1>2 DEF History!Later

\* Whole milliseconds of a time.
LEMMA Milliseconds ==
    ASSUME NEW a \in Nat
    PROVE  /\ a \div PerMs \in Nat
           /\ (a \div PerMs) * PerMs <= a /\ a < (a \div PerMs) * PerMs + PerMs
<1>1. PerMs \in Nat /\ PerMs > 0 BY HistoryAssumption
<1> QED BY <1>1

\* A time within a millisecond has that one.
LEMMA SameMillisecond ==
    ASSUME NEW a \in Nat, NEW t \in Nat, t * PerMs <= a, a < t * PerMs + PerMs
    PROVE  a \div PerMs = t
<1>1. PerMs \in Nat /\ PerMs > 0 BY HistoryAssumption
<1> DEFINE u == a \div PerMs
<1>2. u \in Nat /\ u * PerMs <= a /\ a < u * PerMs + PerMs BY Milliseconds
<1> HIDE DEF u
<1>3. ASSUME NEW v \in Nat, NEW w \in Nat, v < w PROVE v * PerMs + PerMs <= w * PerMs
  <2>1. w = v + 1 + (w - v - 1) /\ w - v - 1 \in Nat BY <1>3
  <2> DEFINE n == w - v - 1
  <2>2. n \in Nat /\ w = v + 1 + n BY <2>1
  <2> HIDE DEF n
  <2>3. w * PerMs = v * PerMs + PerMs + n * PerMs BY <1>1, <2>2
  <2>4. n * PerMs >= 0 BY <1>1, <2>2
  <2>5. v * PerMs \in Nat /\ n * PerMs \in Nat BY <1>1, <2>2
  <2> QED BY <1>1, <2>3, <2>4, <2>5
<1>4. u * PerMs \in Nat /\ t * PerMs \in Nat BY <1>1, <1>2
<1>5. ~(u < t)
  <2> SUFFICES ASSUME u < t PROVE FALSE OBVIOUS
  <2>1. u * PerMs + PerMs <= t * PerMs BY <1>2, <1>3
  <2> QED BY <1>1, <1>2, <1>4, <2>1
<1>6. ~(t < u)
  <2> SUFFICES ASSUME t < u PROVE FALSE OBVIOUS
  <2>1. t * PerMs + PerMs <= u * PerMs BY <1>2, <1>3
  <2> QED BY <1>1, <1>2, <1>4, <2>1
<1>7. u = t BY <1>2, <1>5, <1>6
<1> QED BY <1>7 DEF u

\* A cursor is no null.
LEMMA CursorType ==
    ASSUME NEW l \in HistoryRow
    PROVE  /\ History!encodeCursor(l) # NoData
           /\ History!encodeCursor(l).t = l.at \div PerMs /\ History!encodeCursor(l).id = l.id
<1>1. l.at \in Nat /\ l.id \in Nat BY DEF HistoryRow
<1>2. l.at \div PerMs \in Nat BY <1>1, Milliseconds
<1> QED BY <1>1, <1>2, HistoryAssumption DEF History!encodeCursor

\* What a cursor lets through comes after its row.
LEMMA AfterIsLater ==
    ASSUME NEW l \in HistoryRow, NEW e \in HistoryRow,
           History!afterCursor(e, History!encodeCursor(l))
    PROVE  History!Later(l, e)
<1>1. l.at \in Nat /\ l.id \in Nat /\ e.at \in Nat /\ e.id \in Nat BY DEF HistoryRow
<1> DEFINE m == (l.at \div PerMs) * PerMs
<1>2. m <= l.at /\ m \in Nat BY <1>1, Milliseconds, HistoryAssumption
<1>3. e.at < m \/ (e.at = m /\ e.id < l.id) BY CursorType DEF History!afterCursor
<1> HIDE DEF m
<1> QED BY <1>1, <1>2, <1>3 DEF History!Later

\* What comes after its row it lets through, but for the same millisecond.
LEMMA LaterIsAfter ==
    ASSUME NEW l \in HistoryRow, NEW e \in HistoryRow, History!Later(l, e)
    PROVE  \/ e.at \div PerMs = l.at \div PerMs
           \/ History!afterCursor(e, History!encodeCursor(l))
<1>1. l.at \in Nat /\ l.id \in Nat /\ e.at \in Nat /\ e.id \in Nat BY DEF HistoryRow
<1> DEFINE t == l.at \div PerMs
<1>2. t \in Nat /\ t * PerMs <= l.at /\ l.at < t * PerMs + PerMs BY <1>1, Milliseconds
<1>3. History!encodeCursor(l).t = t BY CursorType
<1> HIDE DEF t
<1>4. PerMs \in Nat /\ t * PerMs \in Nat BY <1>2, HistoryAssumption
<1>5. CASE e.at < t * PerMs BY <1>3, <1>5 DEF History!afterCursor
<1>6. CASE ~(e.at < t * PerMs)
  <2>1. e.at <= l.at BY <1>1 DEF History!Later
  <2>2. t * PerMs <= e.at /\ e.at < t * PerMs + PerMs BY <1>1, <1>2, <1>4, <1>6, <2>1
  <2>3. e.at \div PerMs = t BY <1>1, <1>2, <2>2, SameMillisecond
  <2> QED BY <2>3 DEF t
<1> QED BY <1>5, <1>6

-----------------------------------------------------------------------------
(* What a growing table leaves true of what was read before.               *)

\* A filter lets through less as the clock goes on.
LEMMA SinceMoves ==
    ASSUME now \in Nat, now' \in Nat, now <= now', NEW e \in HistoryRow, NEW k,
           History!inSql(e, k)'
    PROVE  History!inSql(e, k)
<1>1. e.at \in Nat BY DEF HistoryRow
<1>2. Window \in Nat BY HistoryAssumption
<1>3. History!inSql(e, k)' <=>
        e.at >= (IF k.since = "24h" THEN now' - Window ELSE 0) /\ (k.name = "all" \/ e.repo = k.name)
  BY DEF History!inSql, History!resolveSince
<1>4. History!inSql(e, k) <=>
        e.at >= (IF k.since = "24h" THEN now - Window ELSE 0) /\ (k.name = "all" \/ e.repo = k.name)
  BY DEF History!inSql, History!resolveSince
<1> QED BY <1>1, <1>2, <1>3, <1>4

\* A base is a number of rows, and rows to come have ids above it.
LEMMA BaseKept ==
    ASSUME HistoryTable, HistoryTable', TableGrows, NEW b, ReadFrom(b)
    PROVE  ReadFrom(b)' /\ \A e \in events' : e.id <= b => e \in events
<1>1. Cardinality(events) \in Nat /\ Cardinality(events') \in Nat
  BY FS_CardinalityType DEF HistoryTable
<1>2. \A e \in events' : e.id \in Nat BY DEF HistoryTable, HistoryRow
<1> QED BY <1>1, <1>2 DEF ReadFrom, TableGrows

\* So a query of the past wants no other rows now.
LEMMA WantedKept ==
    ASSUME HistoryTable, HistoryTable', TableGrows, NEW k, NEW b, ReadFrom(b)
    PROVE  Wanted(k, b)' \subseteq Wanted(k, b)
<1> SUFFICES ASSUME NEW e \in events', e.id <= b, History!inSql(e, k.filter)',
                    History!afterCursor(e, k.cursor)
             PROVE  e \in Wanted(k, b)
  BY DEF Wanted, History!afterCursor
<1>1. e \in events BY BaseKept
<1>2. e \in HistoryRow /\ now \in Nat BY <1>1 DEF HistoryTable
<1>3. History!inSql(e, k.filter) BY <1>2, SinceMoves DEF TableGrows
<1> QED BY <1>1, <1>3 DEF Wanted

\* What a request has read stays the beginning of what it asked for.
LEMMA RequestKept ==
    ASSUME HistoryTable, HistoryTable', TableGrows, NEW q, HistoryRequest(q)
    PROVE  HistoryRequest(q)'
<1>1. ASSUME NEW F, RowsRead(q.key, q.base, F) PROVE RowsRead(q.key, q.base, F)'
  <2>1. ReadFrom(q.base)' /\ Wanted(q.key, q.base)' \subseteq Wanted(q.key, q.base)
    BY <1>1, BaseKept, WantedKept DEF RowsRead
  <2>2. F \subseteq events' BY <1>1 DEF RowsRead, TableGrows
  <2> QED BY <1>1, <2>1, <2>2 DEF RowsRead, History!afterCursor, History!Later
<1> QED BY <1>1 DEF HistoryRequest, HistoryKeyed

\* So does a page in the cache.
LEMMA PageKept ==
    ASSUME HistoryTable, HistoryTable', TableGrows, NEW d, HistoryPage(d)
    PROVE  HistoryPage(d)'
<1>1. ReadFrom(d.base)' /\ Wanted(d.key, d.base)' \subseteq Wanted(d.key, d.base)
  BY BaseKept, WantedKept DEF HistoryPage
<1>2. d.items \subseteq events' BY DEF HistoryPage, TableGrows
<1>3. d.next # NoData =>
        \E l \in d.items :
           /\ EndsAt(l, d.items)' /\ d.next = History!encodeCursor(l)'
           /\ \A e \in Wanted(d.key, d.base)' \ d.items : History!Later(l, e)'
  BY <1>1 DEF HistoryPage, EndsAt, History!encodeCursor, History!Later
<1> QED BY <1>1, <1>2, <1>3 DEF HistoryPage, HistoryKeyed, History!afterCursor

\* And a walk.
LEMMA WalkKept ==
    ASSUME HistoryTable, HistoryTable', TableGrows, WalkInv, shown' = shown, walk' = walk
    PROVE  WalkInv'
<1> SUFFICES ASSUME shown.cursor # NoData
             PROVE  /\ ReadFrom(walk.base)' /\ walk.prev \subseteq events'
                    /\ \E l \in walk.prev : EndsAt(l, walk.prev)' /\ shown.cursor = History!encodeCursor(l)'
                    /\ \A e \in events' : e.id <= walk.base /\ History!inSql(e, shown.filter)'
                                            => Covered(e)'
  BY DEF WalkInv, HistoryKeyed
<1>1. /\ ReadFrom(walk.base) /\ walk.prev \subseteq events
      /\ \E l \in walk.prev : EndsAt(l, walk.prev) /\ shown.cursor = History!encodeCursor(l)
      /\ \A e \in events : e.id <= walk.base /\ History!inSql(e, shown.filter) => Covered(e)
  BY DEF WalkInv
<1>2. ReadFrom(walk.base)' /\ \A e \in events' : e.id <= walk.base => e \in events
  BY <1>1, BaseKept
<1>3. walk.prev \subseteq events' BY <1>1 DEF TableGrows
<1>4. ASSUME NEW e \in events', e.id <= walk.base, History!inSql(e, shown.filter)'
      PROVE  Covered(e)'
  <2>1. e \in events BY <1>2, <1>4
  <2>2. e \in HistoryRow /\ now \in Nat BY <2>1 DEF HistoryTable
  <2>3. History!inSql(e, shown.filter) BY <1>4, <2>2, SinceMoves DEF TableGrows
  <2>4. Covered(e) BY <1>1, <1>4, <2>1, <2>3
  <2> QED BY <2>4 DEF Covered, History!afterCursor
<1>5. \E l \in walk.prev : EndsAt(l, walk.prev)' /\ shown.cursor = History!encodeCursor(l)'
  BY <1>1 DEF EndsAt, History!encodeCursor, History!Later
<1> QED BY <1>2, <1>3, <1>4, <1>5
-----------------------------------------------------------------------------
(* The steps of a request and of the page.                                 *)

\* A page of n rows is full, or has all there are.
LEMMA NewestType ==
    ASSUME NEW S, IsFiniteSet(S), NEW n \in Nat, NEW T \in History!newest(S, n)
    PROVE  /\ T \subseteq S /\ IsFiniteSet(T) /\ Cardinality(T) \in Nat /\ Cardinality(T) <= n
           /\ \A d \in T, e \in S \ T : Cardinality(T) = n /\ History!Later(d, e)
           /\ T # S => Cardinality(T) = n
<1>1. /\ T \subseteq S /\ Cardinality(T) = (IF Cardinality(S) < n THEN Cardinality(S) ELSE n)
      /\ \A d \in T, e \in S \ T : History!Later(d, e)
  BY HistoryCardinality DEF History!newest
<1>2. IsFiniteSet(T) /\ Cardinality(T) \in Nat /\ Cardinality(S) \in Nat
  BY <1>1, FS_Subset, FS_CardinalityType
<1>3. ASSUME T # S PROVE Cardinality(T) = n
  <2>1. Cardinality(S) # Cardinality(T) BY <1>1, <1>3, FS_Subset
  <2> QED BY <1>1, <2>1
<1>4. Cardinality(T) <= n BY <1>1, <1>2
<1>5. \A e \in S \ T : T # S OBVIOUS
<1> QED BY <1>1, <1>2, <1>3, <1>4, <1>5

\* selectRows.
LEMMA SelectRowsRead ==
    ASSUME HistoryInv, NEW q \in request, History!selectRows(q)
    PROVE  \E n : /\ HistoryRequest(n)
                  /\ request' = (request \ {q}) \cup {n}
<1> DEFINE b == Cardinality(events)
           wanted == {e \in events : /\ History!inSql(e, q.key.filter)
                                     /\ History!afterCursor(e, q.key.cursor)}
<1>1. PICK rows \in History!newest(wanted, Limit + 1) :
        request' = (request \ {q}) \cup
          {[q EXCEPT !.pc = "rows", !.base = b, !.rows = rows]}
  BY HistoryCardinality DEF History!selectRows
<1> DEFINE n == [key |-> q.key, pc |-> "rows", rows |-> rows, fetched |-> q.fetched, base |-> b]
<1>2. /\ HistoryKeyed(q.key) /\ IsFiniteSet(events) /\ Limit + 1 \in Nat
      /\ q = [key |-> q.key, pc |-> q.pc, rows |-> q.rows, fetched |-> q.fetched, base |-> q.base]
  BY HistoryAssumption DEF HistoryInv, PagesInv, HistoryRequest, TableInv, HistoryTable
<1>3. /\ n.key = q.key /\ n.pc = "rows" /\ n.base = b /\ n.rows = rows
      /\ n = [key |-> n.key, pc |-> n.pc, rows |-> n.rows, fetched |-> n.fetched, base |-> n.base]
  OBVIOUS
<1>0. [q EXCEPT !.pc = "rows", !.base = b, !.rows = rows] = n
  <2> HIDE DEF b
  <2> DEFINE asked == [q EXCEPT !.pc = "rows"]
  <2>1. asked = [key |-> q.key, pc |-> "rows", rows |-> q.rows, fetched |-> q.fetched,
                base |-> q.base]
    BY <1>2
  <2> HIDE DEF asked
  <2> DEFINE based == [asked EXCEPT !.base = b]
  <2>2. based
          = [key |-> q.key, pc |-> "rows", rows |-> q.rows, fetched |-> q.fetched, base |-> b]
    BY <2>1
  <2> HIDE DEF based
  <2>3. [based EXCEPT !.rows = rows] = n BY <2>2
  <2> QED BY <2>3 DEF asked, based
<1>4. IsFiniteSet(wanted) BY <1>2, FS_Subset
<1>5. /\ rows \subseteq wanted /\ IsFiniteSet(rows) /\ Cardinality(rows) <= Limit + 1
      /\ \A d \in rows, e \in wanted \ rows : History!Later(d, e)
      /\ rows # wanted => Cardinality(rows) = Limit + 1
  BY <1>1, <1>2, <1>4, NewestType
<1>6. ReadFrom(b)
  <2>1. b \in Nat BY <1>2, FS_CardinalityType
  <2> QED BY <2>1 DEF ReadFrom
<1>7. Wanted(q.key, b) \subseteq wanted BY DEF Wanted
<1>8. RowsRead(q.key, b, rows)
  <2>1. \A e \in Wanted(q.key, b) \ rows :
          Cardinality(rows) = Limit + 1 /\ \A x \in rows : History!Later(x, e)
    BY <1>5, <1>7
  <2>2. rows \subseteq events /\ \A e \in rows : History!afterCursor(e, q.key.cursor) BY <1>5
  <2> QED BY <1>5, <1>6, <2>1, <2>2 DEF RowsRead
<1> HIDE DEF n, b
<1>9. HistoryRequest(n) BY <1>2, <1>3, <1>8 DEF HistoryRequest
<1> QED BY <1>0, <1>1, <1>9

\* resolve.
LEMMA ResolveRead ==
    ASSUME HistoryInv, NEW q \in request, History!resolve(q)
    PROVE  \E n : /\ HistoryRequest(n)
                  /\ request' = (request \ {q}) \cup {n}
<1> DEFINE left2 == {e \in q.rows : History!kept(e, q.key.filter)}
           n == [key |-> q.key, pc |-> "filtered", rows |-> left2, fetched |-> q.rows,
                 base |-> q.base]
<1>1. /\ q.pc = "rows"
      /\ request' = (request \ {q}) \cup
           {[q EXCEPT !.pc = "filtered", !.fetched = q.rows, !.rows = left2]}
  BY DEF History!resolve
<1>2. /\ HistoryKeyed(q.key) /\ RowsRead(q.key, q.base, q.rows)
      /\ q = [key |-> q.key, pc |-> q.pc, rows |-> q.rows, fetched |-> q.fetched, base |-> q.base]
  BY <1>1 DEF HistoryInv, PagesInv, HistoryRequest
<1>3. /\ n.key = q.key /\ n.pc = "filtered" /\ n.base = q.base /\ n.rows = left2
      /\ n.fetched = q.rows
      /\ n = [key |-> n.key, pc |-> n.pc, rows |-> n.rows, fetched |-> n.fetched, base |-> n.base]
  OBVIOUS
<1>4. left2 \subseteq q.rows OBVIOUS
<1>6. [q EXCEPT !.pc = "filtered", !.fetched = q.rows, !.rows = left2] = n
  <2> HIDE DEF left2
  <2> DEFINE asked == [q EXCEPT !.pc = "filtered"]
  <2>1. asked = [key |-> q.key, pc |-> "filtered", rows |-> q.rows, fetched |-> q.fetched,
                base |-> q.base]
    BY <1>2
  <2> HIDE DEF asked
  <2> DEFINE moved == [asked EXCEPT !.fetched = q.rows]
  <2>2. moved
          = [key |-> q.key, pc |-> "filtered", rows |-> q.rows, fetched |-> q.rows,
             base |-> q.base]
    BY <2>1
  <2> HIDE DEF moved
  <2>3. [moved EXCEPT !.rows = left2] = n BY <2>2
  <2> QED BY <2>3 DEF asked, moved
<1> HIDE DEF n, left2
<1>5. HistoryRequest(n) BY <1>2, <1>3, <1>4 DEF HistoryRequest
<1> QED BY <1>1, <1>5, <1>6

\* answer: a full page ends with the row of its cursor, another has everything
\* that the filter left.
LEMMA AnswerRead ==
    ASSUME HistoryInv, NEW q \in request, History!answer(q)
    PROVE  \E d : /\ HistoryPage(d) /\ request' = request \ {q}
                  /\ answers' = {c \in answers : c.key # q.key} \cup {d}
<1> DEFINE more == Cardinality(q.rows) > Limit
<1>1. PICK items \in IF more THEN History!newest(q.rows, Limit) ELSE {q.rows} :
      \E next \in IF more THEN History!nextCursor(q.rows, items) ELSE {NoData} :
        answers' = {c \in answers : c.key # q.key} \cup
          {[key |-> q.key, items |-> items, next |-> next,
            total |-> History!countRows(q.key.filter),
            cut |-> Cardinality(q.fetched) > Limit /\ ~more,
            dropped |-> q.fetched \ q.rows, base |-> q.base]}
  BY HistoryCardinality DEF History!answer
<1>2. PICK next \in IF more THEN History!nextCursor(q.rows, items) ELSE {NoData} :
        answers' = {c \in answers : c.key # q.key} \cup
          {[key |-> q.key, items |-> items, next |-> next,
            total |-> History!countRows(q.key.filter),
            cut |-> Cardinality(q.fetched) > Limit /\ ~more,
            dropped |-> q.fetched \ q.rows, base |-> q.base]}
  BY <1>1
<1> DEFINE d == [key |-> q.key, items |-> items, next |-> next,
                 total |-> History!countRows(q.key.filter),
                 cut |-> Cardinality(q.fetched) > Limit /\ ~more,
                 dropped |-> q.fetched \ q.rows, base |-> q.base]
           F == q.fetched
<1>3. /\ d.key = q.key /\ d.items = items /\ d.next = next /\ d.base = q.base
      /\ (d.cut <=> Cardinality(F) > Limit /\ ~more) /\ d.dropped = F \ q.rows
      /\ answers' = {c \in answers : c.key # q.key} \cup {d}
  BY <1>2
<1>4. HistoryKeyed(q.key) /\ RowsRead(q.key, q.base, F) /\ q.rows \subseteq F
  BY DEF History!answer, HistoryInv, PagesInv, HistoryRequest
<1>5. /\ ReadFrom(q.base) /\ F \subseteq events /\ IsFiniteSet(F) /\ Cardinality(F) <= Limit + 1
      /\ \A e \in F : History!afterCursor(e, q.key.cursor)
      /\ \A e \in Wanted(q.key, q.base) \ F :
           Cardinality(F) = Limit + 1 /\ \A x \in F : History!Later(x, e)
  BY <1>4 DEF RowsRead
<1>6. /\ IsFiniteSet(q.rows) /\ Cardinality(q.rows) \in Nat /\ Cardinality(F) \in Nat
      /\ Cardinality(q.rows) <= Cardinality(F) /\ Limit \in Nat
      /\ Cardinality(q.rows) = Cardinality(F) => q.rows = F
  BY <1>4, <1>5, FS_Subset, FS_CardinalityType, HistoryAssumption
<1> HIDE DEF d, F
<1>7. request' = request \ {q} BY DEF History!answer
<1>8. CASE more
  <2>1. q.rows = F /\ Cardinality(F) = Limit + 1 BY <1>5, <1>6, <1>8
  <2>2. /\ items \in History!newest(F, Limit)
        /\ next \in {History!encodeCursor(l) :
                       l \in {x \in items : \A y \in items \ {x} : History!Later(y, x)}}
    BY <1>1, <1>2, <1>8, <2>1 DEF History!nextCursor
  <2>3. items \subseteq F /\ \A x \in items, e \in F \ items : History!Later(x, e)
    BY <1>5, <1>6, <2>2, NewestType
  <2>4. PICK l \in items : EndsAt(l, items) /\ next = History!encodeCursor(l)
    BY <2>2 DEF EndsAt
  <2>5. \A e \in Wanted(q.key, q.base) \ items : History!Later(l, e)
    BY <1>5, <2>3, <2>4
  <2>6. l \in HistoryRow BY <1>5, <2>3, <2>4 DEF HistoryInv, TableInv, HistoryTable
  <2>7. next # NoData BY <2>4, <2>6, CursorType
  <2>8. items \subseteq events /\ \A e \in items : History!afterCursor(e, q.key.cursor)
    BY <1>5, <2>3
  <2>9. HistoryPage(d) BY <1>3, <1>4, <1>5, <2>4, <2>5, <2>7, <2>8 DEF HistoryPage
  <2> QED BY <1>3, <1>7, <2>9
<1>9. CASE ~more
  <2>1. items = q.rows /\ next = NoData BY <1>1, <1>2, <1>9
  <2>2. ASSUME ~d.cut PROVE Wanted(q.key, q.base) \subseteq items \cup (F \ q.rows)
    <3>1. Cardinality(F) <= Limit BY <1>3, <1>6, <1>9, <2>2
    <3>2. Wanted(q.key, q.base) \subseteq F BY <1>5, <1>6, <3>1
    <3> QED BY <2>1, <3>2
  <2>3. items \subseteq events /\ \A e \in items : History!afterCursor(e, q.key.cursor)
    BY <1>4, <1>5, <2>1
  <2>4. HistoryPage(d) BY <1>3, <1>4, <1>5, <2>1, <2>2, <2>3 DEF HistoryPage
  <2> QED BY <1>3, <1>7, <2>4
<1> QED BY <1>8, <1>9

\* Another key is shown; its query is asked for, or was before.
LEMMA ShowStep ==
    ASSUME NEW k, HistoryKeyed(k), History!show(k)
    PROVE  /\ shown' = k
           /\ \A q \in request' : q \in request \/ HistoryRequest(q)'
<1>1. shown' = k /\ (request' = request \/ request' = request \cup {History!Asked(k)})
  BY DEF History!show, History!ask
<1>2. HistoryRequest(History!Asked(k))'
  BY DEF HistoryRequest, HistoryKeyed, History!Asked
<1> QED BY <1>1, <1>2

\* loadMore: the walk goes on below the last row of the page.
LEMMA LoadMoreWalk ==
    ASSUME HistoryInv, NEW d \in answers, History!loadMore(d)
    PROVE  WalkInv' /\ (\A q \in request' : q \in request \/ HistoryRequest(q)')
<1> DEFINE last == CHOOSE e \in d.items : \A x \in d.items \ {e} : History!Later(x, e)
           key == [shown EXCEPT !.cursor = d.next]
<1>1. /\ d.key = shown /\ d.next # NoData /\ History!show(key)
      /\ now' = now /\ events' = events
      /\ walk' = [prev |-> walk.prev \cup d.items, ends |-> walk.ends \cup {last.at \div PerMs},
                  base |-> History!Oldest(d)]
  BY DEF History!loadMore, History!Data, History!unchangedTable
<1>2. HistoryPage(d) /\ WalkInv /\ HistoryKeyed(shown) /\ events \subseteq HistoryRow
  BY DEF HistoryInv, PagesInv, WalkInv, TableInv, HistoryTable
<1>3. PICK l \in d.items : /\ EndsAt(l, d.items) /\ d.next = History!encodeCursor(l)
                           /\ \A e \in Wanted(shown, d.base) \ d.items : History!Later(l, e)
  BY <1>1, <1>2 DEF HistoryPage
<1>4. d.items \subseteq HistoryRow /\ l \in HistoryRow /\ d.items \subseteq events
  BY <1>2, <1>3 DEF HistoryPage
<1>5. last = l
  <2>1. EndsAt(last, d.items) BY <1>3 DEF EndsAt
  <2> HIDE DEF last
  <2> QED BY <1>3, <1>4, <2>1, LastIsUnique
<1> HIDE DEF last
<1>6. key.filter = shown.filter /\ key.cursor = d.next /\ HistoryKeyed(key)
  BY <1>2 DEF HistoryKeyed
<1> HIDE DEF key
<1>7. shown' = key /\ \A q \in request' : q \in request \/ HistoryRequest(q)'
  BY <1>1, <1>6, ShowStep
<1>8. /\ walk'.prev = walk.prev \cup d.items /\ walk'.ends = walk.ends \cup {l.at \div PerMs}
      /\ walk'.base = History!Oldest(d)
  BY <1>1, <1>5
<1>9. ReadFrom(d.base) BY <1>2 DEF HistoryPage
<1>10. /\ ReadFrom(walk'.base) /\ walk'.base <= d.base
       /\ shown.cursor # NoData => walk'.base <= walk.base
  BY <1>2, <1>8, <1>9 DEF WalkInv, History!Oldest, ReadFrom
<1>11. walk.prev \subseteq events /\ (shown.cursor = NoData => walk.prev = {})
  BY <1>2 DEF WalkInv
<1>12. \A x \in walk.prev : History!Later(x, l)
  <2> SUFFICES ASSUME NEW x \in walk.prev PROVE History!Later(x, l) OBVIOUS
  <2>1. PICK m \in walk.prev : EndsAt(m, walk.prev) /\ shown.cursor = History!encodeCursor(m)
    BY <1>2, <1>11 DEF WalkInv
  <2>2. m \in HistoryRow /\ x \in HistoryRow BY <1>2, <1>11
  <2>3. History!afterCursor(l, shown.cursor) BY <1>1, <1>2, <1>3 DEF HistoryPage
  <2>4. History!Later(m, l) BY <1>4, <2>1, <2>2, <2>3, AfterIsLater
  <2>5. CASE x = m BY <2>4, <2>5
  <2>6. CASE x # m
    <3>1. History!Later(x, m) BY <2>1, <2>6 DEF EndsAt
    <3> QED BY <1>4, <2>2, <2>4, <3>1, LaterTransitive
  <2> QED BY <2>5, <2>6
<1>13. EndsAt(l, walk'.prev) BY <1>3, <1>8, <1>12 DEF EndsAt
<1>14. ASSUME NEW e \in events, e.id <= walk'.base, History!inSql(e, shown.filter)
       PROVE  \/ e \in walk'.prev \/ e.at \div PerMs \in walk'.ends
              \/ History!afterCursor(e, d.next)
  <2>0. e.id \in Nat /\ e \in HistoryRow BY <1>2 DEF HistoryRow
  <2>1. CASE History!afterCursor(e, shown.cursor)
    <3>1. e.id <= d.base BY <1>9, <1>10, <1>14, <2>0 DEF ReadFrom
    <3>2. e \in Wanted(shown, d.base) BY <1>14, <2>1, <3>1 DEF Wanted
    <3>3. CASE e \in d.items BY <1>8, <3>3
    <3>4. CASE e \notin d.items
      <4>1. History!Later(l, e) BY <1>3, <3>2, <3>4
      <4>2. \/ e.at \div PerMs = l.at \div PerMs
            \/ History!afterCursor(e, History!encodeCursor(l))
        BY <1>4, <2>0, <4>1, LaterIsAfter
      <4> QED BY <1>3, <1>8, <4>2
    <3> QED BY <3>3, <3>4
  <2>2. CASE ~History!afterCursor(e, shown.cursor)
    <3>1. shown.cursor # NoData BY <2>2 DEF History!afterCursor
    <3>2. e.id <= walk.base
      BY <1>2, <1>10, <1>14, <2>0, <3>1 DEF WalkInv, ReadFrom
    <3>3. Covered(e) BY <1>2, <1>14, <3>1, <3>2 DEF WalkInv
    <3> QED BY <1>8, <2>2, <3>3 DEF Covered
  <2> QED BY <2>1, <2>2
<1>15. d.next # NoData /\ shown'.cursor = d.next /\ shown'.filter = shown.filter /\ HistoryKeyed(shown')
  BY <1>1, <1>6, <1>7
<1>16. \A e \in events' : e.id <= walk'.base /\ History!inSql(e, shown.filter)' => Covered(e)'
  BY <1>1, <1>14, <1>15
     DEF Covered, History!inSql, History!resolveSince, History!afterCursor
<1>17. \E m \in walk'.prev : EndsAt(m, walk'.prev) /\ d.next = History!encodeCursor(m)
  BY <1>3, <1>8, <1>13
<1>18. walk'.prev \subseteq events' /\ walk'.base \in Nat /\ walk'.base <= Cardinality(events')
  BY <1>1, <1>4, <1>8, <1>10, <1>11 DEF ReadFrom
<1> QED BY <1>7, <1>15, <1>16, <1>17, <1>18
       DEF WalkInv, ReadFrom, HistoryKeyed, EndsAt, History!Later, History!encodeCursor

\* Every step of the history keeps what its pages rest on.
LEMMA PagesStep ==
    ASSUME HistoryInv, History!Next PROVE PagesInv'
<1>1. HistoryTable /\ HistoryTable' /\ TableGrows
  BY TableStep DEF HistoryInv, TableInv
<1>2. /\ \A q \in request : HistoryRequest(q)'
      /\ \A d \in answers : HistoryPage(d)'
      /\ shown' = shown /\ walk' = walk => WalkInv'
  BY <1>1, RequestKept, PageKept, WalkKept DEF HistoryInv, PagesInv
<1>3. CASE History!unchangedPage BY <1>2, <1>3 DEF History!unchangedPage, PagesInv
<1>4. ASSUME NEW q \in request, NEW n, HistoryRequest(n), request' = (request \ {q}) \cup {n},
             UNCHANGED <<answers, shown, walk>>
      PROVE  PagesInv'
  BY <1>1, <1>2, <1>4, RequestKept DEF PagesInv
<1>5. CASE \E q \in request : History!selectRows(q)
  <2>1. PICK q \in request : History!selectRows(q) BY <1>5
  <2>2. UNCHANGED <<answers, shown, walk>> BY <2>1 DEF History!selectRows
  <2> QED BY <1>4, <2>1, <2>2, SelectRowsRead
<1>6. CASE \E q \in request : History!resolve(q)
  <2>1. PICK q \in request : History!resolve(q) BY <1>6
  <2>2. UNCHANGED <<answers, shown, walk>> BY <2>1 DEF History!resolve
  <2> QED BY <1>4, <2>1, <2>2, ResolveRead
<1>7. CASE \E q \in request : History!fetchFails(q)
  BY <1>2, <1>7 DEF History!fetchFails, PagesInv
<1>8. CASE \E q \in request : History!answer(q)
  <2>1. PICK q \in request : History!answer(q) BY <1>8
  <2>2. UNCHANGED <<shown, walk>> BY <2>1 DEF History!answer
  <2>3. PICK d : /\ HistoryPage(d) /\ request' = request \ {q}
                 /\ answers' = {c \in answers : c.key # q.key} \cup {d}
    BY <2>1, AnswerRead
  <2>4. HistoryPage(d)' BY <1>1, <2>3, PageKept
  <2> QED BY <1>2, <2>2, <2>3, <2>4 DEF PagesInv
<1>9. CASE \E f \in left.filters : History!resetCursor(f)
  <2>1. PICK f \in left.filters : History!resetCursor(f) BY <1>9
  <2> DEFINE k == [filter |-> f, cursor |-> NoData]
  <2>2. History!show(k) /\ walk' = History!NoWalk /\ answers' = answers
    BY <2>1 DEF History!resetCursor
  <2>3. HistoryKeyed(k) /\ k.cursor = NoData BY DEF HistoryKeyed
  <2> HIDE DEF k
  <2>4. shown' = k /\ \A q \in request' : q \in request \/ HistoryRequest(q)'
    BY <2>2, <2>3, ShowStep
  <2>5. WalkInv' BY <2>2, <2>3, <2>4 DEF WalkInv, HistoryKeyed, History!NoWalk
  <2> QED BY <1>2, <2>2, <2>4, <2>5 DEF PagesInv
<1>10. CASE \E d \in answers : History!loadMore(d)
  <2>1. PICK d \in answers : History!loadMore(d) BY <1>10
  <2>2. answers' = answers BY <2>1 DEF History!loadMore
  <2> QED BY <1>2, <2>1, <2>2, LoadMoreWalk DEF PagesInv
<1>11. CASE History!refetch
  <2>1. /\ UNCHANGED <<answers, shown, walk>>
        /\ request' = request \cup {History!Asked(shown)}
    BY <1>11 DEF History!refetch, History!ask
  <2>2. HistoryRequest(History!Asked(shown))'
    BY <2>1 DEF HistoryInv, PagesInv, WalkInv, HistoryRequest, HistoryKeyed, History!Asked
  <2> QED BY <1>2, <2>1, <2>2 DEF PagesInv
<1>12. \/ History!unchangedPage
       \/ \E q \in request : \/ History!selectRows(q) \/ History!fetchFails(q)
                             \/ History!resolve(q) \/ History!answer(q)
       \/ \E f \in left.filters : History!resetCursor(f)
       \/ \E d \in answers : History!loadMore(d)
       \/ History!refetch
  BY DEF History!Next, History!Tick, History!recordCost, History!recordEvalEvent,
     History!selectCandidates, History!changeRepos, History!selectExisting,
     History!insertFresh, History!recoverAgain
<1> QED BY <1>3, <1>5, <1>6, <1>7, <1>8, <1>9, <1>10, <1>11, <1>12
-----------------------------------------------------------------------------
\* Nothing is recorded or read at first.
LEMMA HistoryInit == History!Init => HistoryInv
<1> SUFFICES ASSUME History!Init PROVE HistoryInv OBVIOUS
<1>1. /\ now = 0 /\ job = [j \in Jobs |-> "new"] /\ events = {} /\ recover = History!NoRecover
      /\ \E f \in left.filters : shown = [filter |-> f, cursor |-> NoData]
      /\ request = {History!Asked(shown)} /\ answers = {} /\ walk = History!NoWalk
  BY DEF History!Init
<1>2. HistoryTable BY <1>1, FS_EmptySet DEF HistoryTable
<1>3. RecordsInv BY <1>1 DEF RecordsInv, Own, Recovered
<1>4. RecoveryInv BY <1>1 DEF RecoveryInv, History!NoRecover
<1>5. HistoryKeyed(shown) /\ shown.cursor = NoData BY <1>1 DEF HistoryKeyed
<1>6. WalkInv BY <1>1, <1>5 DEF WalkInv, History!NoWalk
<1>7. HistoryRequest(History!Asked(shown)) BY <1>5 DEF HistoryRequest, History!Asked
<1> QED BY <1>1, <1>2, <1>3, <1>4, <1>6, <1>7 DEF HistoryInv, TableInv, PagesInv

\* HistoryInv is kept by the steps of the other parts.
LEMMA HistoryStutters ==
    ASSUME HistoryInv, UNCHANGED historyVars PROVE HistoryInv'
<1> USE DEF historyVars, HistoryInv, TableInv
<1>1. HistoryTable' /\ TableGrows BY TableStays DEF HistoryTable
<1>2. RecordsInv' /\ RecoveryInv' BY RecordsKept, RecoveryKept
<1>3. PagesInv' BY <1>1, RequestKept, PageKept, WalkKept DEF PagesInv
<1> QED BY <1>1, <1>2, <1>3

\* The table of events, what requests and pages have read of it and how far a
\* walk has come are consistent in every reachable state.
THEOREM HistoryIsSafe == DashboardSpec => [](part = "history" => HistoryInv)
<1> DEFINE I == part = "history" => HistoryInv
<1>1. DashboardInit => I BY HistoryInit DEF DashboardInit
<1>2. I /\ [DashboardNext]_<<part, consoleVars, historyVars, keyVars>> => I'
  <2> SUFFICES ASSUME I, [DashboardNext]_<<part, consoleVars, historyVars, keyVars>>,
                      part' = "history"
               PROVE  HistoryInv'
    OBVIOUS
  <2>1. part = "history" BY DEF DashboardNext
  <2>2. HistoryInv BY <2>1
  <2>3. CASE History!Next BY <2>2, <2>3, TableStep, PagesStep DEF HistoryInv
  <2>4. CASE UNCHANGED historyVars BY <2>2, <2>4, HistoryStutters
  <2> QED BY <2>1, <2>3, <2>4 DEF DashboardNext
<1> QED BY <1>1, <1>2, PTL DEF DashboardSpec

\* What a page shows comes after all the pages before it showed.
LEMMA NothingTwice == HistoryInv => History!NoRepeats
<1> SUFFICES ASSUME HistoryInv, NEW d \in answers, d.key = shown,
                    NEW e \in d.items, NEW p \in walk.prev
             PROVE  History!Later(p, e)
  BY DEF History!NoRepeats, History!Data
<1>1. HistoryPage(d) /\ WalkInv /\ events \subseteq HistoryRow
  BY DEF HistoryInv, PagesInv, TableInv, HistoryTable
<1>2. shown.cursor # NoData BY <1>1 DEF WalkInv
<1>3. PICK l \in walk.prev : EndsAt(l, walk.prev) /\ shown.cursor = History!encodeCursor(l)
  BY <1>1, <1>2 DEF WalkInv
<1>4. l \in HistoryRow /\ p \in HistoryRow /\ e \in HistoryRow
  BY <1>1, <1>2, <1>3 DEF WalkInv, HistoryPage
<1>5. History!Later(l, e) BY <1>1, <1>3, <1>4, AfterIsLater DEF HistoryPage
<1>6. p = l \/ History!Later(p, l) BY <1>3 DEF EndsAt
<1> QED BY <1>4, <1>5, <1>6, LaterTransitive

\* What a walk to its end has not shown was cut off by a cursor.
LEMMA NothingMissed == HistoryInv => History!MissesExplained
<1> SUFFICES ASSUME HistoryInv, NEW d \in answers, d.key = shown, d.next = NoData, ~d.cut,
                    NEW e \in events, e \notin walk.prev, e \notin d.items, e \notin d.dropped,
                    e.id <= History!Oldest(d), History!inSql(e, shown.filter)
             PROVE  e.at \div PerMs \in walk.ends
  BY DEF History!MissesExplained, History!Data
<1>1. HistoryPage(d) /\ WalkInv /\ e \in HistoryRow
  BY DEF HistoryInv, PagesInv, TableInv, HistoryTable
<1>2. e.id \in Nat /\ ReadFrom(d.base) /\ (shown.cursor # NoData => ReadFrom(walk.base))
  BY <1>1 DEF HistoryRow, HistoryPage, WalkInv
<1>3. e.id <= d.base /\ (shown.cursor # NoData => e.id <= walk.base)
  BY <1>2 DEF History!Oldest, ReadFrom
<1>4. ~History!afterCursor(e, shown.cursor)
  <2>1. e \notin Wanted(shown, d.base) BY <1>1 DEF HistoryPage
  <2> QED BY <1>3, <2>1 DEF Wanted
<1>5. shown.cursor # NoData BY <1>4 DEF History!afterCursor
<1>6. Covered(e) BY <1>1, <1>3, <1>5 DEF WalkInv
<1> QED BY <1>4, <1>6 DEF Covered

\* A second event of a job is a recovery's that looked before the first one
\* was written.
LEMMA OneOrRaced == HistoryInv => History!OneEventPerJob
<1> SUFFICES ASSUME HistoryInv, NEW d \in events, NEW e \in events, d.job = e.job, d # e
             PROVE  d.recovered # e.recovered /\ d.job \in raced
  BY DEF History!OneEventPerJob
<1>1. /\ d.recovered \in BOOLEAN /\ e.recovered \in BOOLEAN /\ d.job \in Jobs
  BY DEF HistoryInv, TableInv, HistoryTable, HistoryRow
<1>2. ~(d.recovered <=> e.recovered) BY DEF HistoryInv, TableInv, RecordsInv
<1>3. Own(d.job) /\ Recovered(d.job) BY <1>1, <1>2 DEF Own, Recovered
<1>4. d.job \in raced
  BY <1>1, <1>3 DEF HistoryInv, TableInv, RecordsInv, Eventless
<1> QED BY <1>1, <1>2, <1>4

\* A walk through the history shows no row twice, and misses none that was in
\* the table when its pages were read, except those that share a millisecond
\* with the last row of a page or come after a full page that the filter in
\* memory has shortened; a job has one event unless a recovery raced it
\* (reviews.ts, cursor.ts, recover-eval-events.ts): for any rows and times, any
\* size of a page and any changes meanwhile.
THEOREM HistoryComplete == DashboardSpec => []HistoryIsComplete
<1>1. (part = "history" => HistoryInv) => HistoryIsComplete
  BY NothingTwice, NothingMissed, OneOrRaced DEF HistoryIsComplete
<1> QED BY <1>1, HistoryIsSafe, PTL

=============================================================================
