--------------------------- MODULE AuditLogProofs ---------------------------
(***************************************************************************)
(* Theorems about AuditLog, for every set of appenders and tenants and     *)
(* every bound: type correctness, that no interleaving makes a row dangle  *)
(* or a prune remove the tip, and that appends that do not overlap keep    *)
(* the global chain linear and every export of a chain verifiable.         *)
(***************************************************************************)
EXTENDS AuditLog, TLAPS, WellFoundedInduction

-----------------------------------------------------------------------------
(* Lemmas about the table operators.                                       *)

(* computeAuditHash returns a hash one payload longer than the previous.   *)
LEMMA HashType ==
    ASSUME NEW h \in Hash, NEW ev \in Payload
    PROVE  /\ computeAuditHash(h, ev) \in Hash
           /\ Len(computeAuditHash(h, ev)) = Len(h) + 1
  <1>1. canonicalPayload(ev) \in Payload
    BY DEF canonicalPayload, Payload
  <1> QED
    BY <1>1 DEF computeAuditHash, Hash

(* Hashes are sequences, so Genesis is one.                                *)
LEMMA GenesisType == Genesis \in Hash
  BY DEF Genesis, Hash

(* A non-empty set of rows has a newest one. It is the row whose id is the *)
(* largest of finitely many, found by descent from MaxRows.                *)
LEMMA NewestExists ==
    ASSUME NEW S \in SUBSET Row, S # {}
    PROVE  Newest(S) \in S /\ \A q \in S : q.id <= Newest(S).id
  <1> DEFINE Ids == {r.id : r \in S}
  <1> DEFINE Co == {MaxRows - i : i \in Ids}
  <1>1. \E r \in S : \A q \in S : q.id <= r.id
    <2>1. Co # {} /\ Co \in SUBSET Nat
      BY RowsAssumption DEF Row
    <2>2. PICK n \in Co : \A m \in Co : n <= m
      <3>1. PICK n \in Co : \A m \in Co : ~ (<<m, n>> \in OpToRel(<, Nat))
        <4> HIDE DEF Co
        <4> QED
          BY <2>1, NatLessThanWellFounded, WFMin, Zenon
      <3>2. \A m \in Co : ~ (m < n)
        BY <3>1, <2>1 DEF OpToRel
      <3> QED
        BY <3>2, <2>1
    <2>3. PICK r \in S : n = MaxRows - r.id
      BY <2>2
    <2>4. \A q \in S : MaxRows - r.id <= MaxRows - q.id
      BY <2>2, <2>3
    <2> QED
      BY <2>4, RowsAssumption DEF Row
  <1> QED
    BY <1>1 DEF Newest

(* The hash an appender reads is a hash, whatever rows it can see.         *)
LEMMA LastHashType ==
    ASSUME NEW S \in SUBSET Row
    PROVE  LastHash(S) \in Hash
  <1>1. CASE S = {}
    BY <1>1, GenesisType DEF LastHash
  <1>2. CASE S # {}
    <2>1. Newest(S) \in Row
      BY <1>2, NewestExists
    <2> QED
      BY <1>2, <2>1 DEF LastHash, Row
  <1> QED
    BY <1>1, <1>2

(* The row an appender has inserted is a row of the table.                 *)
LEMMA InFlightType ==
    ASSUME TypeOK, NEW a \in Appenders, newId[a] # 0
    PROVE  InFlight(a) \in Row
  <1>1. draft[a] \in Payload /\ prev[a] \in Hash /\ newId[a] \in 1..MaxRows
    BY RowsAssumption DEF TypeOK
  <1>2. computeAuditHash(prev[a], draft[a]) \in Hash
    BY <1>1, HashType
  <1> QED
    BY <1>1, <1>2 DEF InFlight, Row, Payload

-----------------------------------------------------------------------------
(* An appender that has inserted holds an id of the sequence; with it the  *)
(* type invariant is inductive.                                            *)
IdsHeld == \A a \in Appenders : pc[a] = "inserted" => newId[a] # 0

TypeInv == TypeOK /\ IdsHeld

(* The draft of an idle appender is a payload.                             *)
LEMMA NoDraftType == NoDraft \in Payload
  BY TenantsAssumption, TimeAssumption DEF NoDraft, Payload

(* Every step of the appenders, the pruner and the clock preserves TypeInv.*)
LEMMA TypeStep ==
    ASSUME TypeInv, [Next]_vars
    PROVE  TypeInv'
  <1> USE RowsAssumption, TimeAssumption DEF TypeInv
  <1>b. NoDraft \in Payload
    BY NoDraftType
  <1>1. CASE Tick
    BY <1>1 DEF Tick, TypeOK, IdsHeld, appenderVars
  <1>2. ASSUME NEW a \in Appenders, NEW t \in Tenants, SelectLast(a, t)
        PROVE  TypeInv'
    <2>1. LastHash(Visible(t, rows)) \in Hash
      <3>1. Visible(t, rows) \in SUBSET Row
        BY DEF Visible, TypeOK
      <3> QED
        BY <3>1, LastHashType
    <2>2. draft' \in [Appenders -> Payload]
      BY <1>2 DEF SelectLast, TypeOK, Payload
    <2> QED
      BY <1>2, <2>1, <2>2 DEF SelectLast, TypeOK, IdsHeld
  <1>3. ASSUME NEW a \in Appenders, BuildRow(a)
        PROVE  TypeInv'
    <2>1. draft' \in [Appenders -> Payload]
      BY <1>3 DEF BuildRow, TypeOK, Payload
    <2> QED
      BY <1>3, <2>1 DEF BuildRow, TypeOK, IdsHeld
  <1>4. ASSUME NEW a \in Appenders, InsertRow(a)
        PROVE  TypeInv'
    BY <1>4 DEF InsertRow, TypeOK, IdsHeld
  <1>5. ASSUME NEW a \in Appenders, Commit(a)
        PROVE  TypeInv'
    <2>1. InFlight(a) \in Row
      BY <1>5, InFlightType DEF Commit, IdsHeld
    <2> QED
      BY <1>5, <1>b, <2>1, GenesisType DEF Commit, EndTransaction, TypeOK, IdsHeld
  <1>6. ASSUME NEW a \in Appenders, Rollback(a)
        PROVE  TypeInv'
    BY <1>6, <1>b, GenesisType DEF Rollback, EndTransaction, TypeOK, IdsHeld
  <1>7. ASSUME NEW b \in 0..MaxTime + 1, PruneSelect(b)
        PROVE  TypeInv'
    <2>1. CASE Expired(b) = {}
      BY <1>7, <2>1 DEF PruneSelect, TypeOK, IdsHeld, appenderVars
    <2>2. CASE Expired(b) # {}
      <3>1. Expired(b) \in SUBSET Row
        BY DEF Expired, TypeOK
      <3>2. Newest(Expired(b)).id \in 0..MaxRows
        BY <3>1, <2>2, NewestExists DEF Row
      <3>3. prune' \in [pc : {"idle", "anchored", "pruned"}, anchor : 0..MaxRows]
        BY <1>7, <2>2, <3>2 DEF PruneSelect
      <3> QED
        BY <1>7, <3>3 DEF PruneSelect, TypeOK, IdsHeld, appenderVars
    <2> QED
      BY <2>1, <2>2
  <1>8. CASE PruneDelete
    BY <1>8 DEF PruneDelete, KeepsFrom, TypeOK, IdsHeld, appenderVars
  <1>9. CASE PruneVerify
    BY <1>9 DEF PruneVerify, TypeOK, IdsHeld, appenderVars
  <1>10. CASE UNCHANGED vars
    BY <1>10 DEF vars, TypeOK, IdsHeld
  <1> QED
    BY <1>1, <1>2, <1>3, <1>4, <1>5, <1>6, <1>7, <1>8, <1>9, <1>10
       DEF Next, AppendStep, PruneStep

(* The initial state is well typed.                                        *)
LEMMA TypeInit == Init => TypeInv
  <1>1. Init => scoped \in BOOLEAN /\ raced \in BOOLEAN
    BY Zenon DEF Init
  <1>2. Init => TypeOK
    BY <1>1, NoDraftType, GenesisType, RowsAssumption, TimeAssumption DEF Init, TypeOK
  <1>3. Init => IdsHeld
    BY DEF Init, IdsHeld
  <1> QED
    BY <1>2, <1>3 DEF TypeInv

(* Type correctness of the appender, the pruner and the table.             *)
THEOREM TypeCorrect == Spec => []TypeOK
  <1>1. TypeInv => TypeOK
    BY DEF TypeInv
  <1> QED
    BY TypeInit, TypeStep, <1>1, PTL DEF Spec

-----------------------------------------------------------------------------
(* NoDangling is not inductive by itself: a row being appended must already*)
(* point at a committed row with a smaller id than the one it will get.    *)

RowsInLog == rows \subseteq log

IdsDrawn == /\ \A r \in log : r.id < nextId
            /\ \A a \in Appenders : newId[a] < nextId

ReadsCommitted ==
    \A a \in Appenders :
        pc[a] # "idle" =>
            \/ prev[a] = Genesis
            \/ \E q \in log : q.hash = prev[a] /\ (pc[a] = "inserted" => q.id < newId[a])

DanglingInv == TypeInv /\ RowsInLog /\ IdsDrawn /\ ReadsCommitted /\ NoDangling

(* What an appender's SELECT returns is genesis or a committed row's hash. *)
LEMMA LastHashCommitted ==
    ASSUME NEW S \in SUBSET Row
    PROVE  LastHash(S) = Genesis \/ \E q \in S : q.hash = LastHash(S)
  BY NewestExists DEF LastHash

(* Every step preserves DanglingInv.                                       *)
LEMMA DanglingStep ==
    ASSUME DanglingInv, [Next]_vars
    PROVE  DanglingInv'
  <1>0. TypeInv'
    BY TypeStep DEF DanglingInv
  <1> SUFFICES (RowsInLog /\ IdsDrawn /\ ReadsCommitted /\ NoDangling)'
    BY <1>0 DEF DanglingInv
  <1> USE RowsAssumption DEF DanglingInv, TypeInv
  <1>a. /\ rows \subseteq Row /\ log \subseteq Row /\ nextId \in Nat \ {0}
        /\ pc \in [Appenders -> {"idle", "read", "built", "inserted"}]
        /\ prev \in [Appenders -> Hash]
        /\ newId \in [Appenders -> 0..MaxRows]
        /\ \A r \in log : r.id \in Nat
    BY DEF TypeOK, Row
  <1>1. CASE Tick
    BY <1>1 DEF Tick, RowsInLog, IdsDrawn, ReadsCommitted, NoDangling, appenderVars
  <1>2. ASSUME NEW a \in Appenders, NEW t \in Tenants, SelectLast(a, t)
        PROVE  (RowsInLog /\ IdsDrawn /\ ReadsCommitted /\ NoDangling)'
    <2>1. Visible(t, rows) \in SUBSET Row /\ Visible(t, rows) \subseteq rows
      BY <1>a DEF Visible
    <2>2. \/ LastHash(Visible(t, rows)) = Genesis
          \/ \E q \in log : q.hash = LastHash(Visible(t, rows))
      BY <2>1, LastHashCommitted DEF RowsInLog
    <2>3. prev' = [prev EXCEPT ![a] = LastHash(Visible(t, rows))]
          /\ pc' = [pc EXCEPT ![a] = "read"] /\ UNCHANGED <<rows, log, nextId, newId>>
      BY <1>2 DEF SelectLast
    <2>4. ReadsCommitted'
      BY <1>a, <2>2, <2>3 DEF ReadsCommitted
    <2> QED
      BY <2>3, <2>4 DEF RowsInLog, IdsDrawn, NoDangling
  <1>3. ASSUME NEW a \in Appenders, BuildRow(a)
        PROVE  (RowsInLog /\ IdsDrawn /\ ReadsCommitted /\ NoDangling)'
    <2>1. pc[a] = "read" /\ pc' = [pc EXCEPT ![a] = "built"]
          /\ UNCHANGED <<rows, log, nextId, prev, newId>>
      BY <1>3 DEF BuildRow
    <2> QED
      BY <1>a, <2>1 DEF RowsInLog, IdsDrawn, ReadsCommitted, NoDangling
  <1>4. ASSUME NEW a \in Appenders, InsertRow(a)
        PROVE  (RowsInLog /\ IdsDrawn /\ ReadsCommitted /\ NoDangling)'
    <2>1. /\ pc[a] = "built" /\ pc' = [pc EXCEPT ![a] = "inserted"]
          /\ newId' = [newId EXCEPT ![a] = nextId] /\ nextId' = nextId + 1
          /\ UNCHANGED <<rows, log, prev>>
      BY <1>4 DEF InsertRow
    <2>2. IdsDrawn'
      BY <1>a, <2>1 DEF IdsDrawn
    <2>3. ReadsCommitted'
      BY <1>a, <2>1 DEF ReadsCommitted, IdsDrawn
    <2> QED
      BY <2>1, <2>2, <2>3 DEF RowsInLog, NoDangling
  <1>5. ASSUME NEW a \in Appenders, Commit(a)
        PROVE  (RowsInLog /\ IdsDrawn /\ ReadsCommitted /\ NoDangling)'
    <2>1. /\ pc[a] = "inserted" /\ pc' = [pc EXCEPT ![a] = "idle"]
          /\ rows' = rows \cup {InFlight(a)} /\ log' = log \cup {InFlight(a)}
          /\ prev' = [prev EXCEPT ![a] = Genesis] /\ newId' = [newId EXCEPT ![a] = 0]
          /\ UNCHANGED nextId
      BY <1>5 DEF Commit, EndTransaction
    <2>2. InFlight(a).id = newId[a] /\ InFlight(a).prev = prev[a]
      BY DEF InFlight
    <2>3. IdsDrawn'
      BY <1>a, <2>1, <2>2 DEF IdsDrawn
    <2>4. ReadsCommitted'
      BY <1>a, <2>1 DEF ReadsCommitted
    <2>5. prev[a] = Genesis \/ \E q \in log : q.hash = prev[a] /\ q.id < newId[a]
      BY <2>1 DEF ReadsCommitted
    <2>6. NoDangling'
      BY <2>1, <2>2, <2>5 DEF NoDangling
    <2> QED
      BY <2>1, <2>3, <2>4, <2>6 DEF RowsInLog
  <1>6. ASSUME NEW a \in Appenders, Rollback(a)
        PROVE  (RowsInLog /\ IdsDrawn /\ ReadsCommitted /\ NoDangling)'
    <2>1. /\ pc' = [pc EXCEPT ![a] = "idle"] /\ prev' = [prev EXCEPT ![a] = Genesis]
          /\ newId' = [newId EXCEPT ![a] = 0] /\ UNCHANGED <<rows, log, nextId>>
      BY <1>6 DEF Rollback, EndTransaction
    <2> QED
      BY <1>a, <2>1 DEF RowsInLog, IdsDrawn, ReadsCommitted, NoDangling
  <1>7. ASSUME NEW b \in 0..MaxTime + 1, PruneSelect(b)
        PROVE  (RowsInLog /\ IdsDrawn /\ ReadsCommitted /\ NoDangling)'
    BY <1>7 DEF PruneSelect, RowsInLog, IdsDrawn, ReadsCommitted, NoDangling, appenderVars
  <1>8. CASE PruneDelete
    BY <1>8 DEF PruneDelete, KeepsFrom, RowsInLog, IdsDrawn, ReadsCommitted, NoDangling,
                appenderVars
  <1>9. CASE PruneVerify
    BY <1>9 DEF PruneVerify, RowsInLog, IdsDrawn, ReadsCommitted, NoDangling, appenderVars
  <1>10. CASE UNCHANGED vars
    BY <1>10 DEF vars, RowsInLog, IdsDrawn, ReadsCommitted, NoDangling
  <1> QED
    BY <1>1, <1>2, <1>3, <1>4, <1>5, <1>6, <1>7, <1>8, <1>9, <1>10
       DEF Next, AppendStep, PruneStep

(* Any number of racing appenders, rollbacks and prunes: a committed row   *)
(* always points at genesis or at an earlier committed row.                *)
THEOREM NeverDangles == Spec => []NoDangling
  <1>1. Init => DanglingInv
    <2>1. Init => RowsInLog /\ IdsDrawn /\ ReadsCommitted /\ NoDangling
      BY DEF Init, RowsInLog, IdsDrawn, ReadsCommitted, NoDangling
    <2> QED
      BY <2>1, TypeInit DEF DanglingInv
  <1>2. DanglingInv => NoDangling
    BY DEF DanglingInv
  <1> QED
    BY <1>1, <1>2, DanglingStep, PTL DEF Spec

-----------------------------------------------------------------------------
(* Appends that never overlapped, on one global chain. ChainLinear says    *)
(* nothing about the row being appended or about which row a prune leaves  *)
(* behind, so the invariant adds: one append is under way at most and has  *)
(* read the newest hash of the whole log, the surviving rows are an end    *)
(* segment of the log, the pruner's anchor is a surviving row, and hashes  *)
(* get longer with the ids.                                                *)

UniqueIds == \A r, q \in log : r.id = q.id => r = q

EndSegment == /\ \A r \in rows, q \in log : r.id <= q.id => q \in rows
              /\ log # {} => rows # {}

Chained == \A r \in log : /\ r.prev = LastHash(Before(log, r))
                          /\ r.hash = computeAuditHash(r.prev, r)

Growing == \A r, q \in log : q.id < r.id => Len(q.prev) < Len(r.prev)

ReaderCurrent == \A a \in Appenders : pc[a] # "idle" => prev[a] = LastHash(log)

InsertedFresh ==
    \A a \in Appenders : pc[a] = "inserted" => \A r \in log : r.id < newId[a]

AnchorHeld == prune.pc = "anchored" => \E r \in rows : r.id = prune.anchor

OneAppend == \A a, b \in Appenders : pc[a] # "idle" /\ pc[b] # "idle" => a = b

ChainInv == UniqueIds /\ EndSegment /\ Chained /\ Growing
ActorInv == ReaderCurrent /\ InsertedFresh /\ AnchorHeld /\ OneAppend
LinearInv == TypeInv /\ RowsInLog /\ IdsDrawn /\ ChainInv /\ ActorInv
ReportedOk == status # "chain_break"

SerialInv == TypeInv /\ (~raced /\ ~scoped => LinearInv /\ ReportedOk)

(* A row with the largest id of a set with unique ids is its newest row.   *)
LEMMA NewestIs ==
    ASSUME NEW S \in SUBSET Row, NEW x \in S, \A q \in S : q.id <= x.id,
           \A r, q \in S : r.id = q.id => r = q
    PROVE  Newest(S) = x
  <1>1. Newest(S) \in S /\ x.id <= Newest(S).id
    BY NewestExists
  <1>2. Newest(S).id = x.id
    BY <1>1 DEF Row
  <1> QED
    BY <1>1, <1>2

(* The surviving rows and the whole log have the same newest hash.         *)
LEMMA SameTip ==
    ASSUME rows \subseteq Row, log \subseteq Row, RowsInLog, UniqueIds, EndSegment
    PROVE  LastHash(rows) = LastHash(log)
  <1>1. CASE log = {}
    BY <1>1 DEF RowsInLog
  <1>2. CASE log # {}
    <2>1. rows # {}
      BY <1>2 DEF EndSegment
    <2>2. Newest(rows) \in rows /\ Newest(rows) \in log
      BY <2>1, NewestExists DEF RowsInLog
    <2>3. Newest(log) \in log /\ \A q \in log : q.id <= Newest(log).id
      BY <1>2, NewestExists
    <2>4. Newest(log) \in rows
      BY <2>2, <2>3 DEF EndSegment
    <2>5. Newest(rows) = Newest(log)
      BY <2>3, <2>4, NewestIs DEF RowsInLog, UniqueIds
    <2> QED
      BY <1>2, <2>1, <2>5 DEF LastHash
  <1> QED
    BY <1>1, <1>2

(* Committing a row that extends the newest hash under a fresh id keeps    *)
(* the log a single chain.                                                 *)
LEMMA ExtendChain ==
    ASSUME rows \subseteq Row, log \subseteq Row, RowsInLog, ChainInv,
           NEW n \in Row, \A q \in log : q.id < n.id,
           n.prev = LastHash(log), n.hash = computeAuditHash(n.prev, n),
           rows' = rows \cup {n}, log' = log \cup {n}
    PROVE  ChainInv'
  <1>0. \A q \in log : q.id \in Nat /\ q.prev \in Hash
    BY DEF Row
  <1>1. UniqueIds'
    BY <1>0 DEF ChainInv, UniqueIds, Row
  <1>2. EndSegment'
    <2>1. SUFFICES ASSUME NEW r \in rows', NEW q \in log', r.id <= q.id
                   PROVE  q \in rows'
      BY DEF EndSegment
    <2>2. CASE q = n
      BY <2>2
    <2>3. CASE q \in log /\ r \in rows
      BY <2>1, <2>3 DEF ChainInv, EndSegment
    <2>4. CASE q \in log /\ r = n
      BY <2>1, <2>4, <1>0 DEF Row
    <2> QED
      BY <2>1, <2>2, <2>3, <2>4
  <1>3. Chained'
    <2>1. \A r \in log : Before(log', r) = Before(log, r)
      BY <1>0 DEF Before, Row
    <2>2. Before(log', n) = log
      BY <1>0 DEF Before, Row
    <2>3. ASSUME NEW r \in log'
          PROVE  r.prev = LastHash(Before(log', r)) /\ r.hash = computeAuditHash(r.prev, r)
      <3>1. CASE r \in log
        BY <3>1, <2>1 DEF ChainInv, Chained
      <3>2. CASE r = n
        BY <3>2, <2>2
      <3> QED
        BY <3>1, <3>2
    <2> QED
      BY <2>3 DEF Chained
  <1>4. Growing'
    <2>1. \A q \in log : Len(q.prev) < Len(n.prev)
      <3>1. SUFFICES ASSUME NEW q \in log PROVE Len(q.prev) < Len(n.prev)
        OBVIOUS
      <3> DEFINE tip == Newest(log)
      <3>2. tip \in log /\ q.id <= tip.id
        BY NewestExists
      <3>3. n.prev = tip.hash /\ tip.hash = computeAuditHash(tip.prev, tip)
        BY <3>2 DEF LastHash, ChainInv, Chained
      <3>4. Len(n.prev) = Len(tip.prev) + 1 /\ Len(tip.prev) \in Nat /\ Len(q.prev) \in Nat
        <4>1. tip.prev \in Hash /\ q.prev \in Hash
          BY <3>2, <1>0
        <4>2. canonicalPayload(tip) \in Payload
          BY <3>2 DEF canonicalPayload, Payload, Row
        <4> QED
          BY <3>3, <4>1, <4>2 DEF computeAuditHash, Hash
      <3>5. CASE q.id = tip.id
        BY <3>2, <3>4, <3>5 DEF ChainInv, UniqueIds
      <3>6. CASE q.id < tip.id
        BY <3>2, <3>4, <3>6 DEF ChainInv, Growing
      <3> QED
        BY <3>2, <3>5, <3>6, <1>0
    <2> QED
      BY <2>1, <1>0 DEF ChainInv, Growing, Row
  <1> QED
    BY <1>1, <1>2, <1>3, <1>4 DEF ChainInv

(* Deleting the rows below a surviving row leaves an end segment.          *)
LEMMA TrimChain ==
    ASSUME rows \subseteq Row, log \subseteq Row, RowsInLog, ChainInv,
           NEW anchor \in rows, rows' = {r \in rows : r.id >= anchor.id}, log' = log
    PROVE  ChainInv'
  <1>1. anchor \in rows'
    BY DEF Row
  <1>2. \A r \in rows', q \in log' : r.id <= q.id => q \in rows'
    BY DEF ChainInv, EndSegment, Row
  <1>3. EndSegment'
    BY <1>1, <1>2 DEF EndSegment
  <1> QED
    BY <1>3 DEF ChainInv, UniqueIds, Chained, Growing

(* Every step of a single appender, of the pruner and of the clock         *)
(* preserves LinearInv.                                                    *)
LEMMA LinearStep ==
    ASSUME ~raced', ~scoped, LinearInv, [Next]_vars
    PROVE  LinearInv'
  <1> USE RowsAssumption DEF LinearInv, TypeInv
  <1>0. TypeInv'
    BY TypeStep
  <1>a. /\ rows \subseteq Row /\ log \subseteq Row /\ nextId \in Nat \ {0}
        /\ pc \in [Appenders -> {"idle", "read", "built", "inserted"}]
        /\ prev \in [Appenders -> Hash]
        /\ newId \in [Appenders -> 0..MaxRows]
        /\ \A r \in log : r.id \in Nat
    BY DEF TypeOK, Row
  <1>b. ASSUME UNCHANGED <<rows, log>>
        PROVE  ChainInv' /\ RowsInLog'
    BY <1>b DEF ChainInv, UniqueIds, EndSegment, Chained, Growing, RowsInLog
  <1>1. CASE Tick
    BY <1>0, <1>1, <1>b DEF Tick, IdsDrawn, ActorInv, ReaderCurrent, InsertedFresh,
                           AnchorHeld, OneAppend, appenderVars
  <1>2. ASSUME NEW a \in Appenders, NEW t \in Tenants, SelectLast(a, t)
        PROVE  LinearInv'
    <2>1. prev' = [prev EXCEPT ![a] = LastHash(rows)]
          /\ pc' = [pc EXCEPT ![a] = "read"]
          /\ UNCHANGED <<rows, log, nextId, newId, prune>>
          /\ \A b \in Appenders : pc[b] = "idle"
      BY <1>2 DEF SelectLast, Visible
    <2>2. LastHash(rows) = LastHash(log)
      BY <1>a, SameTip DEF ChainInv
    <2>3. ActorInv'
      BY <1>a, <2>1, <2>2 DEF ActorInv, ReaderCurrent, InsertedFresh, AnchorHeld, OneAppend
    <2> QED
      BY <1>0, <1>b, <2>1, <2>3 DEF IdsDrawn
  <1>3. ASSUME NEW a \in Appenders, BuildRow(a)
        PROVE  LinearInv'
    <2>1. pc[a] = "read" /\ pc' = [pc EXCEPT ![a] = "built"]
          /\ UNCHANGED <<rows, log, nextId, prev, newId, prune>>
      BY <1>3 DEF BuildRow
    <2> QED
      BY <1>0, <1>a, <1>b, <2>1
         DEF IdsDrawn, ActorInv, ReaderCurrent, InsertedFresh, AnchorHeld, OneAppend
  <1>4. ASSUME NEW a \in Appenders, InsertRow(a)
        PROVE  LinearInv'
    <2>1. /\ pc[a] = "built" /\ pc' = [pc EXCEPT ![a] = "inserted"]
          /\ newId' = [newId EXCEPT ![a] = nextId] /\ nextId' = nextId + 1
          /\ UNCHANGED <<rows, log, prev, prune>>
      BY <1>4 DEF InsertRow
    <2>2. IdsDrawn'
      BY <1>a, <2>1 DEF IdsDrawn
    <2>3. ActorInv'
      BY <1>a, <2>1 DEF IdsDrawn, ActorInv, ReaderCurrent, InsertedFresh, AnchorHeld, OneAppend
    <2> QED
      BY <1>0, <1>b, <2>1, <2>2, <2>3
  <1>5. ASSUME NEW a \in Appenders, Commit(a)
        PROVE  LinearInv'
    <2>1. /\ pc[a] = "inserted" /\ pc' = [pc EXCEPT ![a] = "idle"]
          /\ rows' = rows \cup {InFlight(a)} /\ log' = log \cup {InFlight(a)}
          /\ prev' = [prev EXCEPT ![a] = Genesis] /\ newId' = [newId EXCEPT ![a] = 0]
          /\ UNCHANGED <<nextId, prune>>
      BY <1>5 DEF Commit, EndTransaction
    <2>2. InFlight(a) \in Row /\ InFlight(a).id = newId[a] /\ InFlight(a).prev = prev[a]
      BY <2>1, InFlightType DEF IdsHeld, InFlight
    <2>3. InFlight(a).hash = computeAuditHash(prev[a], InFlight(a))
      BY DEF InFlight, computeAuditHash, canonicalPayload
    <2>4. prev[a] = LastHash(log) /\ \A q \in log : q.id < newId[a]
      BY <2>1 DEF ActorInv, ReaderCurrent, InsertedFresh
    <2>5. ChainInv'
      BY <1>a, <2>1, <2>2, <2>3, <2>4, ExtendChain
    <2>6. IdsDrawn' /\ RowsInLog'
      BY <1>a, <2>1, <2>2 DEF IdsDrawn, RowsInLog
    <2>7. ActorInv'
      BY <1>a, <2>1 DEF ActorInv, ReaderCurrent, InsertedFresh, AnchorHeld, OneAppend
    <2> QED
      BY <1>0, <2>5, <2>6, <2>7
  <1>6. ASSUME NEW a \in Appenders, Rollback(a)
        PROVE  LinearInv'
    <2>1. /\ pc' = [pc EXCEPT ![a] = "idle"] /\ prev' = [prev EXCEPT ![a] = Genesis]
          /\ newId' = [newId EXCEPT ![a] = 0] /\ UNCHANGED <<rows, log, nextId, prune>>
      BY <1>6 DEF Rollback, EndTransaction
    <2> QED
      BY <1>0, <1>a, <1>b, <2>1
         DEF IdsDrawn, ActorInv, ReaderCurrent, InsertedFresh, AnchorHeld, OneAppend
  <1>7. ASSUME NEW b \in 0..MaxTime + 1, PruneSelect(b)
        PROVE  LinearInv'
    <2>1. AnchorHeld'
      <3>1. CASE Expired(b) = {}
        BY <1>7, <3>1 DEF PruneSelect, AnchorHeld
      <3>2. CASE Expired(b) # {}
        <4>1. Newest(Expired(b)) \in rows
          <5>1. Expired(b) \in SUBSET Row /\ Expired(b) \subseteq rows
            BY <1>a DEF Expired
          <5> QED
            BY <5>1, <3>2, NewestExists
        <4> QED
          BY <1>7, <3>2, <4>1 DEF PruneSelect, AnchorHeld
      <3> QED
        BY <3>1, <3>2
    <2>2. UNCHANGED <<rows, log, nextId, pc, prev, newId>>
      BY <1>7 DEF PruneSelect, appenderVars
    <2> QED
      BY <1>0, <1>b, <2>1, <2>2 DEF IdsDrawn, ActorInv, ReaderCurrent, InsertedFresh, OneAppend
  <1>8. CASE PruneDelete
    <2>1. /\ rows' = {r \in rows : r.id >= prune.anchor} /\ prune' = [pc |-> "pruned", anchor |-> 0]
          /\ prune.pc = "anchored" /\ UNCHANGED <<log, nextId, pc, prev, newId>>
      BY <1>8 DEF PruneDelete, KeepsFrom, appenderVars
    <2>2. PICK anchor \in rows : anchor.id = prune.anchor
      BY <2>1 DEF ActorInv, AnchorHeld
    <2>3. ChainInv'
      BY <1>a, <2>1, <2>2, TrimChain
    <2>4. prune'.pc = "pruned"
      BY <2>1 DEF TypeOK
    <2> QED
      BY <1>0, <2>1, <2>3, <2>4 DEF RowsInLog, IdsDrawn, ActorInv, ReaderCurrent,
                                     InsertedFresh, AnchorHeld, OneAppend
  <1>9. CASE PruneVerify
    <2>1. UNCHANGED <<rows, log, nextId, pc, prev, newId>> /\ prune'.pc = "idle"
      BY <1>9 DEF PruneVerify, appenderVars, TypeOK
    <2> QED
      BY <1>0, <1>b, <2>1 DEF IdsDrawn, ActorInv, ReaderCurrent, InsertedFresh, AnchorHeld, OneAppend
  <1>10. CASE UNCHANGED vars
    BY <1>0, <1>10, <1>b DEF vars, IdsDrawn, ActorInv, ReaderCurrent, InsertedFresh, AnchorHeld, OneAppend
  <1> QED
    BY <1>1, <1>2, <1>3, <1>4, <1>5, <1>6, <1>7, <1>8, <1>9, <1>10
       DEF Next, AppendStep, PruneStep

(* The initial state satisfies LinearInv.                                  *)
LEMMA LinearInit == Init => LinearInv
  <1>1. Init => RowsInLog /\ IdsDrawn /\ ChainInv /\ ActorInv
    BY DEF Init, RowsInLog, IdsDrawn, ChainInv, UniqueIds, EndSegment, Chained, Growing,
           ActorInv, ReaderCurrent, InsertedFresh, AnchorHeld, OneAppend
  <1> QED
    BY <1>1, TypeInit DEF LinearInv

(* LinearInv makes the chain linear.                                       *)
LEMMA LinearSafe ==
    ASSUME LinearInv
    PROVE  ChainLinear
  <1>1. SUFFICES ASSUME NEW r \in log, NEW q \in log, r.prev = q.prev, r # q
                 PROVE  FALSE
    BY DEF ChainLinear
  <1>2. r.id \in Nat /\ q.id \in Nat /\ Len(r.prev) \in Nat
    BY DEF LinearInv, TypeInv, TypeOK, Row, Hash
  <1>3. r.id # q.id
    BY <1>1 DEF LinearInv, ChainInv, UniqueIds
  <1>4. Len(q.prev) < Len(r.prev) \/ Len(r.prev) < Len(q.prev)
    BY <1>2, <1>3 DEF LinearInv, ChainInv, Growing
  <1> QED
    BY <1>1, <1>2, <1>4

(* LinearInv makes the surviving rows a segment the verifier accepts.      *)
LEMMA SegmentSafe ==
    ASSUME LinearInv
    PROVE  verifyAuditChainSegment(rows) = {}
  <1>1. SUFFICES ASSUME NEW r \in rows
                 PROVE  r.hash = computeAuditHash(
                          IF Before(rows, r) = {} THEN r.prev
                          ELSE Newest(Before(rows, r)).hash, r)
    BY DEF verifyAuditChainSegment
  <1>a. rows \subseteq Row /\ log \subseteq Row /\ r \in log
    BY DEF LinearInv, TypeInv, TypeOK, RowsInLog
  <1>2. r.hash = computeAuditHash(r.prev, r) /\ r.prev = LastHash(Before(log, r))
    BY <1>a DEF LinearInv, ChainInv, Chained
  <1>3. CASE Before(rows, r) = {}
    BY <1>2, <1>3
  <1>4. CASE Before(rows, r) # {}
    <2> DEFINE x == Newest(Before(rows, r))
    <2> DEFINE y == Newest(Before(log, r))
    <2>1. Before(rows, r) \in SUBSET Row /\ Before(log, r) \in SUBSET Row
      BY <1>a DEF Before
    <2>2. Before(rows, r) \subseteq Before(log, r)
      BY DEF Before, LinearInv, RowsInLog
    <2>3. x \in Before(rows, r) /\ \A q \in Before(rows, r) : q.id <= x.id
      BY <1>4, <2>1, NewestExists
    <2>4. y \in Before(log, r) /\ x.id <= y.id
      BY <1>4, <2>1, <2>2, <2>3, NewestExists
    <2>5. y \in Before(rows, r)
      BY <2>3, <2>4 DEF Before, LinearInv, ChainInv, EndSegment
    <2>6. x.id = y.id
      BY <2>1, <2>3, <2>4, <2>5 DEF Row
    <2>7. x = y
      BY <2>2, <2>3, <2>4, <2>6 DEF Before, LinearInv, ChainInv, UniqueIds
    <2>8. LastHash(Before(log, r)) = y.hash
      BY <2>4 DEF LastHash
    <2> QED
      BY <1>2, <1>4, <2>7, <2>8
  <1> QED
    BY <1>3, <1>4

(* Overlap is remembered, and while there was none every step preserves    *)
(* LinearInv and every re-verification of a prune succeeds.                *)
LEMMA SerialStep ==
    ASSUME SerialInv, [Next]_vars
    PROVE  SerialInv'
  <1>1. TypeInv'
    BY TypeStep DEF SerialInv
  <1>2. SUFFICES ASSUME ~raced', ~scoped'
                 PROVE  LinearInv' /\ ReportedOk'
    BY <1>1 DEF SerialInv
  <1>3. raced \in BOOLEAN /\ scoped \in BOOLEAN
    BY DEF SerialInv, TypeInv, TypeOK
  <1>4. ~raced /\ ~scoped
    BY <1>2, <1>3, Zenon
       DEF Next, AppendStep, PruneStep, Tick, SelectLast, BuildRow, InsertRow, Commit, Rollback,
           PruneSelect, PruneDelete, PruneVerify, vars
  <1>5. LinearInv /\ ReportedOk
    BY <1>4 DEF SerialInv
  <1>6. LinearInv'
    BY <1>2, <1>4, <1>5, LinearStep
  <1>7. CASE PruneVerify
    BY <1>5, <1>6, <1>7, SegmentSafe DEF PruneVerify, ReportedOk
  <1>8. CASE ~PruneVerify
    <2>1. status' = status
      BY <1>8, Zenon
         DEF Next, AppendStep, PruneStep, Tick, SelectLast, BuildRow, InsertRow, Commit, Rollback,
             PruneSelect, PruneDelete, vars
    <2> QED
      BY <1>5, <1>6, <2>1 DEF ReportedOk
  <1> QED
    BY <1>6, <1>7, <1>8

(* The initial state satisfies SerialInv.                                  *)
LEMMA SerialInit == Init => SerialInv
  BY LinearInit, TypeInit DEF Init, SerialInv, ReportedOk

(* Any number of appenders whose appends never overlapped, on one global   *)
(* chain, with any number of prunes and rollbacks at any moment: no two    *)
(* rows ever share a predecessor.                                          *)
THEOREM SerialAppendsLinear == Spec => []SerialChain
  <1>1. SerialInv => SerialChain
    BY LinearSafe DEF SerialInv, SerialChain
  <1> QED
    BY <1>1, SerialInit, SerialStep, PTL DEF Spec

(* Under the same conditions what survives a prune always verifies as a    *)
(* segment, and no prune has ever reported a break.                        *)
THEOREM SerialAppendsVerify == Spec => []SerialSegment
  <1>1. SerialInv => SerialSegment
    BY SegmentSafe DEF SerialInv, SerialSegment, ReportedOk
  <1> QED
    BY <1>1, SerialInit, SerialStep, PTL DEF Spec

-----------------------------------------------------------------------------
(* The pruner's DELETE, with any number of appends racing it. The anchor   *)
(* its SELECT found is still in the table, because nobody else deletes,    *)
(* and the sequence never hands out an id twice, so the newest row is one  *)
(* row and not older than the anchor.                                      *)

InsertedUnique ==
    \A a \in Appenders : pc[a] = "inserted" =>
        /\ \A r \in log : r.id # newId[a]
        /\ \A b \in Appenders : pc[b] = "inserted" /\ newId[b] = newId[a] => a = b

TipInv == TypeInv /\ RowsInLog /\ IdsDrawn /\ UniqueIds /\ InsertedUnique /\ AnchorHeld

(* Every step preserves TipInv, whether appends overlap or not.            *)
LEMMA TipStep ==
    ASSUME TipInv, [Next]_vars
    PROVE  TipInv'
  <1> USE RowsAssumption DEF TipInv, TypeInv
  <1>0. TypeInv'
    BY TypeStep
  <1>a. /\ rows \subseteq Row /\ log \subseteq Row /\ nextId \in Nat \ {0}
        /\ pc \in [Appenders -> {"idle", "read", "built", "inserted"}]
        /\ newId \in [Appenders -> 0..MaxRows]
        /\ \A r \in log : r.id \in Nat
    BY DEF TypeOK, Row
  <1>1. CASE Tick
    BY <1>0, <1>1 DEF Tick, RowsInLog, IdsDrawn, UniqueIds, InsertedUnique, AnchorHeld, appenderVars
  <1>2. ASSUME NEW a \in Appenders, NEW t \in Tenants, SelectLast(a, t)
        PROVE  TipInv'
    BY <1>0, <1>2, <1>a DEF SelectLast, RowsInLog, IdsDrawn, UniqueIds, InsertedUnique, AnchorHeld
  <1>3. ASSUME NEW a \in Appenders, BuildRow(a)
        PROVE  TipInv'
    BY <1>0, <1>3, <1>a DEF BuildRow, RowsInLog, IdsDrawn, UniqueIds, InsertedUnique, AnchorHeld
  <1>4. ASSUME NEW a \in Appenders, InsertRow(a)
        PROVE  TipInv'
    <2>1. /\ pc[a] = "built" /\ pc' = [pc EXCEPT ![a] = "inserted"]
          /\ newId' = [newId EXCEPT ![a] = nextId] /\ nextId' = nextId + 1
          /\ UNCHANGED <<rows, log, prune>>
      BY <1>4 DEF InsertRow
    <2>2. IdsDrawn'
      BY <1>a, <2>1 DEF IdsDrawn
    <2>3. InsertedUnique'
      BY <1>a, <2>1 DEF IdsDrawn, InsertedUnique
    <2> QED
      BY <1>0, <2>1, <2>2, <2>3 DEF RowsInLog, UniqueIds, AnchorHeld
  <1>5. ASSUME NEW a \in Appenders, Commit(a)
        PROVE  TipInv'
    <2>1. /\ pc[a] = "inserted" /\ pc' = [pc EXCEPT ![a] = "idle"]
          /\ rows' = rows \cup {InFlight(a)} /\ log' = log \cup {InFlight(a)}
          /\ newId' = [newId EXCEPT ![a] = 0] /\ UNCHANGED <<nextId, prune>>
      BY <1>5 DEF Commit, EndTransaction
    <2>2. InFlight(a).id = newId[a]
      BY DEF InFlight
    <2>3. IdsDrawn' /\ UniqueIds'
      BY <1>a, <2>1, <2>2 DEF IdsDrawn, UniqueIds, InsertedUnique
    <2>4. InsertedUnique'
      BY <1>a, <2>1, <2>2 DEF InsertedUnique
    <2> QED
      BY <1>0, <2>1, <2>3, <2>4 DEF RowsInLog, AnchorHeld
  <1>6. ASSUME NEW a \in Appenders, Rollback(a)
        PROVE  TipInv'
    <2>1. /\ pc' = [pc EXCEPT ![a] = "idle"] /\ newId' = [newId EXCEPT ![a] = 0]
          /\ UNCHANGED <<rows, log, nextId, prune>>
      BY <1>6 DEF Rollback, EndTransaction
    <2> QED
      BY <1>0, <1>a, <2>1 DEF RowsInLog, IdsDrawn, UniqueIds, InsertedUnique, AnchorHeld
  <1>7. ASSUME NEW b \in 0..MaxTime + 1, PruneSelect(b)
        PROVE  TipInv'
    <2>1. CASE Expired(b) = {}
      BY <1>0, <1>7, <2>1 DEF PruneSelect, appenderVars, RowsInLog, IdsDrawn, UniqueIds,
                              InsertedUnique, AnchorHeld
    <2>2. CASE Expired(b) # {}
      <3>1. Newest(Expired(b)) \in rows
        BY <1>a, <2>2, NewestExists DEF Expired
      <3> QED
        BY <1>0, <1>7, <2>2, <3>1 DEF PruneSelect, appenderVars, RowsInLog, IdsDrawn, UniqueIds,
                                      InsertedUnique, AnchorHeld
    <2> QED
      BY <2>1, <2>2
  <1>8. CASE PruneDelete
    BY <1>0, <1>8 DEF PruneDelete, KeepsFrom, appenderVars, RowsInLog, IdsDrawn, UniqueIds,
                      InsertedUnique, AnchorHeld
  <1>9. CASE PruneVerify
    <2>1. prune'.pc = "idle"
      BY <1>9 DEF PruneVerify, TypeOK
    <2> QED
      BY <1>0, <1>9, <2>1 DEF PruneVerify, appenderVars, RowsInLog, IdsDrawn, UniqueIds,
                              InsertedUnique, AnchorHeld
  <1>10. CASE UNCHANGED vars
    BY <1>0, <1>10 DEF vars, RowsInLog, IdsDrawn, UniqueIds, InsertedUnique, AnchorHeld
  <1> QED
    BY <1>1, <1>2, <1>3, <1>4, <1>5, <1>6, <1>7, <1>8, <1>9, <1>10
       DEF Next, AppendStep, PruneStep

(* Deleting the rows below one that is still there leaves the newest row.  *)
LEMMA DeleteKeepsTip ==
    ASSUME TipInv, PruneDelete
    PROVE  LastHash(rows') = LastHash(rows)
  <1>a. rows \subseteq Row /\ \A r, q \in rows : r.id = q.id => r = q
    BY DEF TipInv, TypeInv, TypeOK, RowsInLog, UniqueIds
  <1>1. rows' = {r \in rows : r.id >= prune.anchor}
    BY DEF PruneDelete, KeepsFrom
  <1>2. PICK anchor \in rows : anchor.id = prune.anchor
    BY DEF PruneDelete, TipInv, AnchorHeld
  <1>3. Newest(rows) \in rows /\ \A q \in rows : q.id <= Newest(rows).id
    BY <1>a, <1>2, NewestExists
  <1>4. Newest(rows) \in rows'
    BY <1>a, <1>1, <1>2, <1>3 DEF Row
  <1>5. Newest(rows') = Newest(rows)
    BY <1>a, <1>1, <1>3, <1>4, NewestIs
  <1> QED
    BY <1>2, <1>4, <1>5 DEF LastHash

(* A prune never removes the row the next global append chains to, however *)
(* many appends were committed, rolled back or left half done between the  *)
(* pruner's SELECT and its DELETE.                                         *)
THEOREM PrunesKeepTheTip == Spec => PruneKeepsTip
  <1>1. Init => TipInv
    <2>1. Init => RowsInLog /\ IdsDrawn /\ UniqueIds /\ InsertedUnique /\ AnchorHeld
      BY DEF Init, RowsInLog, IdsDrawn, UniqueIds, InsertedUnique, AnchorHeld
    <2> QED
      BY <2>1, TypeInit DEF TipInv
  <1>2. TipInv => [PruneDelete => LastHash(rows') = LastHash(rows)]_vars
    BY DeleteKeepsTip
  <1> QED
    BY <1>1, <1>2, TipStep, PTL DEF Spec, PruneKeepsTip
-----------------------------------------------------------------------------
(* Archives. While appends never overlapped, rows are committed in the     *)
(* order of their timestamps, so whatever the pruner cuts off below its    *)
(* anchor is as old as the anchor, and under row-level security each       *)
(* installation's surviving rows are a chain of their own. A prune may     *)
(* remove the whole chain of an installation: its next row then restarts   *)
(* at genesis and is the oldest of its slice. The appender may have read   *)
(* before that prune, so what it read is the newest hash or of no          *)
(* consequence.                                                            *)

Own(t, S) == {r \in S : r.tenant = t}

Follows(h, S) == S = {} \/ h = Newest(S).hash

TimeOrder == \A r, q \in rows : q.id < r.id => q.ts <= r.ts

RowsPast == \A r \in rows : r.ts <= clock

DraftNewest ==
    \A a \in Appenders : pc[a] \in {"built", "inserted"} =>
        draft[a].ts <= clock /\ \A r \in rows : r.ts <= draft[a].ts

AnchorOld == prune.pc = "anchored" => \E r \in rows : r.id = prune.anchor /\ r.ts < boundary

Retained == \A r \in log \ rows : r.ts < boundary

ChainedOwn == \A r \in rows : /\ r.hash = computeAuditHash(r.prev, r)
                              /\ Follows(r.prev, Before(Own(r.tenant, rows), r))

ReaderOwn == \A a \in Appenders : pc[a] # "idle" => Follows(prev[a], Own(draft[a].tenant, rows))

OrderInv == /\ RowsInLog /\ IdsDrawn /\ UniqueIds /\ OneAppend /\ InsertedFresh
            /\ TimeOrder /\ RowsPast /\ DraftNewest /\ AnchorOld /\ Retained
OwnInv == ChainedOwn /\ ReaderOwn

ArchiveInv == TypeInv /\ (~raced => OrderInv /\ (scoped => OwnInv))

(* While appends do not overlap, every step keeps the rows in the order of *)
(* their timestamps and the deleted ones older than the pruner's cut-off.  *)
LEMMA OrderStep ==
    ASSUME TypeInv, OrderInv, ~raced', [Next]_vars
    PROVE  OrderInv'
  <1> USE RowsAssumption, TimeAssumption DEF OrderInv, TypeInv
  <1>a. /\ rows \subseteq Row /\ log \subseteq Row /\ nextId \in Nat \ {0} /\ clock \in Nat
        /\ pc \in [Appenders -> {"idle", "read", "built", "inserted"}]
        /\ newId \in [Appenders -> 0..MaxRows] /\ draft \in [Appenders -> Payload]
        /\ boundary \in Nat
        /\ \A r \in log : r.id \in Nat /\ r.ts \in Nat
        /\ \A r \in rows : r.id \in Nat /\ r.ts \in Nat
        /\ \A a \in Appenders : draft[a].ts \in Nat
    BY DEF TypeOK, Row, Payload
  <1>b. ASSUME UNCHANGED <<rows, log>>
        PROVE  RowsInLog' /\ UniqueIds' /\ TimeOrder'
    BY <1>b DEF RowsInLog, UniqueIds, TimeOrder
  <1>1. CASE Tick
    <2>1. clock' = clock + 1
          /\ UNCHANGED <<rows, log, nextId, pc, draft, newId, prune, boundary>>
      BY <1>1 DEF Tick, appenderVars
    <2>2. RowsPast' /\ DraftNewest'
      BY <1>a, <2>1 DEF RowsPast, DraftNewest
    <2> QED
      BY <1>b, <2>1, <2>2 DEF IdsDrawn, OneAppend, InsertedFresh, AnchorOld, Retained
  <1>2. ASSUME NEW a \in Appenders, NEW t \in Tenants, SelectLast(a, t)
        PROVE  OrderInv'
    <2>1. /\ pc' = [pc EXCEPT ![a] = "read"] /\ \A b \in Appenders : pc[b] = "idle"
          /\ UNCHANGED <<clock, rows, log, nextId, newId, prune, boundary>>
      BY <1>2 DEF SelectLast
    <2> QED
      BY <1>a, <1>b, <2>1 DEF IdsDrawn, OneAppend, InsertedFresh, RowsPast, DraftNewest, AnchorOld,
                              Retained
  <1>3. ASSUME NEW a \in Appenders, BuildRow(a)
        PROVE  OrderInv'
    <2>1. /\ pc[a] = "read" /\ pc' = [pc EXCEPT ![a] = "built"]
          /\ draft' = [draft EXCEPT ![a].ts = clock]
          /\ UNCHANGED <<clock, rows, log, nextId, newId, prune, boundary>>
      BY <1>3 DEF BuildRow
    <2>2. draft'[a].ts = clock /\ \A b \in Appenders \ {a} : draft'[b] = draft[b]
      BY <1>a, <2>1 DEF Payload
    <2>3. DraftNewest'
      BY <1>a, <2>1, <2>2 DEF DraftNewest, RowsPast
    <2> QED
      BY <1>a, <1>b, <2>1, <2>3 DEF IdsDrawn, OneAppend, InsertedFresh, RowsPast, AnchorOld, Retained
  <1>4. ASSUME NEW a \in Appenders, InsertRow(a)
        PROVE  OrderInv'
    <2>1. /\ pc[a] = "built" /\ pc' = [pc EXCEPT ![a] = "inserted"]
          /\ newId' = [newId EXCEPT ![a] = nextId] /\ nextId' = nextId + 1
          /\ UNCHANGED <<clock, rows, log, draft, prune, boundary>>
      BY <1>4 DEF InsertRow
    <2>2. IdsDrawn' /\ InsertedFresh'
      BY <1>a, <2>1 DEF IdsDrawn, InsertedFresh
    <2>3. OneAppend' /\ DraftNewest'
      BY <1>a, <2>1 DEF OneAppend, DraftNewest
    <2> QED
      BY <1>b, <2>1, <2>2, <2>3 DEF RowsPast, AnchorOld, Retained
  <1>5. ASSUME NEW a \in Appenders, Commit(a)
        PROVE  OrderInv'
    <2>1. /\ pc[a] = "inserted" /\ pc' = [pc EXCEPT ![a] = "idle"]
          /\ rows' = rows \cup {InFlight(a)} /\ log' = log \cup {InFlight(a)}
          /\ newId' = [newId EXCEPT ![a] = 0] /\ draft' = [draft EXCEPT ![a] = NoDraft]
          /\ UNCHANGED <<clock, nextId, prune, boundary>>
      BY <1>5 DEF Commit, EndTransaction
    <2>2. InFlight(a).id = newId[a] /\ InFlight(a).ts = draft[a].ts
      BY DEF InFlight
    <2>3. \A r \in log : r.id < newId[a]
      BY <2>1 DEF InsertedFresh
    <2>4. draft[a].ts <= clock /\ \A r \in rows : r.ts <= draft[a].ts
      BY <2>1 DEF DraftNewest
    <2>5. RowsInLog' /\ UniqueIds' /\ IdsDrawn'
      BY <1>a, <2>1, <2>2, <2>3 DEF RowsInLog, UniqueIds, IdsDrawn
    <2>6. TimeOrder' /\ RowsPast'
      BY <1>a, <2>1, <2>2, <2>3, <2>4 DEF TimeOrder, RowsPast, RowsInLog
    <2>7. \A b \in Appenders : pc'[b] = "idle"
      BY <1>a, <2>1 DEF OneAppend
    <2>8. OneAppend' /\ InsertedFresh' /\ DraftNewest'
      BY <2>7 DEF OneAppend, InsertedFresh, DraftNewest
    <2>9. AnchorOld' /\ Retained'
      BY <2>1 DEF AnchorOld, Retained
    <2> QED
      BY <2>5, <2>6, <2>8, <2>9
  <1>6. ASSUME NEW a \in Appenders, Rollback(a)
        PROVE  OrderInv'
    <2>1. /\ pc' = [pc EXCEPT ![a] = "idle"] /\ newId' = [newId EXCEPT ![a] = 0]
          /\ draft' = [draft EXCEPT ![a] = NoDraft]
          /\ UNCHANGED <<clock, rows, log, nextId, prune, boundary>>
      BY <1>6 DEF Rollback, EndTransaction
    <2>2. OneAppend' /\ InsertedFresh' /\ IdsDrawn' /\ DraftNewest'
      BY <1>a, <2>1 DEF OneAppend, InsertedFresh, IdsDrawn, DraftNewest
    <2> QED
      BY <1>b, <2>1, <2>2 DEF RowsPast, AnchorOld, Retained
  <1>7. ASSUME NEW b \in 0..MaxTime + 1, PruneSelect(b)
        PROVE  OrderInv'
    <2>1. UNCHANGED <<clock, rows, log, nextId, pc, draft, newId>> /\ b <= boundary'
          /\ boundary <= boundary' /\ boundary' \in Nat
      BY <1>7, <1>a DEF PruneSelect, appenderVars
    <2>2. AnchorOld'
      <3>1. CASE Expired(b) = {}
        BY <1>7, <3>1 DEF PruneSelect, AnchorOld
      <3>2. CASE Expired(b) # {}
        <4>1. Newest(Expired(b)) \in Expired(b)
          BY <1>a, <3>2, NewestExists DEF Expired
        <4>2. Newest(Expired(b)) \in rows /\ Newest(Expired(b)).ts < b
          BY <4>1 DEF Expired
        <4>3. prune'.anchor = Newest(Expired(b)).id
          BY <1>7, <3>2 DEF PruneSelect
        <4> QED
          BY <1>a, <2>1, <4>2, <4>3 DEF AnchorOld
      <3> QED
        BY <3>1, <3>2
    <2>3. Retained'
      BY <1>a, <2>1 DEF Retained
    <2> QED
      BY <1>b, <2>1, <2>2, <2>3 DEF IdsDrawn, OneAppend, InsertedFresh, RowsPast, DraftNewest
  <1>8. CASE PruneDelete
    <2>1. /\ rows' = {r \in rows : r.id >= prune.anchor} /\ prune' = [pc |-> "pruned", anchor |-> 0]
          /\ prune.pc = "anchored" /\ UNCHANGED <<clock, log, nextId, pc, draft, newId, boundary>>
      BY <1>8 DEF PruneDelete, KeepsFrom, appenderVars
    <2>2. PICK anchor \in rows : anchor.id = prune.anchor /\ anchor.ts < boundary
      BY <2>1 DEF AnchorOld
    <2>3. Retained'
      <3>1. SUFFICES ASSUME NEW r \in log, r \notin rows' PROVE r.ts < boundary
        BY <2>1 DEF Retained
      <3>2. CASE r \notin rows
        BY <3>2 DEF Retained
      <3>3. CASE r \in rows
        <4>1. r.id < anchor.id
          BY <1>a, <2>1, <2>2, <3>1, <3>3
        <4>2. r.ts <= anchor.ts
          BY <2>2, <3>3, <4>1 DEF TimeOrder
        <4> QED
          BY <1>a, <2>2, <3>3, <4>2
      <3> QED
        BY <3>2, <3>3
    <2>4. AnchorOld'
      BY <2>1 DEF AnchorOld
    <2> QED
      BY <2>1, <2>3, <2>4 DEF RowsInLog, UniqueIds, TimeOrder, IdsDrawn, OneAppend, InsertedFresh,
                              RowsPast, DraftNewest
  <1>9. CASE PruneVerify
    <2>1. UNCHANGED <<clock, rows, log, nextId, pc, draft, newId, boundary>> /\ prune'.pc = "idle"
      BY <1>9 DEF PruneVerify, appenderVars, TypeOK
    <2> QED
      BY <1>b, <2>1 DEF IdsDrawn, OneAppend, InsertedFresh, RowsPast, DraftNewest, AnchorOld, Retained
  <1>10. CASE UNCHANGED vars
    BY <1>10, <1>b DEF vars, IdsDrawn, OneAppend, InsertedFresh, RowsPast, DraftNewest, AnchorOld,
                       Retained
  <1> QED
    BY <1>1, <1>2, <1>3, <1>4, <1>5, <1>6, <1>7, <1>8, <1>9, <1>10
       DEF Next, AppendStep, PruneStep

(* Cutting rows off below an id leaves what followed a set's newest row    *)
(* following it, or nothing to follow.                                     *)
LEMMA FollowsTrimmed ==
    ASSUME NEW S \in SUBSET Row, NEW n \in Int, NEW h, Follows(h, S),
           \A r, q \in S : r.id = q.id => r = q
    PROVE  Follows(h, {r \in S : r.id >= n})
  <1> DEFINE T == {r \in S : r.id >= n}
  <1>1. SUFFICES ASSUME T # {} PROVE h = Newest(T).hash
    BY DEF Follows
  <1>2. PICK x \in S : x.id >= n
    BY <1>1
  <1>3. Newest(S) \in S /\ \A q \in S : q.id <= Newest(S).id
    BY <1>2, NewestExists
  <1>4. Newest(S) \in T
    BY <1>2, <1>3, RowsAssumption DEF Row
  <1>5. Newest(T) = Newest(S)
    BY <1>3, <1>4, NewestIs
  <1> QED
    BY <1>2, <1>5 DEF Follows

(* Under row-level security, while appends do not overlap, every step      *)
(* keeps each installation's surviving rows a chain, and the appender at   *)
(* work extends it.                                                        *)
LEMMA OwnStep ==
    ASSUME TypeInv, OrderInv, OwnInv, scoped, ~raced', [Next]_vars
    PROVE  OwnInv'
  <1> USE RowsAssumption DEF OwnInv, TypeInv
  <1>a. /\ rows \subseteq Row /\ log \subseteq Row
        /\ pc \in [Appenders -> {"idle", "read", "built", "inserted"}]
        /\ prev \in [Appenders -> Hash] /\ draft \in [Appenders -> Payload]
        /\ \A r \in rows : r.id \in Nat
        /\ \A r, q \in rows : r.id = q.id => r = q
    BY DEF TypeOK, Row, OrderInv, RowsInLog, UniqueIds
  <1>b. ASSUME UNCHANGED rows
        PROVE  ChainedOwn' /\ \A t \in Tenants : Own(t, rows') = Own(t, rows)
    BY <1>b DEF ChainedOwn, Own
  <1>c. \A a \in Appenders : draft[a].tenant \in Tenants
    BY <1>a DEF Payload
  <1>d. ASSUME UNCHANGED <<rows, pc, prev, draft>>
        PROVE  OwnInv'
    BY <1>b, <1>c, <1>d DEF ReaderOwn
  <1>1. ASSUME NEW a \in Appenders, NEW t \in Tenants, SelectLast(a, t)
        PROVE  OwnInv'
    <2>1. /\ prev' = [prev EXCEPT ![a] = LastHash(Visible(t, rows))]
          /\ pc' = [pc EXCEPT ![a] = "read"] /\ draft' = [draft EXCEPT ![a].tenant = t]
          /\ UNCHANGED rows /\ \A b \in Appenders : pc[b] = "idle"
      BY <1>1 DEF SelectLast
    <2>2. draft'[a].tenant = t
      BY <1>a, <2>1 DEF Payload
    <2>3. prev'[a] = LastHash(Own(t, rows))
      BY <1>a, <2>1 DEF Visible, Own
    <2>4. ReaderOwn'
      BY <1>a, <1>b, <2>1, <2>2, <2>3 DEF ReaderOwn, Follows, LastHash
    <2> QED
      BY <1>b, <2>1, <2>4
  <1>2. ASSUME NEW a \in Appenders, BuildRow(a)
        PROVE  OwnInv'
    <2>1. /\ pc[a] = "read" /\ pc' = [pc EXCEPT ![a] = "built"]
          /\ draft' = [draft EXCEPT ![a].ts = clock] /\ UNCHANGED <<rows, prev>>
      BY <1>2 DEF BuildRow
    <2>2. \A b \in Appenders : draft'[b].tenant = draft[b].tenant
      BY <1>a, <2>1 DEF Payload
    <2>3. ReaderOwn'
      BY <1>a, <1>b, <1>c, <2>1, <2>2 DEF ReaderOwn
    <2> QED
      BY <1>b, <2>1, <2>3
  <1>3. ASSUME NEW a \in Appenders, InsertRow(a)
        PROVE  OwnInv'
    <2>1. /\ pc[a] = "built" /\ pc' = [pc EXCEPT ![a] = "inserted"]
          /\ UNCHANGED <<rows, prev, draft>>
      BY <1>3 DEF InsertRow
    <2>2. ReaderOwn'
      BY <1>a, <1>b, <1>c, <2>1 DEF ReaderOwn
    <2> QED
      BY <1>b, <2>1, <2>2
  <1>4. ASSUME NEW a \in Appenders, Commit(a)
        PROVE  OwnInv'
    <2> DEFINE n == InFlight(a)
    <2>1. /\ pc[a] = "inserted" /\ pc' = [pc EXCEPT ![a] = "idle"] /\ rows' = rows \cup {n}
      BY <1>4 DEF Commit, EndTransaction
    <2>2. /\ n.id = newId[a] /\ n.prev = prev[a] /\ n.tenant = draft[a].tenant
          /\ n.hash = computeAuditHash(prev[a], n)
      BY DEF InFlight, computeAuditHash, canonicalPayload
    <2>3. n.id \in Nat /\ \A r \in rows : r.id < n.id
      BY <1>a, <2>1, <2>2 DEF OrderInv, RowsInLog, InsertedFresh, TypeOK
    <2>4. Follows(n.prev, Own(n.tenant, rows))
      BY <2>1, <2>2 DEF ReaderOwn
    <2>5. ASSUME NEW r \in rows
          PROVE  Before(Own(r.tenant, rows'), r) = Before(Own(r.tenant, rows), r)
      BY <1>a, <2>1, <2>3 DEF Before, Own
    <2>6. Before(Own(n.tenant, rows'), n) = Own(n.tenant, rows)
      BY <1>a, <2>1, <2>3 DEF Before, Own
    <2>7. ChainedOwn'
      <3> HIDE DEF n
      <3>1. SUFFICES ASSUME NEW r \in rows'
                     PROVE  /\ r.hash = computeAuditHash(r.prev, r)
                            /\ Follows(r.prev, Before(Own(r.tenant, rows'), r))
        BY DEF ChainedOwn
      <3>2. CASE r \in rows
        BY <3>2, <2>5 DEF ChainedOwn
      <3>3. CASE r = n
        BY <3>3, <2>2, <2>4, <2>6
      <3> QED
        BY <2>1, <3>2, <3>3
    <2>8. \A b \in Appenders : pc'[b] = "idle"
      BY <1>a, <2>1 DEF OrderInv, OneAppend
    <2> QED
      BY <2>7, <2>8 DEF ReaderOwn
  <1>5. ASSUME NEW a \in Appenders, Rollback(a)
        PROVE  OwnInv'
    <2>1. pc[a] # "idle" /\ pc' = [pc EXCEPT ![a] = "idle"] /\ UNCHANGED rows
      BY <1>5 DEF Rollback, EndTransaction
    <2>2. \A b \in Appenders : pc'[b] = "idle"
      BY <1>a, <2>1 DEF OrderInv, OneAppend
    <2> QED
      BY <1>b, <2>1, <2>2 DEF ReaderOwn
  <1>6. CASE PruneDelete
    <2>1. rows' = {r \in rows : r.id >= prune.anchor} /\ UNCHANGED <<pc, prev, draft>>
      BY <1>6 DEF PruneDelete, KeepsFrom, appenderVars
    <2>2. prune.anchor \in Int
      BY DEF TypeOK
    <2>3. \A t \in Tenants : Own(t, rows') = {r \in Own(t, rows) : r.id >= prune.anchor}
      BY <2>1 DEF Own
    <2>4. ReaderOwn'
      <3>1. SUFFICES ASSUME NEW a \in Appenders, pc[a] # "idle"
                     PROVE  Follows(prev[a], Own(draft[a].tenant, rows'))
        BY <2>1 DEF ReaderOwn
      <3>2. Follows(prev[a], Own(draft[a].tenant, rows))
        BY <3>1 DEF ReaderOwn
      <3>3. Own(draft[a].tenant, rows) \in SUBSET Row
            /\ \A r, q \in Own(draft[a].tenant, rows) : r.id = q.id => r = q
        BY <1>a DEF Own
      <3> QED
        BY <1>c, <2>2, <2>3, <3>2, <3>3, FollowsTrimmed
    <2>5. ChainedOwn'
      <3>1. SUFFICES ASSUME NEW r \in rows'
                     PROVE  /\ r.hash = computeAuditHash(r.prev, r)
                            /\ Follows(r.prev, Before(Own(r.tenant, rows'), r))
        BY DEF ChainedOwn
      <3> DEFINE P == Before(Own(r.tenant, rows), r)
      <3>2. r \in rows /\ r.tenant \in Tenants
        BY <1>a, <2>1 DEF Row
      <3>3. r.hash = computeAuditHash(r.prev, r) /\ Follows(r.prev, P)
        BY <3>2 DEF ChainedOwn
      <3>4. Before(Own(r.tenant, rows'), r) = {q \in P : q.id >= prune.anchor}
        BY <2>3, <3>2 DEF Before
      <3>5. P \in SUBSET Row /\ \A x, q \in P : x.id = q.id => x = q
        BY <1>a DEF Own, Before
      <3>6. Follows(r.prev, {q \in P : q.id >= prune.anchor})
        <4> HIDE DEF P
        <4> QED
          BY <2>2, <3>3, <3>5, FollowsTrimmed
      <3> QED
        BY <3>3, <3>4, <3>6
    <2> QED
      BY <2>4, <2>5
  <1>7. CASE Tick \/ PruneVerify \/ UNCHANGED vars \/ \E b \in 0..MaxTime + 1 : PruneSelect(b)
    BY <1>7, <1>d DEF Tick, PruneVerify, PruneSelect, appenderVars, vars
  <1> QED
    BY <1>1, <1>2, <1>3, <1>4, <1>5, <1>6, <1>7 DEF Next, AppendStep, PruneStep

(* Overlap is remembered, the deployment's scope never changes.            *)
LEMMA RacedStays ==
    ASSUME TypeInv, [Next]_vars
    PROVE  (raced => raced') /\ scoped' = scoped
  <1>1. raced \in BOOLEAN
    BY DEF TypeInv, TypeOK
  <1> QED
    BY <1>1
       DEF Next, AppendStep, PruneStep, Tick, SelectLast, BuildRow, InsertRow, Commit, Rollback,
           PruneSelect, PruneDelete, PruneVerify, vars

(* A slice of an installation's chain that is contiguous in time is        *)
(* contiguous in the chain, so the export accepts it.                      *)
LEMMA ExportSafe ==
    ASSUME TypeInv, OrderInv, ChainedOwn, NEW t \in Tenants,
           NEW since \in 0..MaxTime, NEW until \in 0..MaxTime
    PROVE  auditExportOk(t, since, until)
  <1> DEFINE S == loadAuditLogForExport(t, since, until)
  <1>a. /\ rows \subseteq Row /\ S \subseteq Row /\ S \subseteq rows
        /\ \A r \in rows : r.id \in Nat /\ r.ts \in Nat
        /\ \A r, q \in rows : r.id = q.id => r = q
    BY DEF TypeInv, TypeOK, Row, OrderInv, RowsInLog, UniqueIds, loadAuditLogForExport
  <1>1. SUFFICES ASSUME NEW r \in S
                 PROVE  r.hash = computeAuditHash(
                          IF Before(S, r) = {} THEN r.prev ELSE Newest(Before(S, r)).hash, r)
    BY DEF auditExportOk, verifyAuditChainSegment
  <1>2. r \in rows /\ r.tenant = t /\ since <= r.ts /\ r.ts <= until
    BY <1>a DEF loadAuditLogForExport, Row
  <1>3. r.hash = computeAuditHash(r.prev, r) /\ Follows(r.prev, Before(Own(t, rows), r))
    BY <1>2 DEF ChainedOwn
  <1>4. CASE Before(S, r) = {}
    BY <1>3, <1>4
  <1>5. CASE Before(S, r) # {}
    <2> DEFINE x == Newest(Before(Own(t, rows), r))
    <2>1. PICK y \in S : y.id < r.id
      BY <1>5 DEF Before
    <2>2. y \in Before(Own(t, rows), r) /\ since <= y.ts
      BY <1>a, <2>1 DEF Before, Own, loadAuditLogForExport, Row
    <2>3. Before(Own(t, rows), r) \in SUBSET Row /\ Before(S, r) \in SUBSET Row
      BY <1>a DEF Before, Own
    <2>4. x \in Before(Own(t, rows), r) /\ \A q \in Before(Own(t, rows), r) : q.id <= x.id
      BY <2>2, <2>3, NewestExists
    <2>5. x \in rows /\ x.tenant = t /\ x.id < r.id
      BY <2>4 DEF Before, Own
    <2>6. x.ts <= r.ts
      BY <1>2, <2>5 DEF OrderInv, TimeOrder
    <2>7. y.ts <= x.ts
      <3>1. CASE y.id = x.id
        BY <1>a, <2>1, <2>5, <3>1
      <3>2. CASE y.id < x.id
        BY <1>a, <2>1, <2>5, <3>2 DEF OrderInv, TimeOrder
      <3> QED
        BY <1>a, <2>1, <2>2, <2>4, <2>5, <3>1, <3>2
    <2>8. x \in Before(S, r)
      <3>1. x.ts >= since /\ x.ts <= until
        BY <1>a, <1>2, <2>1, <2>2, <2>5, <2>6, <2>7
      <3> QED
        BY <2>5, <3>1 DEF Before, loadAuditLogForExport
    <2>9. Before(S, r) \subseteq Before(Own(t, rows), r)
      BY <1>a DEF Before, Own, loadAuditLogForExport
    <2>10. Newest(Before(S, r)) = x
      <3>1. \A q \in Before(S, r) : q.id <= x.id
        BY <2>4, <2>9
      <3>2. \A p, q \in Before(S, r) : p.id = q.id => p = q
        BY <1>a DEF Before
      <3> HIDE DEF x, S
      <3> QED
        BY <2>3, <2>8, <3>1, <3>2, NewestIs
    <2>11. r.prev = x.hash
      BY <1>3, <2>2 DEF Follows
    <2> QED
      BY <1>3, <1>5, <2>10, <2>11
  <1> QED
    BY <1>4, <1>5

(* Any number of appenders whose appends never overlapped, with prunes at  *)
(* any moment: every export of an installation's own chain that is         *)
(* contiguous in time is accepted, and a row that is gone was older than a *)
(* cut-off given to the pruner.                                            *)
THEOREM SerialAppendsArchive == Spec => []SerialArchive
  <1>1. Init => ArchiveInv
    <2>1. Init => OrderInv
      BY DEF Init, OrderInv, RowsInLog, IdsDrawn, UniqueIds, OneAppend, InsertedFresh, TimeOrder,
             RowsPast, DraftNewest, AnchorOld, Retained
    <2>2. Init => OwnInv
      BY DEF Init, OwnInv, ChainedOwn, ReaderOwn
    <2> QED
      BY <2>1, <2>2, TypeInit DEF ArchiveInv
  <1>2. ArchiveInv /\ [Next]_vars => ArchiveInv'
    <2> SUFFICES ASSUME ArchiveInv, [Next]_vars PROVE ArchiveInv'
      OBVIOUS
    <2>1. TypeInv'
      BY TypeStep DEF ArchiveInv
    <2>2. (raced => raced') /\ scoped' = scoped
      BY RacedStays DEF ArchiveInv
    <2>3. ASSUME ~raced' PROVE OrderInv'
      BY <2>2, <2>3, OrderStep DEF ArchiveInv
    <2>4. ASSUME ~raced', scoped' PROVE OwnInv'
      BY <2>2, <2>4, OwnStep DEF ArchiveInv
    <2> QED
      BY <2>1, <2>3, <2>4 DEF ArchiveInv
  <1>3. ArchiveInv => SerialArchive
    <2>1. ArchiveInv => SerialExports
      BY ExportSafe DEF ArchiveInv, OwnInv, SerialExports
    <2>2. ArchiveInv => SerialRetention
      BY DEF ArchiveInv, OrderInv, Retained, SerialRetention, RetentionKept
    <2> QED
      BY <2>1, <2>2 DEF SerialArchive
  <1> QED
    BY <1>1, <1>2, <1>3, PTL DEF Spec
=============================================================================
