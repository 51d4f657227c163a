------------------------ MODULE WebhookIntakeProofs ------------------------
(***************************************************************************)
(* Theorems about WebhookIntake for every number of deliveries and         *)
(* concurrent requests and every bound: type correctness, that inside the  *)
(* retention of webhook_deliveries a delivery id yields at most one job,   *)
(* that /review is debounced after a finished review, and that an          *)
(* acknowledged /skip holds.                                               *)
(***************************************************************************)
EXTENDS WebhookIntake, FiniteSetTheorems, TLAPS

Request == [pc : {"idle", "arrived", "claimed", "cleared"}, d : Deliveries, at : Time,
            skip : BOOLEAN, seen : Time \cup {NoRow}]

Message == [n : Nat, d : Deliveries, at : Time, skip : BOOLEAN, seen : Time \cup {NoRow}]

\* Message numbers are cardinalities, so the type invariant needs finiteness.
TypeInv == TypeOK /\ IsFiniteSet(queue)

(* Every request record the receiver builds is well typed.                 *)
LEMMA FreshType ==
    ASSUME NEW p \in {"idle", "arrived", "claimed", "cleared"}, NEW d \in Deliveries,
           NEW t \in Time, NEW b \in BOOLEAN
    PROVE  Fresh(p, d, t, b) \in Request
  BY DEF Fresh, Request

(* So is the record of an idle slot.                                       *)
LEMMA IdleType == Idle \in Request /\ Idle.pc = "idle"
  <1>1. (CHOOSE d \in Deliveries : TRUE) \in Deliveries
    BY DeliveriesAssumption
  <1>2. 0 \in Time
    BY BoundsAssumption DEF Time
  <1> QED
    BY <1>1, <1>2, FreshType DEF Idle, Fresh

(* The initial state is well typed.                                        *)
LEMMA TypeInit == Init => TypeInv
  <1> SUFFICES ASSUME Init PROVE TypeInv
    OBVIOUS
  <1> USE BoundsAssumption, FlagsAssumption
  <1>1. clock \in Time /\ lastDone \in Time \cup {NoRow}
    BY DEF Init, Time
  <1>2. req \in [Requests -> Request]
    BY IdleType DEF Init
  <1>3. review \in [exists : BOOLEAN, updatedAt : -Debounce..MaxTime, paused : BOOLEAN]
    BY DEF Init
  <1>4. IsFiniteSet(queue)
    BY FS_EmptySet DEF Init
  <1>5. posts \in [Deliveries -> 0..MaxPosts] /\ row \in [Deliveries -> Time \cup {NoRow}]
    BY DEF Init
  <1>6. /\ kind \in [Deliveries -> Kinds] /\ skipped \in BOOLEAN
        /\ answer \in [Deliveries -> SUBSET {"deduped", "ignored", "done", "enqueued"}]
        /\ failed \subseteq Deliveries
        /\ queue \subseteq Message
    BY DEF Init
  <1> QED
    BY <1>1, <1>2, <1>3, <1>4, <1>5, <1>6 DEF TypeInv, TypeOK, Request, Message

(* Every step of a request, of the sweep and of the worker preserves types.*)
LEMMA TypeStep ==
    ASSUME TypeInv, [Next]_vars
    PROVE  TypeInv'
  <1> USE BoundsAssumption DEF TypeInv
  <1>a. req \in [Requests -> Request] /\ \A q \in Requests : req[q] \in Request
    BY DEF TypeOK, Request
  <1>b. \A q \in Requests : req[q].d \in Deliveries /\ req[q].at \in Time
                            /\ req[q].skip \in BOOLEAN /\ req[q].seen \in Time \cup {NoRow}
    BY <1>a DEF Request
  <1>c. ASSUME NEW q \in Requests, NEW w \in {"deduped", "ignored", "done", "enqueued"},
               Respond(q, w)
        PROVE  /\ req' \in [Requests -> Request]
               /\ answer' \in [Deliveries -> SUBSET {"deduped", "ignored", "done", "enqueued"}]
    BY <1>a, <1>b, <1>c, IdleType DEF Respond, TypeOK
  <1>1. CASE Tick
    BY <1>1 DEF Tick, TypeOK, Time
  <1>2. ASSUME NEW q \in Requests, NEW d \in Deliveries, Post(q, d)
        PROVE  TypeInv'
    <2>0. Fresh("arrived", d, 0, FALSE) \in Request
      <3>1. 0 \in Time
        BY DEF Time
      <3> QED
        BY <3>1, FreshType
    <2>1. req' \in [Requests -> Request]
      BY <1>2, <1>a, <2>0 DEF Post
    <2>2. posts' \in [Deliveries -> 0..MaxPosts]
      BY <1>2 DEF Post, TypeOK
    <2> QED
      BY <1>2, <2>1, <2>2 DEF Post, TypeOK, Request
  <1>3. ASSUME NEW q \in Requests, Claim(q)
        PROVE  TypeInv'
    <2>1. CASE row[req[q].d] = NoRow
      <3>1. req' \in [Requests -> Request]
        BY <1>3, <2>1, <1>a, <1>b, FreshType DEF Claim, TypeOK
      <3>2. row' \in [Deliveries -> Time \cup {NoRow}]
        BY <1>3, <2>1, <1>b DEF Claim, TypeOK
      <3> QED
        BY <1>3, <2>1, <3>1, <3>2 DEF Claim, TypeOK, Request
    <2>2. CASE row[req[q].d] # NoRow
      <3>1. Respond(q, "deduped")
        BY <1>3, <2>2 DEF Claim
      <3> QED
        BY <1>3, <2>2, <3>1, <1>c DEF Claim, TypeOK, Request
    <2> QED
      BY <2>1, <2>2
  <1>4. ASSUME NEW q \in Requests, Route(q)
        PROVE  TypeInv'
    <2>1. CASE Respond(q, "ignored")
      BY <1>4, <2>1, <1>c DEF Route, TypeOK, Request
    <2>2. CASE \E s \in {lastDone, NoRow} :
                 req' = [req EXCEPT ![q].pc = "cleared", ![q].seen = s] /\ UNCHANGED answer
      <3>1. PICK s \in {lastDone, NoRow} :
                 req' = [req EXCEPT ![q].pc = "cleared", ![q].seen = s] /\ UNCHANGED answer
        BY <2>2
      <3>2. s \in Time \cup {NoRow}
        BY DEF TypeOK
      <3>3. req' \in [Requests -> Request]
        BY <3>1, <3>2, <1>a DEF Request
      <3> QED
        BY <1>4, <3>1, <3>3 DEF Route, TypeOK, Request
    <2> QED
      BY <1>4, <2>1, <2>2 DEF Route, Shown
  <1>5. ASSUME NEW q \in Requests, NEW to \in BOOLEAN, SetPaused(q, to)
        PROVE  TypeInv'
    <2>1. req' \in [Requests -> Request]
      <3>1. \A p \in Requests : [req[p] EXCEPT !.skip = @ /\ to] \in Request
        BY <1>a DEF Request
      <3> QED
        BY <1>5, <3>1, IdleType DEF SetPaused
    <2>2. review' \in [exists : BOOLEAN, updatedAt : -Debounce..MaxTime, paused : BOOLEAN]
      <3>1. req[q].at \in -Debounce..MaxTime
        BY <1>b DEF Time
      <3>2. [review EXCEPT !.paused = to, !.updatedAt = req[q].at]
            \in [exists : BOOLEAN, updatedAt : -Debounce..MaxTime, paused : BOOLEAN]
        BY <3>1 DEF TypeOK
      <3> QED
        BY <1>5, <3>2 DEF SetPaused, TypeOK
    <2>3. answer' \in [Deliveries -> SUBSET {"deduped", "ignored", "done", "enqueued"}]
      BY <1>5, <1>b DEF SetPaused, TypeOK
    <2> QED
      BY <1>5, <2>1, <2>2, <2>3 DEF SetPaused, TypeOK, Request
  <1>6. ASSUME NEW q \in Requests, Enqueue(q)
        PROVE  TypeInv'
    <2> DEFINE m == [n |-> Cardinality(queue) + 1, d |-> req[q].d, at |-> req[q].at,
                     skip |-> req[q].skip, seen |-> req[q].seen]
    <2>1. Cardinality(queue) \in Nat
      BY FS_CardinalityType
    <2>2. m \in Message
      BY <2>1, <1>b DEF Message
    <2>3. queue' = queue \cup {m} /\ Respond(q, "enqueued")
      BY <1>6 DEF Enqueue
    <2>4. IsFiniteSet(queue')
      BY <2>3, FS_AddElement
    <2>5. queue' \subseteq Message
      BY <2>2, <2>3 DEF TypeOK, Message
    <2> QED
      BY <1>6, <2>3, <2>4, <2>5, <1>c DEF Enqueue, TypeOK, Request, Message
  <1>7. ASSUME NEW q \in Requests, Fail(q)
        PROVE  TypeInv'
    <2>1. req' \in [Requests -> Request]
      BY <1>7, <1>a, IdleType DEF Fail
    <2> QED
      BY <1>7, <2>1, <1>b DEF Fail, TypeOK, Request
  <1>8. CASE Sweep
    BY <1>8 DEF Sweep, TypeOK
  <1>9. CASE ReviewDone
    BY <1>9 DEF ReviewDone, TypeOK, Time
  <1>10. CASE UNCHANGED vars
    BY <1>10 DEF vars, TypeOK
  <1> QED
    BY <1>1, <1>2, <1>3, <1>4, <1>5, <1>6, <1>7, <1>8, <1>9, <1>10 DEF Next, Step

(* Type correctness of the receiver.                                       *)
THEOREM TypeCorrect == Spec => []TypeOK
  <1>1. TypeInv => TypeOK
    BY DEF TypeInv
  <1> QED
    BY TypeInit, TypeStep, <1>1, PTL DEF Spec

-----------------------------------------------------------------------------
(* A claim is a request that passed the idempotency middleware or a job it *)
(* became. DedupWithinRetention speaks of jobs only; to be inductive it    *)
(* must also speak of the requests still on their way to the queue, and    *)
(* tie every claim to the webhook_deliveries row that proves it.           *)

Claimed(q) == req[q].pc \in {"claimed", "cleared"}

Apart(s, t) == s - t > Retention \/ t - s > Retention

\* What keeps a later request for d from being claimed too early: the row of
\* the claim itself or of a later one, or that the retention is over.
Guarded(d, at) ==
    \/ row[d] = at
    \/ row[d] = NoRow /\ clock - at > Retention
    \/ row[d] # NoRow /\ row[d] - at > Retention

RowsPast == \A d \in Deliveries : row[d] # NoRow => row[d] <= clock

JobsGuarded == \A m \in queue : Guarded(m.d, m.at)

ClaimsGuarded == \A q \in Requests : Claimed(q) => Guarded(req[q].d, req[q].at)

JobsFromClaims ==
    \A q \in Requests, m \in queue :
        Claimed(q) /\ m.d = req[q].d => Apart(req[q].at, m.at)

ClaimsApart ==
    \A p, q \in Requests :
        Claimed(p) /\ Claimed(q) /\ p # q /\ req[p].d = req[q].d
        => Apart(req[p].at, req[q].at)

JobsApart == \A m, k \in queue : m.d = k.d /\ m # k => Apart(m.at, k.at)

DedupInv == RowsPast /\ JobsGuarded /\ ClaimsGuarded /\ JobsFromClaims /\ ClaimsApart /\ JobsApart

(* A step that leaves the table and the queue alone and claims nothing new *)
(* preserves DedupInv; time passing does too.                              *)
LEMMA QuietStep ==
    ASSUME TypeInv, DedupInv, UNCHANGED <<row, queue>>, clock' \in Time, clock <= clock',
           \A q \in Requests : Claimed(q)' => /\ Claimed(q)
                                              /\ req'[q].d = req[q].d
                                              /\ req'[q].at = req[q].at
    PROVE  DedupInv'
  <1>a. /\ clock \in Int /\ clock' \in Int /\ Retention \in Nat
        /\ \A d \in Deliveries : row[d] \in Int
        /\ \A m \in queue : m.d \in Deliveries /\ m.at \in Int
        /\ \A q \in Requests : req[q].d \in Deliveries /\ req[q].at \in Int
    BY BoundsAssumption DEF TypeInv, TypeOK, Time, NoRow
  <1>1. \A d \in Deliveries, t \in Int : Guarded(d, t) => Guarded(d, t)'
    BY <1>a DEF Guarded
  <1>2. RowsPast'
    BY <1>a DEF DedupInv, RowsPast
  <1>3. JobsGuarded'
    BY <1>a, <1>1 DEF DedupInv, JobsGuarded, Guarded
  <1>4. ClaimsGuarded'
    BY <1>a, <1>1 DEF DedupInv, ClaimsGuarded, Guarded
  <1>5. JobsFromClaims'
    BY DEF DedupInv, JobsFromClaims, Apart
  <1>6. ClaimsApart' /\ JobsApart'
    BY DEF DedupInv, ClaimsApart, JobsApart, Apart
  <1> QED
    BY <1>2, <1>3, <1>4, <1>5, <1>6 DEF DedupInv

(* Every step preserves DedupInv.                                          *)
LEMMA DedupStep ==
    ASSUME TypeInv, DedupInv, [Next]_vars
    PROVE  DedupInv'
  <1> USE BoundsAssumption
  <1>a. /\ clock \in Time /\ clock \in Int /\ Retention \in Nat
        /\ req \in [Requests -> Request]
        /\ row \in [Deliveries -> Time \cup {NoRow}]
        /\ \A d \in Deliveries : row[d] \in Int
        /\ \A m \in queue : m.d \in Deliveries /\ m.at \in Int
        /\ \A q \in Requests : req[q].d \in Deliveries /\ req[q].at \in Int
    BY DEF TypeInv, TypeOK, Time, NoRow, Request
  <1>1. CASE Tick
    <2>1. clock' \in Time /\ clock <= clock' /\ UNCHANGED <<row, queue, req>>
      BY <1>1, <1>a DEF Tick, Time
    <2> QED
      BY <2>1, QuietStep DEF Claimed
  <1>2. ASSUME NEW q \in Requests, NEW d \in Deliveries, Post(q, d)
        PROVE  DedupInv'
    <2>1. UNCHANGED <<clock, row, queue>> /\ req'[q].pc = "arrived"
          /\ \A p \in Requests : p # q => req'[p] = req[p]
      BY <1>2, <1>a DEF Post, Fresh
    <2> QED
      BY <1>a, <2>1, QuietStep DEF Claimed
  <1>c. ASSUME NEW q \in Requests, req' = [req EXCEPT ![q] = Idle],
               UNCHANGED <<clock, row, queue>>
        PROVE  DedupInv'
    <2>1. req'[q].pc = "idle" /\ \A p \in Requests : p # q => req'[p] = req[p]
      BY <1>c, <1>a, IdleType
    <2> QED
      BY <1>a, <1>c, <2>1, QuietStep DEF Claimed
  <1>3. ASSUME NEW q \in Requests, Claim(q)
        PROVE  DedupInv'
    <2> DEFINE d == req[q].d
    <2>1. CASE row[d] # NoRow
      BY <1>3, <2>1, <1>c DEF Claim, Respond
    <2>2. CASE row[d] = NoRow
      <3>1. /\ row' = [row EXCEPT ![d] = clock]
            /\ req'[q].pc = "claimed" /\ req'[q].d = d /\ req'[q].at = clock
            /\ \A p \in Requests : p # q => req'[p] = req[p]
            /\ UNCHANGED <<clock, queue>>
        BY <1>3, <2>2, <1>a DEF Claim, Fresh
      <3>2. row'[d] = clock /\ \A e \in Deliveries : e # d => row'[e] = row[e]
        BY <3>1, <1>a
      <3>3. clock # NoRow
        BY <1>a DEF Time, NoRow
      <3>4. \A t \in Int : Guarded(d, t) => clock - t > Retention \/ t = NoRow
        BY <2>2, <1>a DEF Guarded
      <3>5. \A m \in queue : m.at # NoRow
        BY DEF TypeInv, TypeOK, Time, NoRow
      <3>6. \A p \in Requests : req[p].at # NoRow
        BY DEF TypeInv, TypeOK, Time, NoRow
      <3>7. \A m \in queue : m.d = d => clock - m.at > Retention
        BY <1>a, <3>4, <3>5 DEF DedupInv, JobsGuarded
      <3>8. \A p \in Requests : Claimed(p) /\ req[p].d = d => clock - req[p].at > Retention
        BY <1>a, <3>4, <3>6 DEF DedupInv, ClaimsGuarded
      <3>9. RowsPast'
        BY <1>a, <3>1, <3>2 DEF DedupInv, RowsPast
      <3>10. JobsGuarded'
        BY <1>a, <3>1, <3>2, <3>3, <3>7 DEF DedupInv, JobsGuarded, Guarded
      <3>11. ClaimsGuarded'
        <4>1. ASSUME NEW p \in Requests, p # q, Claimed(p)
              PROVE  Guarded(req[p].d, req[p].at)'
          BY <4>1, <1>a, <3>1, <3>2, <3>3, <3>8 DEF DedupInv, ClaimsGuarded, Guarded
        <4>2. Guarded(req[q].d, req[q].at)'
          BY <3>1, <3>2 DEF Guarded
        <4> QED
          BY <3>1, <4>1, <4>2 DEF ClaimsGuarded, Claimed
      <3>12. JobsFromClaims'
        BY <1>a, <3>1, <3>7 DEF DedupInv, JobsFromClaims, Claimed, Apart
      <3>13. ClaimsApart'
        BY <1>a, <3>1, <3>8 DEF DedupInv, ClaimsApart, Claimed, Apart
      <3>14. JobsApart'
        BY <3>1 DEF DedupInv, JobsApart, Apart
      <3> QED
        BY <3>9, <3>10, <3>11, <3>12, <3>13, <3>14 DEF DedupInv
    <2> QED
      BY <2>1, <2>2
  <1>4. ASSUME NEW q \in Requests, Route(q)
        PROVE  DedupInv'
    <2>1. UNCHANGED <<clock, row, queue>> /\ req[q].pc = "claimed"
      BY <1>4 DEF Route
    <2>2. CASE Respond(q, "ignored")
      BY <2>1, <2>2, <1>c DEF Respond
    <2>3. CASE \E s \in {lastDone, NoRow} :
                 req' = [req EXCEPT ![q].pc = "cleared", ![q].seen = s]
      <3>1. req'[q].d = req[q].d /\ req'[q].at = req[q].at
            /\ \A p \in Requests : p # q => req'[p] = req[p]
        BY <2>3, <1>a DEF Request
      <3> QED
        BY <1>a, <2>1, <3>1, QuietStep DEF Claimed
    <2> QED
      BY <1>4, <2>2, <2>3 DEF Route, Shown
  <1>5. ASSUME NEW q \in Requests, NEW to \in BOOLEAN, SetPaused(q, to)
        PROVE  DedupInv'
    <2>1. UNCHANGED <<clock, row, queue>>
      BY <1>5 DEF SetPaused
    <2>2. req'[q].pc = "idle"
      BY <1>5, IdleType DEF SetPaused
    <2>3. \A p \in Requests : p # q => /\ req'[p].pc = req[p].pc
                                       /\ req'[p].d = req[p].d
                                       /\ req'[p].at = req[p].at
      BY <1>5, <1>a DEF SetPaused, Request
    <2> QED
      BY <1>a, <2>1, <2>2, <2>3, QuietStep DEF Claimed
  <1>6. ASSUME NEW q \in Requests, Enqueue(q)
        PROVE  DedupInv'
    <2> DEFINE e == [n |-> Cardinality(queue) + 1, d |-> req[q].d, at |-> req[q].at,
                     skip |-> req[q].skip, seen |-> req[q].seen]
    <2>1. queue' = queue \cup {e} /\ UNCHANGED <<clock, row>> /\ Claimed(q)
          /\ req' = [req EXCEPT ![q] = Idle]
      BY <1>6 DEF Enqueue, Respond, Claimed
    <2>2. req'[q].pc = "idle" /\ \A p \in Requests : p # q => req'[p] = req[p]
      BY <2>1, <1>a, IdleType
    <2>3. e.d = req[q].d /\ e.at = req[q].at
      OBVIOUS
    <2> HIDE DEF e
    <2>4. RowsPast'
      BY <2>1 DEF DedupInv, RowsPast
    <2>5. JobsGuarded'
      BY <2>1, <2>3 DEF DedupInv, JobsGuarded, ClaimsGuarded, Guarded
    <2>6. ClaimsGuarded'
      BY <2>1, <2>2 DEF DedupInv, ClaimsGuarded, Claimed, Guarded
    <2>7. JobsFromClaims'
      <3>1. ASSUME NEW p \in Requests, NEW m \in queue', Claimed(p)', m.d = req'[p].d
            PROVE  Apart(req'[p].at, m.at)
        <4>1. p # q /\ Claimed(p) /\ req'[p] = req[p]
          BY <3>1, <2>2 DEF Claimed
        <4>2. CASE m \in queue
          BY <3>1, <4>1, <4>2 DEF DedupInv, JobsFromClaims
        <4>3. CASE m = e
          BY <3>1, <4>1, <4>3, <2>1, <2>3 DEF DedupInv, ClaimsApart
        <4> QED
          BY <4>2, <4>3, <2>1
      <3> QED
        BY <3>1 DEF JobsFromClaims, Apart
    <2>8. ClaimsApart'
      BY <2>2 DEF DedupInv, ClaimsApart, Claimed, Apart
    <2>9. JobsApart'
      <3>1. \A m \in queue : m.d = e.d => Apart(e.at, m.at) /\ Apart(m.at, e.at)
        BY <2>1, <2>3, <1>a DEF DedupInv, JobsFromClaims, Apart
      <3> QED
        BY <2>1, <3>1 DEF DedupInv, JobsApart, Apart
    <2> QED
      BY <2>4, <2>5, <2>6, <2>7, <2>8, <2>9 DEF DedupInv
  <1>7. ASSUME NEW q \in Requests, Fail(q)
        PROVE  DedupInv'
    BY <1>7, <1>c DEF Fail
  <1>8. CASE Sweep
    <2>1. /\ row' = [d \in Deliveries |-> IF Expired(d) THEN NoRow ELSE row[d]]
          /\ UNCHANGED <<clock, queue, req>>
      BY <1>8 DEF Sweep
    <2>2. ASSUME NEW d \in Deliveries, NEW t \in Int, Guarded(d, t)
          PROVE  Guarded(d, t)'
      BY <2>1, <2>2, <1>a DEF Guarded, Expired
    <2>3. RowsPast'
      BY <2>1 DEF DedupInv, RowsPast
    <2>4. JobsGuarded' /\ ClaimsGuarded'
      BY <1>a, <2>1, <2>2 DEF DedupInv, JobsGuarded, ClaimsGuarded, Claimed, Guarded
    <2>5. JobsFromClaims' /\ ClaimsApart' /\ JobsApart'
      BY <2>1 DEF DedupInv, JobsFromClaims, ClaimsApart, JobsApart, Claimed, Apart
    <2> QED
      BY <2>3, <2>4, <2>5 DEF DedupInv
  <1>9. CASE ReviewDone
    BY <1>9, <1>a, QuietStep DEF ReviewDone, Claimed
  <1>10. CASE UNCHANGED vars
    BY <1>10, <1>a, QuietStep DEF vars, Claimed
  <1> QED
    BY <1>1, <1>2, <1>3, <1>4, <1>5, <1>6, <1>7, <1>8, <1>9, <1>10 DEF Next, Step

(* At most one job per delivery id within the retention, for any number of *)
(* concurrent and repeated posts, failures and sweeps.                     *)
THEOREM AtMostOneJob == Spec => []DedupWithinRetention
  <1>1. Init => DedupInv
    BY IdleType DEF Init, DedupInv, RowsPast, JobsGuarded, ClaimsGuarded, JobsFromClaims,
                    ClaimsApart, JobsApart, Claimed
  <1>2. DedupInv => DedupWithinRetention
    BY DEF DedupInv, JobsApart, Apart, DedupWithinRetention
  <1> QED
    BY <1>1, <1>2, TypeInit, TypeStep, DedupStep, PTL DEF Spec

-----------------------------------------------------------------------------
(* DebouncesAfterReview compares a job with what its request saw; to be    *)
(* inductive it must also speak of requests that have passed checkDebounce *)
(* and are not enqueued yet, and say that a finished review has a row.     *)

RowShowsReview == lastDone # NoRow => review.exists

\* A /review on its way to the queue was claimed a window after what it saw.
ClearedLate ==
    \A q \in Requests :
        req[q].pc = "cleared" /\ kind[req[q].d] = "review" /\ req[q].seen # NoRow
        => req[q].at - req[q].seen >= Debounce

DebounceInv == RowShowsReview /\ ClearedLate /\ DebouncesAfterReview

(* A step that clears no request and leaves the row and the queue alone    *)
(* preserves DebounceInv.                                                  *)
LEMMA NothingCleared ==
    ASSUME TypeInv, DebounceInv, UNCHANGED <<kind, review, queue, lastDone>>,
           \A q \in Requests : req'[q].pc = "cleared" => req'[q] = req[q]
    PROVE  DebounceInv'
  BY DEF DebounceInv, RowShowsReview, ClearedLate, DebouncesAfterReview

(* Every step preserves DebounceInv: a request only counts as having seen  *)
(* a review when the row it was routed by is not older than that review.   *)
LEMMA DebounceStep ==
    ASSUME TypeInv, DebounceInv, [Next]_vars
    PROVE  DebounceInv'
  <1> USE BoundsAssumption
  <1>a. /\ req \in [Requests -> Request] /\ lastDone \in Int /\ clock \in Int
        /\ review \in [exists : BOOLEAN, updatedAt : -Debounce..MaxTime, paused : BOOLEAN]
        /\ review.updatedAt \in Int /\ Debounce \in Int
        /\ \A q \in Requests : req[q].at \in Int /\ req[q].seen \in Int
    BY DEF TypeInv, TypeOK, Time, NoRow, Request
  <1>b. ASSUME NEW q \in Requests, req' = [req EXCEPT ![q] = Idle],
               UNCHANGED <<kind, review, queue, lastDone>>
        PROVE  DebounceInv'
    <2>1. req'[q].pc # "cleared" /\ \A p \in Requests : p # q => req'[p] = req[p]
      BY <1>a, <1>b, IdleType
    <2> QED
      BY <1>b, <2>1, NothingCleared
  <1>1. CASE Tick
    BY <1>1, NothingCleared DEF Tick
  <1>2. ASSUME NEW q \in Requests, NEW d \in Deliveries, Post(q, d)
        PROVE  DebounceInv'
    <2>1. req'[q].pc = "arrived" /\ \A p \in Requests : p # q => req'[p] = req[p]
      BY <1>2, <1>a DEF Post, Fresh
    <2> QED
      BY <1>2, <2>1, NothingCleared DEF Post
  <1>3. ASSUME NEW q \in Requests, Claim(q)
        PROVE  DebounceInv'
    <2>1. req'[q].pc # "cleared" /\ \A p \in Requests : p # q => req'[p] = req[p]
      BY <1>3, <1>a, IdleType DEF Claim, Respond, Fresh
    <2> QED
      BY <1>3, <2>1, NothingCleared DEF Claim
  <1>4. ASSUME NEW q \in Requests, Route(q)
        PROVE  DebounceInv'
    <2>1. UNCHANGED <<kind, review, queue, lastDone>>
      BY <1>4 DEF Route
    <2>2. CASE Respond(q, "ignored")
      BY <2>1, <2>2, <1>b DEF Respond
    <2>3. ASSUME NEW r \in ReadableRows, ~Suppressed(q, r),
                 req' = [req EXCEPT ![q].pc = "cleared", ![q].seen = Shown(r)]
          PROVE  DebounceInv'
      <3>1. /\ req'[q].d = req[q].d /\ req'[q].at = req[q].at
            /\ req'[q].seen = Shown(r)
            /\ \A p \in Requests : p # q => req'[p] = req[p]
        BY <2>3, <1>a DEF Request
      <3>2. ASSUME kind[req[q].d] = "review", Shown(r) # NoRow
            PROVE  req[q].at - Shown(r) >= Debounce
        BY <2>3, <3>2, <1>a
           DEF Suppressed, checkDebounce, DebounceInv, RowShowsReview, Shown
      <3>3. ClearedLate'
        BY <2>1, <3>1, <3>2 DEF DebounceInv, ClearedLate
      <3> QED
        BY <2>1, <3>3 DEF DebounceInv, RowShowsReview, DebouncesAfterReview
    <2> QED
      BY <1>4, <2>2, <2>3 DEF Route
  <1>5. ASSUME NEW q \in Requests, NEW to \in BOOLEAN, SetPaused(q, to)
        PROVE  DebounceInv'
    <2>1. UNCHANGED <<kind, queue>>
      BY <1>5 DEF SetPaused
    <2>2. RowShowsReview'
      BY <1>5, <1>a DEF SetPaused, DebounceInv, RowShowsReview
    <2>3. ASSUME NEW p \in Requests, req'[p].pc = "cleared"
          PROVE  /\ req[p].pc = "cleared" /\ req'[p].d = req[p].d
                 /\ req'[p].at = req[p].at /\ req'[p].seen = req[p].seen
      BY <1>5, <2>3, <1>a, IdleType DEF SetPaused, Request
    <2>4. ClearedLate'
      BY <2>1, <2>3 DEF DebounceInv, ClearedLate
    <2> QED
      BY <2>1, <2>2, <2>4 DEF DebounceInv, DebouncesAfterReview
  <1>6. ASSUME NEW q \in Requests, Enqueue(q)
        PROVE  DebounceInv'
    <2> DEFINE e == [n |-> Cardinality(queue) + 1, d |-> req[q].d, at |-> req[q].at,
                     skip |-> req[q].skip, seen |-> req[q].seen]
    <2>1. /\ queue' = queue \cup {e} /\ req' = [req EXCEPT ![q] = Idle]
          /\ UNCHANGED <<kind, review, lastDone>> /\ req[q].pc = "cleared"
      BY <1>6 DEF Enqueue, Respond
    <2>2. e.d = req[q].d /\ e.at = req[q].at /\ e.seen = req[q].seen
      OBVIOUS
    <2>3. req'[q].pc # "cleared" /\ \A p \in Requests : p # q => req'[p] = req[p]
      BY <2>1, <1>a, IdleType
    <2> HIDE DEF e
    <2>4. DebouncesAfterReview'
      BY <2>1, <2>2 DEF DebounceInv, ClearedLate, DebouncesAfterReview
    <2> QED
      BY <2>1, <2>3, <2>4 DEF DebounceInv, RowShowsReview, ClearedLate
  <1>7. ASSUME NEW q \in Requests, Fail(q)
        PROVE  DebounceInv'
    BY <1>7, <1>b DEF Fail
  <1>8. CASE Sweep
    BY <1>8, NothingCleared DEF Sweep
  <1>9. CASE ReviewDone
    <2>1. RowShowsReview'
      BY <1>9, <1>a DEF ReviewDone, RowShowsReview
    <2> QED
      BY <1>9, <2>1 DEF ReviewDone, DebounceInv, ClearedLate, DebouncesAfterReview
  <1>10. CASE UNCHANGED vars
    BY <1>10, NothingCleared DEF vars
  <1> QED
    BY <1>1, <1>2, <1>3, <1>4, <1>5, <1>6, <1>7, <1>8, <1>9, <1>10 DEF Next, Step

(* The handler debounces /review against finished reviews, with any number *)
(* of requests between their claim, their read and their enqueue.          *)
THEOREM ReviewsAreDebounced == Spec => []DebouncesAfterReview
  <1>1. Init => DebounceInv
    BY IdleType DEF Init, DebounceInv, RowShowsReview, ClearedLate, DebouncesAfterReview
  <1>2. DebounceInv => DebouncesAfterReview
    BY DEF DebounceInv
  <1> QED
    BY <1>1, <1>2, TypeInit, TypeStep, DebounceStep, PTL DEF Spec

-----------------------------------------------------------------------------
(* SkipSuppressesPushes speaks of the queue. What carries it: while the    *)
(* history says "skipped" the row is there and paused, a request marked by *)
(* an acknowledged /skip lives in such a time, and a push that passed the  *)
(* pause check carries no mark.                                            *)

SkippedIsPaused == skipped => readPausedState(review)

MarkedWhileSkipped == \A q \in Requests : req[q].skip => skipped

ClearedUnmarked ==
    \A q \in Requests : req[q].pc = "cleared" /\ kind[req[q].d] = "push" => ~req[q].skip

SkipInv == SkippedIsPaused /\ MarkedWhileSkipped /\ ClearedUnmarked /\ SkipSuppressesPushes

(* A step that marks and clears no request and leaves the row and the      *)
(* queue alone preserves SkipInv.                                          *)
LEMMA NothingMarked ==
    ASSUME SkipInv, UNCHANGED <<kind, queue, skipped>>, SkippedIsPaused',
           \A q \in Requests : /\ req'[q].skip => req[q].skip \/ skipped
                               /\ req'[q].pc = "cleared" => req'[q] = req[q]
    PROVE  SkipInv'
  BY DEF SkipInv, MarkedWhileSkipped, ClearedUnmarked, SkipSuppressesPushes

(* When reads of review_state do not fail, every step preserves SkipInv.   *)
LEMMA SkipStep ==
    ASSUME DbErrors = FALSE, TypeInv, SkipInv, [Next]_vars
    PROVE  SkipInv'
  <1>a. /\ req \in [Requests -> Request] /\ skipped \in BOOLEAN
        /\ review \in [exists : BOOLEAN, updatedAt : -Debounce..MaxTime, paused : BOOLEAN]
        /\ \A q \in Requests : req[q].skip \in BOOLEAN
        /\ Idle.skip = FALSE
    BY DEF TypeInv, TypeOK, Request, Idle, Fresh
  <1>b. ASSUME NEW q \in Requests, req' = [req EXCEPT ![q] = Idle],
               UNCHANGED <<kind, review, queue, skipped>>
        PROVE  SkipInv'
    <2>1. req'[q].pc # "cleared" /\ ~req'[q].skip /\ \A p \in Requests : p # q => req'[p] = req[p]
      BY <1>a, <1>b, IdleType
    <2>2. SkippedIsPaused'
      BY <1>b DEF SkipInv, SkippedIsPaused, readPausedState
    <2> QED
      BY <1>b, <2>1, <2>2, NothingMarked
  <1>c. ASSUME UNCHANGED <<review, skipped>>
        PROVE  SkippedIsPaused'
    BY <1>c DEF SkipInv, SkippedIsPaused, readPausedState
  <1>1. CASE Tick
    BY <1>1, <1>c, NothingMarked DEF Tick
  <1>2. ASSUME NEW q \in Requests, NEW d \in Deliveries, Post(q, d)
        PROVE  SkipInv'
    <2>1. /\ req'[q].pc = "arrived" /\ ~req'[q].skip
          /\ \A p \in Requests : p # q => req'[p] = req[p]
      BY <1>2, <1>a DEF Post, Fresh
    <2> QED
      BY <1>2, <2>1, <1>c, NothingMarked DEF Post
  <1>3. ASSUME NEW q \in Requests, Claim(q)
        PROVE  SkipInv'
    <2>1. /\ req'[q].pc # "cleared" /\ (req'[q].skip => skipped)
          /\ \A p \in Requests : p # q => req'[p] = req[p]
      BY <1>3, <1>a, IdleType DEF Claim, Respond, Fresh
    <2> QED
      BY <1>3, <2>1, <1>c, NothingMarked DEF Claim
  <1>4. ASSUME NEW q \in Requests, Route(q)
        PROVE  SkipInv'
    <2>1. UNCHANGED <<kind, review, queue, skipped>>
      BY <1>4 DEF Route
    <2>2. CASE Respond(q, "ignored")
      BY <2>1, <2>2, <1>b DEF Respond
    <2>3. ASSUME NEW r \in ReadableRows, ~Suppressed(q, r),
                 req' = [req EXCEPT ![q].pc = "cleared", ![q].seen = Shown(r)]
          PROVE  SkipInv'
      <3>1. /\ req'[q].d = req[q].d /\ req'[q].skip = req[q].skip
            /\ \A p \in Requests : p # q => req'[p] = req[p]
        BY <2>3, <1>a DEF Request
      <3>2. r = review
        BY DEF ReadableRows
      <3>3. kind[req[q].d] = "push" => ~req[q].skip
        BY <2>3, <3>2 DEF Suppressed, SkipInv, SkippedIsPaused, MarkedWhileSkipped
      <3>4. ClearedUnmarked'
        BY <2>1, <3>1, <3>3 DEF SkipInv, ClearedUnmarked
      <3>5. MarkedWhileSkipped'
        BY <2>1, <3>1 DEF SkipInv, MarkedWhileSkipped
      <3> QED
        BY <2>1, <3>4, <3>5, <1>c DEF SkipInv, SkipSuppressesPushes
    <2> QED
      BY <1>4, <2>2, <2>3 DEF Route
  <1>5. ASSUME NEW q \in Requests, NEW to \in BOOLEAN, SetPaused(q, to)
        PROVE  SkipInv'
    <2>1. UNCHANGED <<kind, queue>> /\ skipped' = (to /\ review.exists)
      BY <1>5 DEF SetPaused
    <2>2. SkippedIsPaused'
      BY <1>5, <2>1, <1>a DEF SetPaused, SkippedIsPaused, readPausedState
    <2>3. ~req'[q].skip /\ req'[q].pc # "cleared"
      BY <1>5, <1>a, IdleType DEF SetPaused
    <2>4. ASSUME NEW p \in Requests, p # q
          PROVE  /\ req'[p].pc = req[p].pc /\ req'[p].d = req[p].d
                 /\ req'[p].skip = (req[p].skip /\ to)
      BY <1>5, <2>4, <1>a DEF SetPaused, Request
    <2>5. MarkedWhileSkipped'
      BY <2>1, <2>3, <2>4 DEF SkipInv, MarkedWhileSkipped, SkippedIsPaused, readPausedState
    <2>6. ClearedUnmarked'
      BY <2>1, <2>3, <2>4 DEF SkipInv, ClearedUnmarked
    <2> QED
      BY <2>1, <2>2, <2>5, <2>6 DEF SkipInv, SkipSuppressesPushes
  <1>6. ASSUME NEW q \in Requests, Enqueue(q)
        PROVE  SkipInv'
    <2> DEFINE e == [n |-> Cardinality(queue) + 1, d |-> req[q].d, at |-> req[q].at,
                     skip |-> req[q].skip, seen |-> req[q].seen]
    <2>1. /\ queue' = queue \cup {e} /\ req' = [req EXCEPT ![q] = Idle]
          /\ UNCHANGED <<kind, review, skipped>> /\ req[q].pc = "cleared"
      BY <1>6 DEF Enqueue, Respond
    <2>2. e.d = req[q].d /\ e.skip = req[q].skip
      OBVIOUS
    <2>3. /\ req'[q].pc # "cleared" /\ ~req'[q].skip
          /\ \A p \in Requests : p # q => req'[p] = req[p]
      BY <2>1, <1>a, IdleType
    <2> HIDE DEF e
    <2>4. SkipSuppressesPushes'
      BY <2>1, <2>2 DEF SkipInv, ClearedUnmarked, SkipSuppressesPushes
    <2> QED
      BY <2>1, <2>3, <2>4, <1>c DEF SkipInv, MarkedWhileSkipped, ClearedUnmarked
  <1>7. ASSUME NEW q \in Requests, Fail(q)
        PROVE  SkipInv'
    BY <1>7, <1>b DEF Fail
  <1>8. CASE Sweep
    BY <1>8, <1>c, NothingMarked DEF Sweep
  <1>9. CASE ReviewDone
    <2>1. SkippedIsPaused'
      BY <1>9 DEF ReviewDone, SkipInv, SkippedIsPaused, readPausedState
    <2> QED
      BY <1>9, <2>1, NothingMarked DEF ReviewDone
  <1>10. CASE UNCHANGED vars
    BY <1>10, <1>c, NothingMarked DEF vars
  <1> QED
    BY <1>1, <1>2, <1>3, <1>4, <1>5, <1>6, <1>7, <1>8, <1>9, <1>10 DEF Next, Step

(* After an acknowledged /skip that found a row, and until a /resume, no   *)
(* push is enqueued, whatever requests, sweeps and reviews run beside it,  *)
(* as long as the reads of review_state succeed: the handler takes a read  *)
(* that fails for "not paused".                                            *)
THEOREM SkipHolds == ASSUME DbErrors = FALSE PROVE Spec => []SkipSuppressesPushes
  <1>1. Init => SkipInv
    BY IdleType DEF Init, SkipInv, SkippedIsPaused, MarkedWhileSkipped, ClearedUnmarked,
                    SkipSuppressesPushes, Idle, Fresh
  <1>2. SkipInv => SkipSuppressesPushes
    BY DEF SkipInv
  <1>3. TypeInv /\ SkipInv /\ [Next]_vars => SkipInv'
    BY SkipStep
  <1> QED
    BY <1>1, <1>2, <1>3, TypeInit, TypeStep, PTL DEF Spec
=============================================================================
