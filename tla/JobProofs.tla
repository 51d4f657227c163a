------------------------------ MODULE JobProofs ------------------------------
(***************************************************************************)
(* Proofs about a review job: its way through the queue (JobQueue), for    *)
(* any number of jobs and workers, any batch size and both kinds of        *)
(* worker; its workspace (Workspace), for any repository and any number of *)
(* pushes; the organisation's file it is configured with                   *)
(* (ConfigResolution), for any number of jobs and edits; one provider call *)
(* under the retry policy (LlmRetry), with what is needed about sums; and  *)
(* one review of the pipeline (ReviewPipeline), for any diff, filters,     *)
(* caps and answer.                                                        *)
(***************************************************************************)
EXTENDS Integers, Sequences, FiniteSetTheorems, WellFoundedInduction, JobQueue, MCReviewJob,
        TLAPS

\* A worker that handles a message has it at the head of its batch.
Holds(w, p) ==
    p.pc \in {"checking", "running"} \/ (p.pc = "acking" /\ w \notin Lambda) => p.batch # <<>>

TypeInv == TypeOK /\ \A w \in Workers : Holds(w, worker[w])

\* What waits to be deleted was handled; with it NothingLost is inductive.
AckInv ==
    /\ NothingLost
    /\ \A w \in Workers : \A r \in worker[w].ok : r.j \in done

\* A timer that is moved stays in its range.
LEMMA LessType == ASSUME NEW b \in Nat, NEW n \in 0..b PROVE Less(n) \in 0..b
BY DEF Less

\* A worker that polls has nothing in its hands.
LEMMA ReadyType == Ready \in Process /\ (\A w \in Workers : Holds(w, Ready)) /\ Ready.ok = {}
BY BoundsAssumption DEF Ready, Unburdened, Process, Holds

\* Neither has a worker that was stopped.
LEMMA StoppedType ==
    /\ Unburdened("stopped") \in Process
    /\ \A w \in Workers : Holds(w, Unburdened("stopped"))
    /\ Unburdened("stopped").ok = {}
BY BoundsAssumption DEF Unburdened, Process, Holds

\* The head of a batch is a receipt and the rest is a batch.
LEMMA CurrentType ==
    ASSUME TypeOK, NEW w \in Workers, worker[w].batch # <<>>
    PROVE  Current(w) \in Receipt /\ Tail(worker[w].batch) \in Seq(Receipt)
<1>1. worker[w].batch \in Seq(Receipt) BY DEF TypeOK, Process
<1> QED BY <1>1 DEF Current

\* Moving on within a message keeps the record well formed.
LEMMA AtType ==
    ASSUME TypeOK, NEW w \in Workers,
           NEW pc \in {"checking", "running", "acking"},
           worker[w].batch # <<>> \/ (pc = "acking" /\ w \in Lambda)
    PROVE  At(w, pc) \in Process /\ Holds(w, At(w, pc)) /\ At(w, pc).ok = worker[w].ok
BY DEF TypeOK, At, Process, Holds

\* So does going on to the next message.
LEMMA NextMessageType ==
    ASSUME TypeOK, NEW w \in Workers, worker[w].batch # <<>>
    PROVE  /\ NextMessage(w) \in Process /\ Holds(w, NextMessage(w))
           /\ NextMessage(w).ok = worker[w].ok
           /\ NextMessage(w).pc = "next"
<1>1. Tail(worker[w].batch) \in Seq(Receipt) BY CurrentType
<1>2. worker[w] \in Process BY DEF TypeOK
<1>3. (IF w \in Lambda THEN worker[w].ran ELSE 0) \in 0..MaxRun
  BY <1>2, BoundsAssumption DEF Process
<1> QED BY <1>1, <1>2, <1>3 DEF NextMessage, Process, Holds

\* A returned callback adds at most its own receipt to the deletes.
LEMMA ReturnedType ==
    ASSUME TypeOK, NEW w \in Workers, worker[w].batch # <<>>
    PROVE  /\ Returned(w) \in Process /\ Holds(w, Returned(w))
           /\ Returned(w).ok \subseteq worker[w].ok \cup {Current(w)}
<1>1. Current(w) \in Receipt BY CurrentType
<1>2. worker[w] \in Process BY DEF TypeOK
<1>3. CASE w \in Lambda
  BY <1>1, <1>3, NextMessageType DEF Returned, Process, Holds
<1>4. CASE w \notin Lambda BY <1>1, <1>2, <1>4 DEF Returned, Process, Holds
<1> QED BY <1>3, <1>4

\* A step that replaces one worker's record by a good one keeps them all good.
LEMMA OneWorker ==
    ASSUME TypeInv, NEW w \in Workers, NEW p \in Process, Holds(w, p),
           worker' = [worker EXCEPT ![w] = p]
    PROVE  /\ worker' \in [Workers -> Process]
           /\ \A v \in Workers : Holds(v, worker'[v])
           /\ \A v \in Workers : worker'[v] = IF v = w THEN p ELSE worker[v]
BY DEF TypeInv, TypeOK

\* The initial state is well typed.
LEMMA InitType == Init => TypeInv
BY ReadyType, BoundsAssumption DEF Init, TypeInv, TypeOK, Message

\* Every step of SQS and of the workers preserves TypeInv.
LEMMA TypeStep == TypeInv /\ [Next]_vars => TypeInv'
<1> SUFFICES ASSUME TypeInv, [Next]_vars PROVE TypeInv' OBVIOUS
<1>t. TypeOK BY DEF TypeInv
<1>1. CASE UNCHANGED vars BY <1>1 DEF vars, TypeInv, TypeOK, Holds
<1>2. CASE Tick
  <2>1. \A j \in Jobs : [msg[j] EXCEPT !.hidden = Less(@)] \in Message
    BY <1>t, LessType, BoundsAssumption DEF TypeOK, Message
  <2>2. \A w \in Workers : Busy(w) => [worker[w] EXCEPT !.ran = @ + 1] \in Process
    <3> SUFFICES ASSUME NEW w \in Workers, Busy(w)
                 PROVE  [worker[w] EXCEPT !.ran = @ + 1] \in Process
      OBVIOUS
    <3>1. worker[w] \in Process BY <1>t DEF TypeOK
    <3>2. worker[w].ran \in 0..MaxRun BY <3>1 DEF Process
    <3>3. worker[w].ran < MaxRun BY <1>2 DEF Tick
    <3>4. worker[w].ran + 1 \in 0..MaxRun BY <3>2, <3>3, BoundsAssumption
    <3> QED BY <3>1, <3>4 DEF Process
  <2>3. \A w \in Workers : Holds(w, [worker[w] EXCEPT !.ran = @ + 1])
    BY DEF TypeInv, TypeOK, Process, Holds
  <2>4. review' \subseteq [id : {idFor, stateId}, head : Jobs, age : 0..Window]
    <3>1. \A r \in [id : {idFor, stateId}, head : Jobs, age : 0..Window] :
            [r EXCEPT !.age = IF @ < Window THEN @ + 1 ELSE @]
            \in [id : {idFor, stateId}, head : Jobs, age : 0..Window]
      BY BoundsAssumption
    <3> QED BY <1>2, <1>t, <3>1 DEF Tick, TypeOK
  <2> QED BY <1>2, <2>1, <2>2, <2>3, <2>4 DEF Tick, TypeInv, TypeOK
<1>3. ASSUME NEW j \in Jobs, Send(j) PROVE TypeInv'
  BY <1>3 DEF Send, TypeInv, TypeOK, Message
<1>4. ASSUME NEW j \in Jobs, Redrive(j) PROVE TypeInv'
  BY <1>4 DEF Redrive, TypeInv, TypeOK, Message
<1>5. ASSUME NEW w \in Workers, NEW s \in Batches(w), Receive(w, s) PROVE TypeInv'
  <2>1. PICK n \in Nat : s \in [1..n -> Receivable] BY BoundsAssumption DEF Batches
  <2>2. \A i \in 1..n : s[i] \in Jobs /\ msg[s[i]].receives < MaxReceive
    BY <2>1 DEF Receivable
  <2> DEFINE b == [i \in DOMAIN s |-> [j |-> s[i], n |-> msg[s[i]].receives + 1]]
             p == [pc |-> "next", ran |-> 0, ok |-> {}, batch |-> b]
  <2>3. b \in Seq(Receipt)
    <3>1. DOMAIN s = 1..n /\ n \in Nat BY <2>1, BoundsAssumption
    <3>2. \A i \in 1..n : msg[s[i]].receives \in Nat
      BY <2>2, <1>t, BoundsAssumption DEF TypeOK, Message
    <3>3. \A i \in 1..n : [j |-> s[i], n |-> msg[s[i]].receives + 1] \in Receipt
      BY <2>2, <3>2, BoundsAssumption DEF Receipt
    <3> QED BY <3>1, <3>3
  <2>4. \A j \in Jobs : (\E i \in DOMAIN s : s[i] = j) =>
          [msg[j] EXCEPT !.hidden = Visibility, !.receives = @ + 1] \in Message
    <3> SUFFICES ASSUME NEW j \in Jobs, NEW i \in DOMAIN s, s[i] = j
                 PROVE  [msg[j] EXCEPT !.hidden = Visibility, !.receives = @ + 1] \in Message
      OBVIOUS
    <3>1. msg[j].receives < MaxReceive BY <2>1, <2>2
    <3>2. msg[j] \in Message BY <1>t DEF TypeOK
    <3>3. msg[j].receives + 1 \in 0..MaxReceive BY <3>1, <3>2, BoundsAssumption DEF Message
    <3>4. Visibility \in 0..Visibility BY BoundsAssumption
    <3> QED BY <3>2, <3>3, <3>4 DEF Message
  <2>5. p \in Process /\ Holds(w, p) BY <2>3, BoundsAssumption DEF Process, Holds
  <2>6. worker' = [worker EXCEPT ![w] = p] BY <1>5 DEF Receive
  <2> HIDE DEF p
  <2>7. worker' \in [Workers -> Process] /\ \A v \in Workers : Holds(v, worker'[v])
    BY <2>5, <2>6, OneWorker
  <2>8. msg' \in [Jobs -> Message] BY <1>5, <2>4, <1>t DEF Receive, TypeOK
  <2> QED BY <1>5, <2>7, <2>8 DEF Receive, TypeInv, TypeOK
<1>6. ASSUME NEW w \in Workers, NEW p \in Process, Holds(w, p),
             worker' = [worker EXCEPT ![w] = p],
             UNCHANGED <<kind, msg, stop, review, done, reviewed, newest>>
      PROVE  TypeInv'
  BY <1>6, OneWorker DEF TypeInv, TypeOK
<1>7. ASSUME NEW w \in Workers, Take(w) PROVE TypeInv'
  BY <1>6, <1>7, <1>t, NextMessageType, AtType DEF Take
<1>8. ASSUME NEW w \in Workers, EndBatch(w) PROVE TypeInv'
  <2>1. CASE ~(w \in Lambda /\ worker[w].ok # {}) BY <1>6, <1>8, <2>1, ReadyType DEF EndBatch
  <2>2. CASE w \in Lambda /\ worker[w].ok # {}
    BY <1>6, <1>8, <2>2, <1>t, AtType DEF EndBatch
  <2> QED BY <2>1, <2>2
<1>9. ASSUME NEW w \in Workers, Stop(w) PROVE TypeInv'
  BY <1>9 DEF Stop, TypeInv, TypeOK
<1>10. ASSUME NEW w \in Workers, Halt(w) PROVE TypeInv'
  BY <1>6, <1>10, StoppedType DEF Halt
<1>11. ASSUME NEW w \in Workers, worker[w].pc \in {"checking", "running"}
       PROVE  /\ worker[w].batch # <<>> /\ Current(w).j \in Jobs
              /\ Returned(w) \in Process /\ Holds(w, Returned(w))
  <2>1. worker[w].batch # <<>> BY <1>11 DEF TypeInv, Holds
  <2> QED BY <2>1, <1>t, CurrentType, ReturnedType DEF Receipt
<1>12. ASSUME NEW w \in Workers, Check(w) PROVE TypeInv'
  <2>1. worker[w].pc = "checking" BY <1>12 DEF Check
  <2>2. CASE shouldDebounce(Current(w).j)
    BY <1>11, <1>12, <2>1, <2>2, OneWorker DEF Check, TypeInv, TypeOK
  <2>3. CASE ~shouldDebounce(Current(w).j)
    BY <1>6, <1>11, <1>12, <1>t, <2>1, <2>3, AtType DEF Check
  <2> QED BY <2>2, <2>3
<1>13. ASSUME NEW w \in Workers, HandlerDone(w) PROVE TypeInv'
  <2>1. worker[w].pc = "running" BY <1>13 DEF HandlerDone
  <2>2. review' \subseteq [id : {idFor, stateId}, head : Jobs, age : 0..Window]
    BY <1>11, <1>13, <1>t, <2>1, BoundsAssumption DEF HandlerDone, TypeOK
  <2>3. worker' \in [Workers -> Process] /\ \A v \in Workers : Holds(v, worker'[v])
    BY <1>11, <1>13, <2>1, OneWorker DEF HandlerDone
  <2> QED BY <1>11, <1>13, <2>1, <2>2, <2>3 DEF HandlerDone, TypeInv, TypeOK
<1>14. ASSUME NEW w \in Workers, HandlerFail(w) PROVE TypeInv'
  BY <1>6, <1>11, <1>14, <1>t, NextMessageType DEF HandlerFail
<1>15. ASSUME NEW w \in Workers, NEW D \in SUBSET worker[w].ok, Ack(w, D) PROVE TypeInv'
  <2>1. msg' \in [Jobs -> Message] BY <1>15, <1>t DEF Ack, TypeOK, Message
  <2> DEFINE p == IF w \in Lambda THEN Ready ELSE [NextMessage(w) EXCEPT !.ok = {}]
  <2>2. p \in Process /\ Holds(w, p)
    <3>1. CASE w \in Lambda BY <3>1, ReadyType
    <3>2. CASE w \notin Lambda
      <4>1. worker[w].batch # <<>> BY <1>15, <3>2 DEF Ack, TypeInv, Holds
      <4> QED BY <3>2, <4>1, <1>t, NextMessageType DEF Process, Holds
    <3> QED BY <3>1, <3>2
  <2>3. worker' = [worker EXCEPT ![w] = p] BY <1>15 DEF Ack
  <2> HIDE DEF p
  <2>4. worker' \in [Workers -> Process] /\ \A v \in Workers : Holds(v, worker'[v])
    BY <2>2, <2>3, OneWorker
  <2> QED BY <1>15, <2>1, <2>4 DEF Ack, TypeInv, TypeOK
<1>16. ASSUME NEW w \in Workers, Crash(w) PROVE TypeInv'
  BY <1>16, ReadyType, OneWorker DEF Crash, TypeInv, TypeOK
<1> QED BY <1>1, <1>2, <1>3, <1>4, <1>5, <1>7, <1>8, <1>9, <1>10, <1>12, <1>13, <1>14,
           <1>15, <1>16 DEF Next, Step, Loop

(* Type correctness: messages, receipts and timers stay in range, also     *)
(* with redeliveries, crashes and stop signals.                            *)
THEOREM TypeCorrect == Spec => []TypeOK
<1>1. TypeInv => TypeOK BY DEF TypeInv
<1> QED BY <1>1, InitType, TypeStep, PTL DEF Spec

\* Every step preserves AckInv: only HandlerDone and a debounced Check add to
\* what will be deleted, and both record the job as done.
LEMMA AckStep == TypeInv /\ AckInv /\ [Next]_vars => AckInv'
<1> SUFFICES ASSUME TypeInv, AckInv, [Next]_vars PROVE AckInv' OBVIOUS
<1>t. TypeOK BY DEF TypeInv
<1>1. CASE UNCHANGED vars BY <1>1 DEF vars, AckInv, NothingLost
<1>2. CASE Tick
  <2>1. \A j \in Jobs : msg'[j].st = msg[j].st BY <1>2, <1>t DEF Tick, TypeOK, Message
  <2>2. \A w \in Workers : worker'[w].ok = worker[w].ok
    BY <1>2, <1>t DEF Tick, TypeOK, Process
  <2> QED BY <1>2, <2>1, <2>2 DEF Tick, AckInv, NothingLost
<1>3. ASSUME NEW j \in Jobs, Send(j) \/ Redrive(j) PROVE AckInv'
  <2>1. \A k \in Jobs : msg'[k].st = "deleted" => msg[k].st = "deleted"
    BY <1>3, <1>t DEF Send, Redrive, TypeOK, Message
  <2>2. worker' = worker /\ done' = done BY <1>3 DEF Send, Redrive
  <2> QED BY <2>1, <2>2 DEF AckInv, NothingLost
\* A step that changes only worker w's record and keeps, shrinks or empties ok.
<1>4. ASSUME NEW w \in Workers, NEW p \in Process, Holds(w, p), p.ok \subseteq worker[w].ok,
             worker' = [worker EXCEPT ![w] = p], done' = done,
             \A j \in Jobs : msg'[j].st = "deleted" => j \in done
      PROVE  AckInv'
  BY <1>4, OneWorker DEF AckInv, NothingLost
<1>5. ASSUME NEW w \in Workers, NEW s \in Batches(w), Receive(w, s) PROVE AckInv'
  <2>1. \A k \in Jobs : msg'[k].st = msg[k].st BY <1>5, <1>t DEF Receive, TypeOK, Message
  <2>2. worker'[w].ok = {} /\ \A v \in Workers : v # w => worker'[v] = worker[v]
    BY <1>5, <1>t DEF Receive, TypeOK
  <2> QED BY <1>5, <2>1, <2>2 DEF Receive, AckInv, NothingLost
<1>6. msg' = msg => \A j \in Jobs : msg'[j].st = "deleted" => j \in done
  BY DEF AckInv, NothingLost
<1>7. ASSUME NEW w \in Workers, Take(w) PROVE AckInv'
  BY <1>4, <1>6, <1>7, <1>t, NextMessageType, AtType DEF Take
<1>8. ASSUME NEW w \in Workers, EndBatch(w) PROVE AckInv'
  <2>1. CASE ~(w \in Lambda /\ worker[w].ok # {})
    BY <1>4, <1>6, <1>8, <2>1, ReadyType DEF EndBatch
  <2>2. CASE w \in Lambda /\ worker[w].ok # {}
    BY <1>4, <1>6, <1>8, <2>2, <1>t, AtType DEF EndBatch
  <2> QED BY <2>1, <2>2
<1>9. ASSUME NEW w \in Workers, Stop(w) PROVE AckInv'
  BY <1>9 DEF Stop, AckInv, NothingLost
<1>10. ASSUME NEW w \in Workers, Halt(w) PROVE AckInv'
  BY <1>4, <1>6, <1>10, StoppedType DEF Halt
<1>11. ASSUME NEW w \in Workers, worker[w].pc \in {"checking", "running"},
              worker' = [worker EXCEPT ![w] = Returned(w)],
              done' = done \cup {Current(w).j}, msg' = msg
       PROVE  AckInv'
  <2>1. worker[w].batch # <<>> BY <1>11 DEF TypeInv, Holds
  <2>2. /\ Returned(w) \in Process /\ Holds(w, Returned(w))
        /\ Returned(w).ok \subseteq worker[w].ok \cup {Current(w)}
    BY <2>1, <1>t, ReturnedType
  <2> QED BY <1>11, <2>2, OneWorker DEF AckInv, NothingLost
<1>12. ASSUME NEW w \in Workers, Check(w) PROVE AckInv'
  <2>1. worker[w].pc = "checking" BY <1>12 DEF Check
  <2>2. CASE shouldDebounce(Current(w).j) BY <1>11, <1>12, <2>1, <2>2 DEF Check
  <2>3. CASE ~shouldDebounce(Current(w).j)
    <3>1. worker[w].batch # <<>> BY <2>1 DEF TypeInv, Holds
    <3> QED BY <1>4, <1>6, <1>12, <1>t, <2>3, <3>1, AtType DEF Check
  <2> QED BY <2>2, <2>3
<1>13. ASSUME NEW w \in Workers, HandlerDone(w) PROVE AckInv'
  BY <1>11, <1>13 DEF HandlerDone
<1>14. ASSUME NEW w \in Workers, HandlerFail(w) PROVE AckInv'
  <2>1. worker[w].batch # <<>> BY <1>14 DEF HandlerFail, TypeInv, Holds
  <2> QED BY <1>4, <1>6, <1>14, <1>t, <2>1, NextMessageType DEF HandlerFail
<1>15. ASSUME NEW w \in Workers, NEW D \in SUBSET worker[w].ok, Ack(w, D) PROVE AckInv'
  <2>1. \A r \in D : r.j \in done BY DEF AckInv
  <2>2. \A j \in Jobs : msg'[j].st = "deleted" => j \in done
    BY <1>15, <1>t, <2>1 DEF Ack, AckInv, NothingLost, TypeOK, Message
  <2> DEFINE p == IF w \in Lambda THEN Ready ELSE [NextMessage(w) EXCEPT !.ok = {}]
  <2>3. p \in Process /\ Holds(w, p) /\ p.ok = {}
    <3>1. CASE w \in Lambda BY <3>1, ReadyType
    <3>2. CASE w \notin Lambda
      <4>1. worker[w].batch # <<>> BY <1>15, <3>2 DEF Ack, TypeInv, Holds
      <4> QED BY <3>2, <4>1, <1>t, NextMessageType DEF Process, Holds
    <3> QED BY <3>1, <3>2
  <2>4. worker' = [worker EXCEPT ![w] = p] /\ done' = done BY <1>15 DEF Ack
  <2> HIDE DEF p
  <2> QED BY <1>4, <2>2, <2>3, <2>4
<1>16. ASSUME NEW w \in Workers, Crash(w) PROVE AckInv'
  BY <1>4, <1>6, <1>16, ReadyType DEF Crash
<1> QED BY <1>1, <1>2, <1>3, <1>5, <1>7, <1>8, <1>9, <1>10, <1>12, <1>13, <1>14,
           <1>15, <1>16 DEF Next, Step, Loop

(* No job is ever lost: a message that left the queue by a delete had its  *)
(* callback return without an error first.                                 *)
THEOREM JobsNeverLost == Spec => []NothingLost
<1>1. Init => AckInv BY DEF Init, AckInv, NothingLost, Ready, Unburdened
<1>2. AckInv => NothingLost BY DEF AckInv
<1> QED BY <1>1, <1>2, InitType, TypeStep, AckStep, PTL DEF Spec
-----------------------------------------------------------------------------
\* The mirror writes every row under idFor, which is never the id the worker
\* looks up, so a job that is done was reviewed; with it NewestHeadReviewed
\* follows from NothingLost.
ReviewInv ==
    /\ \A r \in review : r.id = idFor
    /\ done \subseteq reviewed

\* The row the worker looks up is not one the mirror writes.
LEMMA IdsDiffer == idFor # stateId
BY DEF idFor, stateId

\* Every step preserves ReviewInv: no Check debounces, so only HandlerDone adds
\* to the done jobs.
LEMMA ReviewStep == TypeInv /\ ReviewInv /\ [Next]_vars => ReviewInv'
<1> SUFFICES ASSUME TypeInv, ReviewInv, [Next]_vars PROVE ReviewInv' OBVIOUS
<1>1. CASE Tick
  <2>1. \A r \in review : [r EXCEPT !.age = IF @ < Window THEN @ + 1 ELSE @].id = r.id
    BY DEF TypeInv, TypeOK
  <2> QED BY <1>1, <2>1 DEF Tick, ReviewInv
<1>2. ASSUME NEW w \in Workers, Check(w) PROVE ReviewInv'
  <2>1. ~shouldDebounce(Current(w).j) BY IdsDiffer DEF ReviewInv, shouldDebounce
  <2> QED BY <1>2, <2>1 DEF Check, ReviewInv
<1>3. ASSUME NEW w \in Workers, HandlerDone(w) PROVE ReviewInv'
  BY <1>3 DEF HandlerDone, ReviewInv
<1>4. CASE UNCHANGED <<review, done, reviewed>> BY <1>4 DEF ReviewInv
<1> QED BY <1>1, <1>2, <1>3, <1>4
           DEF Next, Step, Loop, Send, Redrive, Receive, Take, EndBatch, Stop, Halt, HandlerFail,
               Ack, Crash, vars

(* Once its message is gone from the queue, the newest pushed head has     *)
(* been reviewed, for any number of pushes, workers, retries and crashes.  *)
THEOREM NewestPushReviewed == Spec => []NewestHeadReviewed
<1>1. Init => AckInv /\ ReviewInv
  BY DEF Init, AckInv, NothingLost, Ready, Unburdened, ReviewInv
<1>2. TypeInv /\ AckInv /\ ReviewInv => NewestHeadReviewed
  BY DEF TypeInv, TypeOK, AckInv, NothingLost, ReviewInv, NewestHeadReviewed
<1> QED BY <1>1, <1>2, InitType, TypeStep, AckStep, ReviewStep, PTL DEF Spec

-----------------------------------------------------------------------------
\* The jobs of a batch.
Held(b) == {b[i].j : i \in DOMAIN b}

\* A message in a worker's batch is hidden from the others until the worker has
\* been busy for the visibility timeout, so of two workers that hold the same
\* message one has.
Exclusive ==
    /\ \A w \in Workers : \A j \in Held(worker[w].batch) :
         msg[j].hidden + worker[w].ran >= Visibility
    /\ \A v, w \in Workers : v # w =>
         \A j \in Held(worker[v].batch) \cap Held(worker[w].batch) :
            worker[v].ran >= Visibility \/ worker[w].ran >= Visibility
    /\ \A w \in Workers : w \notin Lambda => Len(worker[w].batch) <= 1
    /\ \A w \in Workers : ~Busy(w) => worker[w].batch = <<>>

\* An empty batch holds no job.
LEMMA HeldNone == Held(<<>>) = {}
BY DEF Held

\* What a batch holds are jobs.
LEMMA HeldJobs == ASSUME NEW b \in Seq(Receipt) PROVE Held(b) \subseteq Jobs
<1>1. \A i \in DOMAIN b : b[i] \in Receipt
  <2>1. DOMAIN b = 1..Len(b) OBVIOUS
  <2> QED BY <2>1
<1> QED BY <1>1 DEF Held, Receipt

\* The current message is in the batch, and the rest of the batch is a part of
\* it: nothing, when the batch has one message.
LEMMA HeldTail ==
    ASSUME NEW b \in Seq(Receipt), b # <<>>
    PROVE  /\ Head(b).j \in Held(b)
           /\ Held(Tail(b)) \subseteq Held(b)
           /\ Len(b) <= 1 => Held(Tail(b)) = {}
           /\ Len(Tail(b)) <= Len(b)
<1>1. Len(b) \in Nat /\ Len(b) # 0 /\ DOMAIN b = 1..Len(b) OBVIOUS
<1>2. Head(b).j \in Held(b) BY <1>1 DEF Held
<1>3. DOMAIN Tail(b) = 1..(Len(b) - 1) /\ Len(Tail(b)) = Len(b) - 1
  <2>1. Tail(b) \in Seq(Receipt) /\ Len(Tail(b)) = Len(b) - 1 BY <1>1
  <2> QED BY <2>1
<1>4. \A i \in 1..(Len(b) - 1) : Tail(b)[i] = b[i + 1] BY <1>1
<1>5. Held(Tail(b)) \subseteq Held(b)
  <2>1. \A i \in 1..(Len(b) - 1) : i + 1 \in DOMAIN b BY <1>1
  <2> QED BY <1>3, <1>4, <2>1 DEF Held
<1>6. Len(b) <= 1 => DOMAIN Tail(b) = {} BY <1>1, <1>3
<1> QED BY <1>1, <1>2, <1>3, <1>5, <1>6 DEF Held

\* A step that leaves the hidden timers alone and lets worker w keep, shorten
\* or drop its batch, without setting its deadline back while it holds one.
LEMMA ExclusiveKept ==
    ASSUME TypeInv, Exclusive, NEW w \in Workers, NEW p \in Process, Holds(w, p),
           worker' = [worker EXCEPT ![w] = p],
           \A j \in Jobs : msg'[j].hidden = msg[j].hidden,
           Held(p.batch) \subseteq Held(worker[w].batch),
           Held(p.batch) = {} \/ p.ran = worker[w].ran,
           Len(p.batch) <= Len(worker[w].batch),
           p.pc \in {"poll", "stopped"} => p.batch = <<>>
    PROVE  Exclusive'
<1>1. \A v \in Workers : worker'[v] = IF v = w THEN p ELSE worker[v] BY OneWorker
<1>2. \A v \in Workers : \A j \in Held(worker[v].batch) : j \in Jobs
  <2>1. \A v \in Workers : worker[v].batch \in Seq(Receipt) BY DEF TypeInv, TypeOK, Process
  <2> QED BY <2>1, HeldJobs
<1>3. \A v \in Workers : \A j \in Held(worker'[v].batch) :
        msg'[j].hidden + worker'[v].ran >= Visibility
  BY <1>1, <1>2 DEF Exclusive
<1>4. \A u, v \in Workers : u # v =>
        \A j \in Held(worker'[u].batch) \cap Held(worker'[v].batch) :
           worker'[u].ran >= Visibility \/ worker'[v].ran >= Visibility
  <2> SUFFICES ASSUME NEW u \in Workers, NEW v \in Workers, u # v,
                      NEW j \in Held(worker'[u].batch) \cap Held(worker'[v].batch)
               PROVE  worker'[u].ran >= Visibility \/ worker'[v].ran >= Visibility
    OBVIOUS
  <2>1. \A x \in {u, v} : j \in Held(worker[x].batch) /\ worker'[x].ran = worker[x].ran
    BY <1>1
  <2> QED BY <2>1 DEF Exclusive
<1>5. \A v \in Workers : v \notin Lambda => Len(worker'[v].batch) <= 1
  <2>1. p.batch \in Seq(Receipt) /\ worker[w].batch \in Seq(Receipt)
    BY DEF TypeInv, TypeOK, Process
  <2> QED BY <1>1, <2>1 DEF Exclusive
<1>6. \A v \in Workers : ~Busy(v)' => worker'[v].batch = <<>>
  BY <1>1 DEF Exclusive, Busy, Process
<1> QED BY <1>3, <1>4, <1>5, <1>6 DEF Exclusive

\* Going on to the next message shortens the batch; only a poller's deadline is
\* set back, and its batch is over.
LEMMA NextMessageKeeps ==
    ASSUME TypeInv, Exclusive, NEW w \in Workers, worker[w].batch # <<>>
    PROVE  /\ Held(NextMessage(w).batch) \subseteq Held(worker[w].batch)
           /\ Held(NextMessage(w).batch) = {} \/ NextMessage(w).ran = worker[w].ran
           /\ Len(NextMessage(w).batch) <= Len(worker[w].batch)
<1>1. worker[w].batch \in Seq(Receipt) BY DEF TypeInv, TypeOK, Process
<1>2. NextMessage(w).batch = Tail(worker[w].batch)
      /\ NextMessage(w).ran = IF w \in Lambda THEN worker[w].ran ELSE 0
  BY DEF NextMessage
<1> QED BY <1>1, <1>2, HeldTail DEF Exclusive

\* Every step preserves Exclusive.
LEMMA ExclusiveStep ==
    ASSUME TypeInv, Exclusive, [Next]_vars
    PROVE  Exclusive'
<1>t. TypeOK BY DEF TypeInv
<1>b. \A w \in Workers : worker[w].batch \in Seq(Receipt) /\ worker[w].ran \in Nat
  BY <1>t, BoundsAssumption DEF TypeOK, Process
<1>h. \A j \in Jobs : msg[j].hidden \in Nat BY <1>t, BoundsAssumption DEF TypeOK, Message
<1>j. \A w \in Workers : \A j \in Held(worker[w].batch) : j \in Jobs
  BY <1>b, HeldJobs
<1>1. CASE UNCHANGED vars BY <1>1 DEF vars, Exclusive, Busy
<1>2. CASE Tick
  <2>1. \A j \in Jobs : msg'[j].hidden = Less(msg[j].hidden)
    BY <1>2, <1>t DEF Tick, TypeOK, Message
  <2>2. \A w \in Workers : /\ worker'[w].batch = worker[w].batch /\ worker'[w].pc = worker[w].pc
                           /\ worker'[w].ran = IF Busy(w) THEN worker[w].ran + 1 ELSE worker[w].ran
    BY <1>2, <1>t DEF Tick, TypeOK, Process
  <2>3. ASSUME NEW w \in Workers, NEW j \in Held(worker[w].batch)
        PROVE  msg'[j].hidden + worker'[w].ran >= Visibility
    <3>1. Busy(w) BY HeldNone DEF Exclusive
    <3>2. msg[j].hidden + worker[w].ran >= Visibility /\ j \in Jobs BY <1>j DEF Exclusive
    <3>3. Less(msg[j].hidden) + (worker[w].ran + 1) >= Visibility
      BY <1>b, <1>h, <3>2, <3>1, <1>2, BoundsAssumption DEF Less, Tick
    <3> QED BY <2>1, <2>2, <3>1, <3>2, <3>3
  <2>4. \A v, w \in Workers : v # w =>
          \A j \in Held(worker'[v].batch) \cap Held(worker'[w].batch) :
             worker'[v].ran >= Visibility \/ worker'[w].ran >= Visibility
    <3>1. \A w \in Workers : worker[w].ran >= Visibility => worker'[w].ran >= Visibility
      BY <1>b, <2>2, BoundsAssumption
    <3> QED BY <2>2, <3>1 DEF Exclusive
  <2> QED BY <2>2, <2>3, <2>4 DEF Exclusive, Busy
<1>3. ASSUME NEW j \in Jobs, Send(j) \/ Redrive(j) PROVE Exclusive'
  <2>1. \A k \in Jobs : msg'[k].hidden = msg[k].hidden
    BY <1>3, <1>t DEF Send, Redrive, TypeOK, Message
  <2>2. worker' = worker BY <1>3 DEF Send, Redrive
  <2> QED BY <1>j, <2>1, <2>2 DEF Exclusive, Busy
<1>4. ASSUME NEW w \in Workers, NEW s \in Batches(w), Receive(w, s) PROVE Exclusive'
  <2> DEFINE b == [i \in DOMAIN s |-> [j |-> s[i], n |-> msg[s[i]].receives + 1]]
  <2>1. PICK n \in 1..(IF w \in Lambda THEN BatchSize ELSE 1) : s \in [1..n -> Receivable]
    BY DEF Batches
  <2>2. DOMAIN s = 1..n /\ n \in Nat /\ (w \notin Lambda => n = 1) BY <2>1, BoundsAssumption
  <2>3. worker'[w] = [pc |-> "next", ran |-> 0, ok |-> {}, batch |-> b]
        /\ \A v \in Workers : v # w => worker'[v] = worker[v]
    BY <1>4, <1>t DEF Receive, TypeOK
  <2>4. Held(b) = {s[i] : i \in DOMAIN s} BY DEF Held
  <2>5. \A j \in Held(b) : j \in Jobs /\ msg[j].hidden = 0 /\ msg'[j].hidden = Visibility
    <3>1. \A i \in DOMAIN s : s[i] \in Jobs /\ msg[s[i]].hidden = 0
      BY <2>1, <2>2 DEF Receivable, Visible
    <3>2. \A j \in Jobs : (\E i \in DOMAIN s : s[i] = j) => msg'[j].hidden = Visibility
      BY <1>4, <1>t DEF Receive, TypeOK, Message
    <3> QED BY <2>4, <3>1, <3>2
  <2>6. \A j \in Jobs : j \notin Held(b) => msg'[j].hidden = msg[j].hidden
    BY <1>4, <2>4 DEF Receive
  <2>7. ASSUME NEW v \in Workers, NEW j \in Held(worker[v].batch), j \in Held(b)
        PROVE  worker[v].ran >= Visibility
    <3>1. msg[j].hidden + worker[v].ran >= Visibility /\ msg[j].hidden = 0
      BY <2>5, <2>7 DEF Exclusive
    <3> QED BY <1>b, <3>1, BoundsAssumption
  <2>8. Len(b) = n
    <3>1. b \in [1..n -> [j : Jobs, n : Nat]]
      <4>1. \A i \in DOMAIN s : s[i] \in Jobs /\ msg[s[i]].receives + 1 \in Nat
        BY <2>1, <2>2, <1>t, BoundsAssumption DEF Receivable, TypeOK, Message
      <4> QED BY <2>2, <4>1
    <3> HIDE DEF b
    <3> QED BY <2>2, <3>1
  <2> HIDE DEF b
  <2>9. \A v \in Workers : \A j \in Held(worker'[v].batch) :
          msg'[j].hidden + worker'[v].ran >= Visibility
    <3> SUFFICES ASSUME NEW v \in Workers, NEW j \in Held(worker'[v].batch)
                 PROVE  msg'[j].hidden + worker'[v].ran >= Visibility
      OBVIOUS
    <3>1. CASE v = w BY <2>3, <2>5, <3>1, BoundsAssumption
    <3>2. CASE v # w
      <4>1. j \in Held(worker[v].batch) /\ j \in Jobs /\ worker'[v].ran = worker[v].ran
        BY <1>j, <2>3, <3>2
      <4>2. CASE j \in Held(b)
        <5>1. worker[v].ran >= Visibility /\ msg'[j].hidden = Visibility BY <2>5, <2>7, <4>1, <4>2
        <5> QED BY <1>b, <4>1, <5>1, BoundsAssumption
      <4>3. CASE j \notin Held(b) BY <2>6, <4>1, <4>3 DEF Exclusive
      <4> QED BY <4>2, <4>3
    <3> QED BY <3>1, <3>2
  <2>10. \A u, v \in Workers : u # v =>
           \A j \in Held(worker'[u].batch) \cap Held(worker'[v].batch) :
              worker'[u].ran >= Visibility \/ worker'[v].ran >= Visibility
    <3> SUFFICES ASSUME NEW u \in Workers, NEW v \in Workers, u # v,
                        NEW j \in Held(worker'[u].batch) \cap Held(worker'[v].batch)
                 PROVE  worker'[u].ran >= Visibility \/ worker'[v].ran >= Visibility
      OBVIOUS
    <3>1. \A x \in Workers : x # w => worker'[x] = worker[x] BY <2>3
    <3>2. worker'[w].batch = b BY <2>3
    <3>3. CASE u # w /\ v # w BY <3>1, <3>3 DEF Exclusive
    <3>4. CASE u = w
      <4>1. worker[v].ran >= Visibility BY <2>7, <3>1, <3>2, <3>4
      <4> QED BY <3>1, <3>4, <4>1
    <3>5. CASE v = w
      <4>1. worker[u].ran >= Visibility BY <2>7, <3>1, <3>2, <3>5
      <4> QED BY <3>1, <3>5, <4>1
    <3> QED BY <3>3, <3>4, <3>5
  <2>11. \A v \in Workers : v \notin Lambda => Len(worker'[v].batch) <= 1
    BY <2>2, <2>3, <2>8 DEF Exclusive
  <2>12. \A v \in Workers : ~Busy(v)' => worker'[v].batch = <<>>
    BY <2>3 DEF Exclusive, Busy
  <2> QED BY <2>9, <2>10, <2>11, <2>12 DEF Exclusive
\* A worker that drops its batch.
<1>5. ASSUME NEW w \in Workers, NEW p \in Process, Holds(w, p), p.batch = <<>>,
             worker' = [worker EXCEPT ![w] = p],
             \A j \in Jobs : msg'[j].hidden = msg[j].hidden
      PROVE  Exclusive'
  <2>1. Held(p.batch) = {} /\ Len(p.batch) = 0 /\ Len(worker[w].batch) \in Nat
    BY <1>5, <1>b, HeldNone
  <2>2. Held(p.batch) \subseteq Held(worker[w].batch) /\ Len(p.batch) <= Len(worker[w].batch)
    BY <2>1
  <2> QED BY <2>2, <1>5, <2>1, ExclusiveKept
\* A worker that stays with its message.
<1>6. ASSUME NEW w \in Workers, NEW p \in Process, Holds(w, p),
             p.batch = worker[w].batch, p.ran = worker[w].ran, p.pc \notin {"poll", "stopped"},
             worker' = [worker EXCEPT ![w] = p], msg' = msg
      PROVE  Exclusive'
  <2>1. Len(worker[w].batch) \in Nat BY <1>b
  <2>2. /\ Held(p.batch) \subseteq Held(worker[w].batch) /\ Len(p.batch) <= Len(worker[w].batch)
        /\ \A j \in Jobs : msg'[j].hidden = msg[j].hidden
    BY <1>6, <2>1
  <2> QED BY <2>2, <1>6, <2>1, ExclusiveKept
\* A worker that goes on to the next message.
<1>7. ASSUME NEW w \in Workers, NEW p \in Process, Holds(w, p), worker[w].batch # <<>>,
             p.batch = NextMessage(w).batch, p.ran = NextMessage(w).ran, p.pc = "next",
             worker' = [worker EXCEPT ![w] = p],
             \A j \in Jobs : msg'[j].hidden = msg[j].hidden
      PROVE  Exclusive'
  BY <1>7, NextMessageKeeps, ExclusiveKept
<1>8. ASSUME NEW w \in Workers, NEW pc \in {"checking", "running", "acking"}
      PROVE  At(w, pc).batch = worker[w].batch /\ At(w, pc).ran = worker[w].ran /\ At(w, pc).pc = pc
  BY <1>t DEF At, TypeOK, Process
<1>9. ASSUME NEW w \in Workers, Take(w) PROVE Exclusive'
  <2>1. worker[w].batch # <<>> /\ msg' = msg BY <1>9 DEF Take
  <2>2. CASE kind[Current(w).j] = "malformed"
    BY <1>7, <1>9, <1>t, <2>1, <2>2, NextMessageType DEF Take
  <2>3. CASE kind[Current(w).j] # "malformed"
    <3>1. PICK pc \in {"checking", "running"} : worker' = [worker EXCEPT ![w] = At(w, pc)]
      BY <1>9, <2>3 DEF Take
    <3> QED BY <1>6, <1>8, <1>t, <2>1, <3>1, AtType
  <2> QED BY <2>2, <2>3
<1>10. ASSUME NEW w \in Workers, EndBatch(w) PROVE Exclusive'
  <2>1. CASE ~(w \in Lambda /\ worker[w].ok # {})
    <3>1. Ready.batch = <<>> BY DEF Ready, Unburdened
    <3> QED BY <1>5, <1>10, <2>1, <3>1, ReadyType DEF EndBatch
  <2>2. CASE w \in Lambda /\ worker[w].ok # {}
    BY <1>6, <1>8, <1>10, <1>t, <2>2, AtType DEF EndBatch
  <2> QED BY <2>1, <2>2
<1>11. ASSUME NEW w \in Workers, Stop(w) PROVE Exclusive'
  BY <1>11 DEF Stop, Exclusive, Busy
<1>12. ASSUME NEW w \in Workers, Halt(w) PROVE Exclusive'
  <2>1. Unburdened("stopped").batch = <<>> BY DEF Unburdened
  <2> QED BY <1>5, <1>12, <2>1, StoppedType DEF Halt
<1>13. ASSUME NEW w \in Workers, worker[w].pc \in {"checking", "running"},
              worker' = [worker EXCEPT ![w] = Returned(w)], msg' = msg
       PROVE  Exclusive'
  <2>1. worker[w].batch # <<>> BY <1>13 DEF TypeInv, Holds
  <2>2. Returned(w) \in Process /\ Holds(w, Returned(w)) BY <1>t, <2>1, ReturnedType
  <2>3. CASE w \in Lambda
    <3>1. /\ Returned(w).batch = NextMessage(w).batch /\ Returned(w).ran = NextMessage(w).ran
          /\ Returned(w).pc = "next"
      BY <2>3 DEF Returned, NextMessage
    <3> QED BY <1>7, <1>13, <2>1, <2>2, <3>1
  <2>4. CASE w \notin Lambda
    <3>1. /\ Returned(w).batch = worker[w].batch /\ Returned(w).ran = worker[w].ran
          /\ Returned(w).pc = "acking"
      BY <2>4, <1>t DEF Returned, TypeOK, Process
    <3> QED BY <1>6, <1>13, <2>2, <3>1
  <2> QED BY <2>3, <2>4
<1>14. ASSUME NEW w \in Workers, Check(w) PROVE Exclusive'
  <2>1. worker[w].pc = "checking" /\ msg' = msg BY <1>14 DEF Check
  <2>2. CASE shouldDebounce(Current(w).j) BY <1>13, <1>14, <2>1, <2>2 DEF Check
  <2>3. CASE ~shouldDebounce(Current(w).j)
    <3>1. worker[w].batch # <<>> BY <2>1 DEF TypeInv, Holds
    <3>2. worker' = [worker EXCEPT ![w] = At(w, "running")] BY <1>14, <2>3 DEF Check
    <3> QED BY <1>6, <1>8, <1>t, <2>1, <3>1, <3>2, AtType
  <2> QED BY <2>2, <2>3
<1>15. ASSUME NEW w \in Workers, HandlerDone(w) PROVE Exclusive'
  BY <1>13, <1>15 DEF HandlerDone
<1>16. ASSUME NEW w \in Workers, HandlerFail(w) PROVE Exclusive'
  <2>1. worker[w].batch # <<>> BY <1>16 DEF HandlerFail, TypeInv, Holds
  <2> QED BY <1>7, <1>16, <1>t, <2>1, NextMessageType DEF HandlerFail
<1>17. ASSUME NEW w \in Workers, NEW D \in SUBSET worker[w].ok, Ack(w, D) PROVE Exclusive'
  <2>1. \A j \in Jobs : msg'[j].hidden = msg[j].hidden BY <1>17, <1>t DEF Ack, TypeOK, Message
  <2>2. CASE w \in Lambda
    <3>1. Ready.batch = <<>> BY DEF Ready, Unburdened
    <3> QED BY <1>5, <1>17, <2>1, <2>2, <3>1, ReadyType DEF Ack
  <2>3. CASE w \notin Lambda
    <3>1. worker[w].batch # <<>> BY <1>17, <2>3 DEF Ack, TypeInv, Holds
    <3> DEFINE p == [NextMessage(w) EXCEPT !.ok = {}]
    <3>2. /\ p \in Process /\ Holds(w, p) /\ p.pc = "next"
          /\ p.batch = NextMessage(w).batch /\ p.ran = NextMessage(w).ran
      BY <1>t, <3>1, NextMessageType DEF Process, Holds
    <3>3. worker' = [worker EXCEPT ![w] = p] BY <1>17, <2>3 DEF Ack
    <3> HIDE DEF p
    <3> QED BY <1>7, <2>1, <3>1, <3>2, <3>3
  <2> QED BY <2>2, <2>3
<1>18. ASSUME NEW w \in Workers, Crash(w) PROVE Exclusive'
  <2>1. Ready.batch = <<>> BY DEF Ready, Unburdened
  <2> QED BY <1>5, <1>18, <2>1, ReadyType DEF Crash
<1> QED BY <1>1, <1>2, <1>3, <1>4, <1>9, <1>10, <1>11, <1>12, <1>14, <1>15, <1>16, <1>17, <1>18
           DEF Next, Step, Loop

(* Two workers review one job at once only when the visibility timeout ran *)
(* out under one of them, for any timeout and any length of reviews,       *)
(* whatever is redelivered, batched or crashes in between.                 *)
THEOREM ReviewsOverlapLate == Spec => []OverlapsAreLate
<1>1. Init => Exclusive
  BY HeldNone DEF Init, Exclusive, Ready, Unburdened, Busy
<1>2. TypeInv /\ Exclusive => OverlapsAreLate
  <2> SUFFICES ASSUME TypeInv, Exclusive, NEW v \in Workers, NEW w \in Workers, v # w,
                      worker[v].pc = "running", worker[w].pc = "running",
                      Current(v).j = Current(w).j
               PROVE  worker[v].ran >= Visibility \/ worker[w].ran >= Visibility
    BY DEF OverlapsAreLate
  <2>1. /\ worker[v].batch \in Seq(Receipt) /\ worker[w].batch \in Seq(Receipt)
        /\ worker[v].batch # <<>> /\ worker[w].batch # <<>>
    BY DEF TypeInv, TypeOK, Process, Holds
  <2>2. Current(v).j \in Held(worker[v].batch) /\ Current(w).j \in Held(worker[w].batch)
    BY <2>1, HeldTail DEF Current
  <2> QED BY <2>2 DEF Exclusive
<1>3. TypeInv /\ Exclusive /\ [Next]_vars => Exclusive'
  BY ExclusiveStep
<1> QED BY <1>1, <1>2, <1>3, InitType, TypeStep, PTL DEF Spec
-----------------------------------------------------------------------------
(* The workspace of a review: what the variables hold.                     *)
Commit == Nat \ {0}
Stages == {"start", "read", "provision", "contents-api", "sparse-clone", "cloning", "ready",
           "done", "failed", "killed"}
Outcomes == {"none", "original", "rm"}
SpaceInput == [strategy : Space!Strategies, clone : BOOLEAN, headSha : Nat, diff : Nat,
               files : SUBSET Files]
SpaceTypeOK ==
    /\ trees \in Seq(SUBSET Files)
    /\ input \in SpaceInput
    /\ prov \in Stages
    /\ todo \subseteq Files
    /\ target \in Nat
    /\ dir \in BOOLEAN /\ cleaned \in BOOLEAN /\ stuck \in BOOLEAN
    /\ written \subseteq Files \X Nat
    /\ thrown \in Outcomes

\* The commits a job has read are commits of the pull request.
CommitsInv ==
    /\ Len(trees) >= 1
    /\ prov # "start" => input.headSha \in 1..Len(trees)
    /\ prov \notin {"start", "read", "killed"} => input.diff \in 1..Len(trees)
    /\ prov = "cloning" \/ (prov = "ready" /\ input.strategy = "sparse-clone") =>
         target \in 1..Len(trees) /\ target >= input.headSha

\* Whether there is a directory, while the job runs and after it.
DirInv ==
    /\ prov \in {"start", "read", "provision"} => ~dir /\ written = {}
    /\ prov \notin {"done", "failed", "killed"} => ~cleaned
    /\ input.strategy = "none" => ~dir
    /\ prov \in {"done", "failed"} /\ dir => stuck /\ thrown = "rm"
    /\ prov \in {"contents-api", "sparse-clone"} => input.strategy = prov
    /\ prov = "cloning" => input.strategy = "sparse-clone"

\* What it holds: of the files the diff names, those that were looked at.
Fetched == {f \in input.files \ todo : f \in trees[input.diff] /\ f \notin Denied}
Names == {w[1] : w \in written}
FilesInv ==
    /\ prov = "contents-api" \/ (prov = "ready" /\ input.strategy = "contents-api") =>
         /\ \A w \in written : w[2] = input.headSha
         /\ todo \subseteq input.files /\ Names = Fetched
    /\ prov = "ready" /\ input.strategy = "contents-api" => todo = {}
    /\ prov = "ready" /\ input.strategy = "none" => written = {}
    /\ prov = "ready" /\ input.strategy = "sparse-clone" =>
         /\ \A w \in written : w[2] = target
         /\ {f \in input.files \cap trees[target] : f \notin Denied} \subseteq Names

SpaceInv == SpaceTypeOK /\ CommitsInv /\ DirInv /\ FilesInv

-----------------------------------------------------------------------------
LEMMA SpaceStarts ==
    ASSUME Space!Init
    PROVE  SpaceInv
<1>1. PICK t \in SUBSET Files : trees = <<t>>
  BY DEF Space!Init
<1>2. /\ prov = "start" /\ todo = {} /\ target = 0 /\ ~dir /\ ~cleaned
      /\ dir \in BOOLEAN /\ cleaned \in BOOLEAN /\ stuck \in BOOLEAN
      /\ written = {} /\ thrown = "none" /\ input \in SpaceInput
  <2>1. input \in [strategy : Space!Strategies, clone : BOOLEAN, headSha : {0}, diff : {0},
                  files : {{}}]
    BY DEF Space!Init
  <2>2. input \in SpaceInput
    BY <2>1 DEF SpaceInput
  <2> QED
    BY <2>2 DEF Space!Init
<1>3. trees \in Seq(SUBSET Files)
  BY <1>1
<1>4. SpaceTypeOK
  BY <1>2, <1>3 DEF SpaceTypeOK, Stages, Outcomes
<1>5. Len(trees) = 1
  BY <1>1
<1> QED
  BY <1>2, <1>4, <1>5 DEF SpaceInv, CommitsInv, DirInv, FilesInv

\* A push adds a commit and moves none.
LEMMA SpacePushes ==
    ASSUME SpaceInv, Space!Push
    PROVE  SpaceInv'
<1>1. PICK t \in SUBSET Files : trees' = Append(trees, t)
  BY DEF Space!Push
<1>2. /\ trees \in Seq(SUBSET Files) /\ input \in SpaceInput
      /\ UNCHANGED <<input, prov, todo, target, dir, written, cleaned, thrown, stuck>>
  BY DEF SpaceInv, SpaceTypeOK, Space!Push, Space!held
<1>3. /\ trees' \in Seq(SUBSET Files) /\ Len(trees') = Len(trees) + 1
      /\ \A c \in 1..Len(trees) : trees'[c] = trees[c]
  BY <1>1, <1>2
<1>4. SpaceTypeOK' /\ DirInv'
  BY <1>2, <1>3 DEF SpaceInv, SpaceTypeOK, DirInv
<1>5. CommitsInv'
  BY <1>2, <1>3 DEF SpaceInv, CommitsInv, SpaceTypeOK
<1>6. Names' = Names
  BY <1>2 DEF Names
<1>7. prov \in {"contents-api", "ready"} => Fetched' = Fetched
  BY <1>2, <1>3 DEF SpaceInv, CommitsInv, Fetched
<1>8. prov = "ready" /\ input.strategy = "sparse-clone" => trees'[target] = trees[target]
  BY <1>3 DEF SpaceInv, CommitsInv
<1>9. FilesInv'
  BY <1>2, <1>6, <1>7, <1>8 DEF SpaceInv, FilesInv
<1> QED
  BY <1>4, <1>5, <1>9 DEF SpaceInv

\* The caller reads the pull request and its diff.
LEMMA SpaceReads ==
    ASSUME SpaceInv, Space!ReadHead \/ Space!ReadDiff
    PROVE  SpaceInv'
<1>1. /\ trees \in Seq(SUBSET Files) /\ Len(trees) \in Nat /\ input \in SpaceInput
      /\ UNCHANGED <<trees, todo, target, dir, written, cleaned, thrown, stuck>>
  <2>1. trees \in Seq(SUBSET Files) /\ input \in SpaceInput
    BY DEF SpaceInv, SpaceTypeOK
  <2>2. UNCHANGED <<trees, todo, target, dir, written, cleaned, thrown, stuck>>
    BY DEF Space!ReadHead, Space!ReadDiff, Space!held
  <2> QED
    BY <2>1, <2>2
<1>2. CASE Space!ReadHead
  <2>1. /\ prov = "start" /\ prov' = "read"
        /\ input' = [input EXCEPT !.headSha = Len(trees)]
    BY <1>2 DEF Space!ReadHead, Space!head
  <2>2. /\ input' \in SpaceInput /\ input'.headSha = Len(trees)
        /\ input'.strategy = input.strategy
    BY <1>1, <2>1 DEF SpaceInput
  <2>3. SpaceTypeOK'
    BY <1>1, <2>1, <2>2 DEF SpaceInv, SpaceTypeOK, Stages
  <2>4. Len(trees) >= 1
    BY <1>1 DEF SpaceInv, CommitsInv
  <2>5. CommitsInv'
    BY <1>1, <2>1, <2>2, <2>4 DEF CommitsInv
  <2>6. DirInv' /\ FilesInv'
    BY <1>1, <2>1, <2>2 DEF SpaceInv, DirInv, FilesInv
  <2> QED
    BY <2>3, <2>5, <2>6 DEF SpaceInv
<1>3. CASE Space!ReadDiff
  <2>1. PICK changed \in SUBSET Files :
          input' = [input EXCEPT !.diff = Len(trees), !.files = changed]
    BY <1>3 DEF Space!ReadDiff, Space!head
  <2>2. prov = "read" /\ prov' = "provision"
    BY <1>3 DEF Space!ReadDiff
  <2>3. /\ input' \in SpaceInput /\ input'.headSha = input.headSha
        /\ input'.diff = Len(trees) /\ input'.strategy = input.strategy
    BY <1>1, <2>1 DEF SpaceInput
  <2>4. SpaceTypeOK'
    BY <1>1, <2>2, <2>3 DEF SpaceInv, SpaceTypeOK, Stages
  <2>5. CommitsInv'
    BY <1>1, <2>2, <2>3 DEF SpaceInv, CommitsInv
  <2>6. DirInv' /\ FilesInv'
    BY <1>1, <2>2, <2>3 DEF SpaceInv, DirInv, FilesInv
  <2> QED
    BY <2>4, <2>5, <2>6 DEF SpaceInv
<1> QED
  BY <1>2, <1>3

\* A strategy failed: what is left is explained.
LEMMA SpaceFails ==
    ASSUME SpaceInv, Space!CleanupAndThrow, prov \notin {"start", "read", "killed"},
           UNCHANGED <<trees, input, written>>, todo' \subseteq Files, target' \in Nat
    PROVE  SpaceInv'
<1>1. /\ prov' = "failed" /\ cleaned'
      /\ \/ ~dir' /\ thrown' = "original" /\ stuck' = stuck
         \/ thrown' = "rm" /\ stuck' /\ dir' = dir
      /\ dir' \in BOOLEAN /\ cleaned' \in BOOLEAN /\ stuck' \in BOOLEAN
  BY DEF Space!CleanupAndThrow, SpaceInv, SpaceTypeOK
<1>2. SpaceTypeOK'
  BY <1>1 DEF SpaceInv, SpaceTypeOK, Stages, Outcomes
<1>3. CommitsInv'
  BY <1>1 DEF SpaceInv, CommitsInv
<1>4. DirInv'
  BY <1>1 DEF SpaceInv, DirInv
<1>5. FilesInv'
  BY <1>1 DEF FilesInv
<1> QED
  BY <1>2, <1>3, <1>4, <1>5 DEF SpaceInv

\* mkdtemp, or its failure, or no directory at all.
LEMMA SpaceProvisions ==
    ASSUME SpaceInv, Space!provisionWorkspace
    PROVE  SpaceInv'
<1>1. /\ prov = "provision" /\ UNCHANGED <<trees, input, target, written, cleaned, stuck>>
      /\ input \in SpaceInput /\ ~dir /\ written = {}
  BY DEF SpaceInv, SpaceTypeOK, DirInv, Space!provisionWorkspace, Space!held
<1>2. CASE input.strategy = "none" /\ prov' = "ready" /\ UNCHANGED <<dir, thrown, todo>>
  <2>1. SpaceTypeOK'
    BY <1>1, <1>2 DEF SpaceInv, SpaceTypeOK, Stages
  <2>2. CommitsInv'
    BY <1>1, <1>2 DEF SpaceInv, CommitsInv
  <2>3. DirInv' /\ FilesInv'
    BY <1>1, <1>2 DEF SpaceInv, DirInv, FilesInv
  <2> QED
    BY <2>1, <2>2, <2>3 DEF SpaceInv
<1>3. CASE /\ input.strategy # "none" /\ prov' = input.strategy /\ todo' = input.files
           /\ dir' = TRUE /\ thrown' = thrown
  <2>1. input.strategy \in {"contents-api", "sparse-clone"} /\ input.files \subseteq Files
    BY <1>1, <1>3 DEF SpaceInput, Space!Strategies
  <2>2. SpaceTypeOK'
    BY <1>1, <1>3, <2>1 DEF SpaceInv, SpaceTypeOK, Stages
  <2>3. CommitsInv'
    BY <1>1, <1>3, <2>1 DEF SpaceInv, CommitsInv
  <2>4. DirInv'
    BY <1>1, <1>3, <2>1 DEF SpaceInv, DirInv
  <2>5. Names' = {} /\ Fetched' = {}
    BY <1>1, <1>3 DEF Names, Fetched
  <2>6. FilesInv'
    BY <1>1, <1>3, <2>1, <2>5 DEF FilesInv
  <2> QED
    BY <2>2, <2>3, <2>4, <2>6 DEF SpaceInv
<1>4. CASE prov' = "failed" /\ thrown' = "original" /\ UNCHANGED <<dir, todo>>
  <2>1. SpaceTypeOK'
    BY <1>1, <1>4 DEF SpaceInv, SpaceTypeOK, Stages, Outcomes
  <2>2. CommitsInv'
    BY <1>1, <1>4 DEF SpaceInv, CommitsInv
  <2>3. DirInv' /\ FilesInv'
    BY <1>1, <1>4 DEF SpaceInv, DirInv, FilesInv
  <2> QED
    BY <2>1, <2>2, <2>3 DEF SpaceInv
<1> QED
  BY <1>1, <1>2, <1>3, <1>4 DEF Space!provisionWorkspace, Space!held

\* One file of the diff is skipped, fetched or fails.
LEMMA SpaceFetches ==
    ASSUME SpaceInv, Space!contentsApiFetch
    PROVE  SpaceInv'
<1>1. /\ prov = "contents-api" /\ UNCHANGED <<trees, input, target>>
      /\ input \in SpaceInput /\ input.files \subseteq Files /\ input.headSha \in Nat
      /\ input.strategy = "contents-api"
      /\ \A w \in written : w[2] = input.headSha
      /\ todo \subseteq input.files /\ Names = Fetched
  BY DEF SpaceInv, SpaceTypeOK, DirInv, FilesInv, Space!contentsApiFetch, SpaceInput
<1>2. ASSUME NEW f \in todo, todo' = todo \ {f}, f \notin trees[input.diff] \/ f \in Denied,
             UNCHANGED <<prov, dir, written, cleaned, thrown, stuck>>
      PROVE  SpaceInv'
  <2>1. Fetched' = Fetched /\ Names' = Names
    BY <1>1, <1>2 DEF Fetched, Names
  <2>2. SpaceTypeOK' /\ CommitsInv' /\ DirInv'
    BY <1>1, <1>2 DEF SpaceInv, SpaceTypeOK, CommitsInv, DirInv
  <2>3. FilesInv'
    BY <1>1, <1>2, <2>1 DEF FilesInv
  <2> QED
    BY <2>2, <2>3 DEF SpaceInv
<1>3. ASSUME NEW f \in todo, todo' = todo \ {f}, f \in trees[input.diff], f \notin Denied,
             written' = written \cup {<<f, input.headSha>>},
             UNCHANGED <<prov, dir, cleaned, thrown, stuck>>
      PROVE  SpaceInv'
  <2>1. Fetched' = Fetched \cup {f}
    BY <1>1, <1>3 DEF Fetched
  <2>2. Names' = Names \cup {f}
    <3>1. ASSUME NEW n
          PROVE  n \in Names' <=> n \in Names \/ n = f
      <4>1. n \in Names' <=> (\E w \in written : w[1] = n) \/ <<f, input.headSha>>[1] = n
        BY <1>3 DEF Names
      <4>2. <<f, input.headSha>>[1] = f
        OBVIOUS
      <4> QED
        BY <4>1, <4>2 DEF Names
    <3> QED
      BY <3>1
  <2>3. /\ written' \subseteq Files \X Nat /\ \A w \in written' : w[2] = input.headSha
    BY <1>1, <1>3 DEF SpaceInv, SpaceTypeOK
  <2>4. SpaceTypeOK' /\ CommitsInv' /\ DirInv'
    BY <1>1, <1>3, <2>3 DEF SpaceInv, SpaceTypeOK, CommitsInv, DirInv
  <2>5. FilesInv'
    BY <1>1, <1>3, <2>1, <2>2, <2>3 DEF FilesInv
  <2> QED
    BY <2>4, <2>5 DEF SpaceInv
<1>4. ASSUME NEW f \in todo, todo' = todo \ {f}, Space!CleanupAndThrow, UNCHANGED written
      PROVE  SpaceInv'
  <2>1. todo' \subseteq Files /\ target' \in Nat
    BY <1>1, <1>4 DEF SpaceInv, SpaceTypeOK
  <2> QED
    BY <1>1, <1>4, <2>1, SpaceFails
<1>5. CASE todo = {} /\ prov' = "ready"
           /\ UNCHANGED <<todo, dir, written, cleaned, thrown, stuck>>
  <2>1. Fetched' = Fetched /\ Names' = Names
    BY <1>1, <1>5 DEF Fetched, Names
  <2>2. SpaceTypeOK' /\ CommitsInv'
    BY <1>1, <1>5 DEF SpaceInv, SpaceTypeOK, CommitsInv, Stages
  <2>3. DirInv' /\ FilesInv'
    BY <1>1, <1>5, <2>1 DEF SpaceInv, DirInv, FilesInv
  <2> QED
    BY <2>2, <2>3 DEF SpaceInv
<1> QED
  BY <1>2, <1>3, <1>4, <1>5
     DEF Space!contentsApiFetch, Space!held, Space!removed, Space!pathIsAllowed

\* A workspace is cloned only where the platform can.
LEMMA SpaceClones ==
    ASSUME SpaceInv, Space!sparseClone
    PROVE  SpaceInv'
<1>1. /\ prov = "sparse-clone" /\ UNCHANGED <<trees, input, todo>>
      /\ input.strategy = "sparse-clone" /\ input.headSha \in 1..Len(trees)
      /\ Len(trees) \in Nat
  BY DEF SpaceInv, SpaceTypeOK, CommitsInv, DirInv, Space!sparseClone
<1>2. CASE /\ prov' = "cloning" /\ target' = Len(trees)
           /\ UNCHANGED <<dir, written, cleaned, thrown, stuck>>
  <2>1. SpaceTypeOK'
    BY <1>1, <1>2 DEF SpaceInv, SpaceTypeOK, Stages
  <2>2. CommitsInv'
    BY <1>1, <1>2 DEF SpaceInv, CommitsInv
  <2>3. DirInv' /\ FilesInv'
    BY <1>1, <1>2 DEF SpaceInv, DirInv, FilesInv
  <2> QED
    BY <2>1, <2>2, <2>3 DEF SpaceInv
<1>3. CASE Space!CleanupAndThrow /\ UNCHANGED <<target, written>>
  <2>1. todo' \subseteq Files /\ target' \in Nat
    BY <1>1, <1>3 DEF SpaceInv, SpaceTypeOK
  <2> QED
    BY <1>1, <1>3, <2>1, SpaceFails
<1> QED
  BY <1>2, <1>3 DEF Space!sparseClone, Space!held, Space!head

\* The directory of every allowed changed file is checked out.
LEMMA SparseCovers ==
    ASSUME NEW f \in Files, f \in input.files, f \notin Denied
    PROVE  Dir[f] \in Space!SparsePaths
  BY DEF Space!SparsePaths, Space!uniqueParentDirs, Space!pathIsAllowed

\* The clone holds the files of one commit.
LEMMA SpaceChecksOut ==
    ASSUME SpaceInv, Space!cloneWithStrategy
    PROVE  SpaceInv'
<1>1. /\ prov = "cloning" /\ UNCHANGED <<trees, input, todo, target>>
      /\ input.strategy = "sparse-clone" /\ input \in SpaceInput /\ input.files \subseteq Files
      /\ trees \in Seq(SUBSET Files) /\ target \in 1..Len(trees) /\ target \in Nat
  BY DEF SpaceInv, SpaceTypeOK, CommitsInv, DirInv, Space!cloneWithStrategy, SpaceInput
<1>2. trees[target] \subseteq Files
  BY <1>1
<1>3. CASE /\ written' = {<<f, target>> : f \in {g \in trees[target] : Dir[g] \in Space!SparsePaths}}
           /\ prov' = "ready" /\ UNCHANGED <<dir, cleaned, thrown, stuck>>
  <2>1. written' \subseteq Files \X Nat /\ \A w \in written' : w[2] = target
    BY <1>1, <1>2, <1>3
  <2>2. ASSUME NEW f \in input.files \cap trees[target], f \notin Denied
        PROVE  f \in Names'
    <3>1. Dir[f] \in Space!SparsePaths
      BY <1>2, <2>2, SparseCovers
    <3>2. <<f, target>> \in written' /\ <<f, target>>[1] = f
      BY <1>3, <2>2, <3>1
    <3> QED
      BY <3>2 DEF Names
  <2>3. SpaceTypeOK'
    BY <1>1, <1>3, <2>1 DEF SpaceInv, SpaceTypeOK, Stages
  <2>4. CommitsInv'
    BY <1>1, <1>3 DEF SpaceInv, CommitsInv
  <2>5. DirInv'
    BY <1>1, <1>3 DEF SpaceInv, DirInv
  <2>6. FilesInv'
    BY <1>1, <1>3, <2>1, <2>2 DEF FilesInv
  <2> QED
    BY <2>3, <2>4, <2>5, <2>6 DEF SpaceInv
<1>4. CASE Space!CleanupAndThrow /\ UNCHANGED written
  <2>1. todo' \subseteq Files /\ target' \in Nat
    BY <1>1, <1>4 DEF SpaceInv, SpaceTypeOK
  <2> QED
    BY <1>1, <1>4, <2>1, SpaceFails
<1> QED
  BY <1>3, <1>4 DEF Space!cloneWithStrategy

\* The caller is done, perhaps for the second time.
LEMMA SpaceCleans ==
    ASSUME SpaceInv, Space!cleanup
    PROVE  SpaceInv'
<1>1. /\ prov \in {"ready", "done"} /\ prov' = "done" /\ cleaned'
      /\ UNCHANGED <<trees, input, todo, target, written>>
      /\ prov = "ready" => ~cleaned
      /\ dir' \in BOOLEAN /\ cleaned' \in BOOLEAN /\ stuck' \in BOOLEAN /\ thrown' \in Outcomes
  BY DEF SpaceInv, SpaceTypeOK, DirInv, Outcomes, Space!cleanup
<1>2. dir' => stuck' /\ thrown' = "rm"
  <2>1. CASE cleaned /\ UNCHANGED <<dir, thrown, stuck>>
    BY <1>1, <2>1 DEF SpaceInv, DirInv
  <2>2. CASE input.strategy = "none" /\ UNCHANGED <<dir, thrown, stuck>>
    BY <2>2 DEF SpaceInv, DirInv
  <2>3. CASE dir' = FALSE
    BY <2>3
  <2>4. CASE thrown' = "rm" /\ stuck' = TRUE
    BY <2>4
  <2> QED
    BY <2>1, <2>2, <2>3, <2>4 DEF Space!cleanup
<1>3. input.strategy = "none" => ~dir'
  BY DEF SpaceInv, DirInv, Space!cleanup
<1>4. SpaceTypeOK'
  BY <1>1 DEF SpaceInv, SpaceTypeOK, Stages
<1>5. CommitsInv'
  BY <1>1 DEF SpaceInv, CommitsInv
<1>6. DirInv' /\ FilesInv'
  BY <1>1, <1>2, <1>3 DEF DirInv, FilesInv
<1> QED
  BY <1>4, <1>5, <1>6 DEF SpaceInv

\* The process is killed.
LEMMA SpaceDies ==
    ASSUME SpaceInv, Space!Kill
    PROVE  SpaceInv'
<1>1. /\ prov # "start" /\ prov' = "killed"
      /\ UNCHANGED <<trees, input, todo, target, dir, written, cleaned, thrown, stuck>>
  BY DEF Space!Kill, Space!held
<1>2. SpaceTypeOK'
  BY <1>1 DEF SpaceInv, SpaceTypeOK, Stages
<1>3. CommitsInv' /\ DirInv' /\ FilesInv'
  BY <1>1 DEF SpaceInv, CommitsInv, DirInv, FilesInv
<1> QED
  BY <1>2, <1>3 DEF SpaceInv

\* SpaceInv is kept by the other steps of a job.
LEMMA SpaceStutters ==
    ASSUME SpaceInv, UNCHANGED spaceVars
    PROVE  SpaceInv'
  BY DEF spaceVars, SpaceInv, SpaceTypeOK, CommitsInv, DirInv, FilesInv, Fetched, Names

\* The workspace, its directory and the commits it is made of are well typed
\* and consistent in every reachable state.
THEOREM WorkspaceIsSafe == JobSpec => [](step = "workspace" => SpaceInv)
<1> DEFINE I == step = "workspace" => SpaceInv
<1>1. JobInit => I
  BY SpaceStarts DEF JobInit
<1>2. I /\ [JobNext]_<<step, configVars, pipelineVars, retryVars, spaceVars>> => I'
  <2> SUFFICES ASSUME I, [JobNext]_<<step, configVars, pipelineVars, retryVars, spaceVars>>,
                      step' = "workspace"
               PROVE  SpaceInv'
    OBVIOUS
  <2>1. step = "workspace" /\ SpaceInv
    BY DEF JobNext
  <2>2. CASE Space!Next
    BY <2>1, <2>2, SpacePushes, SpaceReads, SpaceProvisions, SpaceFetches, SpaceClones,
       SpaceChecksOut, SpaceCleans, SpaceDies DEF Space!Next
  <2>3. CASE UNCHANGED spaceVars
    BY <2>1, <2>3, SpaceStutters
  <2> QED
    BY <2>1, <2>2, <2>3 DEF JobNext
<1> QED
  BY <1>1, <1>2, PTL DEF JobSpec

\* A job that has ended leaves a directory behind only if rm failed and its
\* caller was told so; a workspace that is ready is of one commit and has what
\* its strategy promises of the diff (workspace.ts, clone.ts).
THEOREM WorkspaceHolds == JobSpec => []WorkspaceIsExplained
<1>1. SpaceInv => Space!WorkspaceExplained
  <2> SUFFICES ASSUME SpaceInv
               PROVE  Space!WorkspaceExplained
    OBVIOUS
  <2>1. prov \in {"done", "failed"} /\ dir => stuck /\ thrown = "rm"
    BY DEF SpaceInv, DirInv
  <2>2. ASSUME prov = "ready", NEW w \in written
        PROVE  \/ w[2] = input.headSha
               \/ input.strategy = "sparse-clone" /\ w[2] = target /\ target > input.headSha
    <3>1. input.strategy \in {"none", "contents-api", "sparse-clone"}
      BY DEF SpaceInv, SpaceTypeOK, SpaceInput, Space!Strategies
    <3>2. CASE input.strategy = "sparse-clone"
      <4>1. w[2] = target /\ target >= input.headSha /\ target \in Nat /\ input.headSha \in Nat
        BY <2>2, <3>2 DEF SpaceInv, SpaceTypeOK, CommitsInv, FilesInv, SpaceInput
      <4> QED
        BY <3>2, <4>1
    <3> QED
      BY <2>2, <3>1, <3>2 DEF SpaceInv, FilesInv
  <2>3. prov = "ready" /\ input.strategy = "sparse-clone" => Space!Wanted(target) \subseteq Names
    BY DEF SpaceInv, FilesInv, Space!Wanted, Space!pathIsAllowed
  <2>4. prov = "ready" /\ input.strategy = "contents-api" => Names = Space!Wanted(input.diff)
    BY DEF SpaceInv, FilesInv, Fetched, Space!Wanted, Space!pathIsAllowed
  <2> QED
    BY <2>1, <2>2, <2>3, <2>4 DEF Space!WorkspaceExplained, Names
<1>2. (step = "workspace" => SpaceInv) => WorkspaceIsExplained
  BY <1>1 DEF WorkspaceIsExplained
<1> QED
  BY <1>2, WorkspaceIsSafe, PTL
-----------------------------------------------------------------------------
(* The organisation's file: what the variables hold.                       *)
Waiting == {"off", "idle", "read", "flags", "print"}
Asking == {"asking", "answered"}
Ended == {"done", "failed", "auth_failed", "parse_error"}
Phases == Waiting \cup Asking \cup Ended
Started == [at : Nat, floor : Nat, used : Nat]
OrgEntry == [text : Nat, expires : Nat]
History == [edited : Seq(Nat), floor : Nat, job : [Resolvers -> Started]]
OrgTypeOK ==
    /\ now \in Nat /\ org \in Nat
    /\ entries = <<>> \/ \E e \in OrgEntry : entries = <<e>>
    /\ resolving \in [Resolvers -> Phases]
    /\ fetched \in [Resolvers -> [text : Nat, sent : Nat]]
    /\ seen \in History

\* The edits so far; what was invalidated is not newer than the file.
EditsInv ==
    /\ Len(seen.edited) = org /\ \A v \in 1..org : seen.edited[v] <= now
    /\ seen.floor <= org

\* Later edits than version u are not before time t.
After(u, t) == \A v \in 1..org : v > u => t <= seen.edited[v]

JobInv(j) ==
    /\ seen.job[j].at <= now /\ seen.job[j].floor <= seen.floor
    /\ resolving[j] \in Waiting => seen.job[j].at = 0 /\ seen.job[j].floor = 0
    /\ resolving[j] \in Asking =>
         /\ fetched[j].sent = seen.job[j].at /\ now <= fetched[j].sent + FetchLimit
    /\ resolving[j] = "answered" =>
         fetched[j].text >= seen.floor /\ After(fetched[j].text, fetched[j].sent)
    /\ resolving[j] = "done" =>
         /\ seen.job[j].used >= seen.job[j].floor
         /\ After(seen.job[j].used, seen.job[j].at + 1 - (TTL + FetchLimit))

CacheInv ==
    entries # <<>> =>
        /\ entries[1].text >= seen.floor /\ entries[1].expires <= now + TTL
        /\ After(entries[1].text, entries[1].expires - (TTL + FetchLimit))

OrgInv == OrgTypeOK /\ EditsInv /\ (\A j \in Resolvers : JobInv(j)) /\ CacheInv
-----------------------------------------------------------------------------
\* What the steps do.
OnlyResolver(j) == \A i \in Resolvers \ {j} : resolving'[i] = resolving[i]
OnlyFetched(j) == \A i \in Resolvers \ {j} : fetched'[i] = fetched[i]
OnlyStarted(j) ==
    /\ seen'.edited = seen.edited /\ seen'.floor = seen.floor
    /\ \A i \in Resolvers \ {j} : seen'.job[i] = seen.job[i]
OrgUnmoved == now' = now /\ org' = org

\* Job j goes on without the organisation's file, or gives up.
OrgPasses(j) ==
    /\ OrgUnmoved /\ OnlyResolver(j) /\ entries' = entries /\ fetched' = fetched /\ seen' = seen
    /\ \/ resolving[j] \in Waiting
       \/ resolving[j] = "asking" /\ resolving'[j] = "failed"
    /\ resolving'[j] \notin Asking

\* It is answered from the cache, or asks the host.
OrgStarts(j) ==
    /\ OrgUnmoved /\ OnlyResolver(j) /\ OnlyStarted(j) /\ OnlyFetched(j) /\ entries' = entries
    /\ seen'.job[j].at = now /\ seen'.job[j].floor = seen.floor
    /\ resolving[j] \in Waiting
    /\ \/ /\ entries # <<>> /\ entries[1].expires > now /\ resolving'[j] \in {"done", "failed"}
          /\ seen'.job[j].used = entries[1].text
       \/ resolving'[j] = "asking" /\ fetched'[j].sent = now

\* The host answers.
OrgAnswers(j) ==
    /\ OrgUnmoved /\ OnlyResolver(j) /\ OnlyFetched(j) /\ entries' = entries /\ seen' = seen
    /\ resolving[j] = "asking" /\ resolving'[j] = "answered"
    /\ fetched'[j].text = org /\ fetched'[j].sent = fetched[j].sent

\* The answer is cached and used.
OrgGets(j) ==
    /\ OrgUnmoved /\ OnlyResolver(j) /\ OnlyStarted(j) /\ fetched' = fetched
    /\ resolving[j] = "answered" /\ resolving'[j] \in {"done", "failed"}
    /\ entries'[1].text = fetched[j].text /\ entries'[1].expires = now + TTL
    /\ seen'.job[j].at = seen.job[j].at /\ seen'.job[j].floor = seen.job[j].floor
    /\ seen'.job[j].used = fetched[j].text

OrgInvalidated ==
    /\ OrgUnmoved /\ resolving' = resolving /\ fetched' = fetched /\ entries' = <<>>
    /\ seen'.edited = seen.edited /\ seen'.job = seen.job
    /\ \/ seen'.floor = seen.floor
       \/ seen'.floor = org /\ \A j \in Resolvers : resolving[j] # "answered"

OrgEdited ==
    /\ now' = now /\ org' = org + 1 /\ resolving' = resolving /\ fetched' = fetched
    /\ entries' = entries /\ seen'.edited = Append(seen.edited, now)
    /\ seen'.floor = seen.floor /\ seen'.job = seen.job

OrgTicks ==
    /\ now' = now + 1 /\ org' = org /\ resolving' = resolving /\ fetched' = fetched
    /\ entries' = entries /\ seen' = seen
    /\ \A j \in Resolvers : resolving[j] \in Asking => now < fetched[j].sent + FetchLimit

OrgStep ==
    \/ \E j \in Resolvers : OrgPasses(j) \/ OrgStarts(j) \/ OrgAnswers(j) \/ OrgGets(j)
    \/ OrgInvalidated \/ OrgEdited \/ OrgTicks
-----------------------------------------------------------------------------
\* Writing the place of one job leaves the others where they are.
LEMMA PhaseType ==
    ASSUME OrgTypeOK, NEW j \in Resolvers, NEW s \in Phases,
           resolving' = [resolving EXCEPT ![j] = s]
    PROVE  resolving' \in [Resolvers -> Phases] /\ OnlyResolver(j) /\ resolving'[j] = s
<1>1. resolving \in [Resolvers -> Phases] BY DEF OrgTypeOK
<1> QED BY <1>1 DEF OnlyResolver

\* So does writing what one job started from.
LEMMA HistoryType ==
    ASSUME OrgTypeOK, NEW j \in Resolvers, NEW r \in Started,
           seen' = [seen EXCEPT !.job[j] = r]
    PROVE  seen' \in History /\ OnlyStarted(j) /\ seen'.job[j] = r
<1>1. seen \in History BY DEF OrgTypeOK
<1> QED BY <1>1 DEF OnlyStarted, History

\* The stages a job can be in, and which of them are which.
LEMMA PhaseNames ==
    /\ {"off", "idle", "read", "flags", "print"} \subseteq Phases
    /\ {"asking", "answered", "done", "failed", "auth_failed", "parse_error"} \subseteq Phases
    /\ {"idle", "read", "flags", "print"} \subseteq Waiting
    /\ Asking = {"asking", "answered"}
    /\ \A s \in {"read", "flags", "print", "done", "failed", "auth_failed", "parse_error"} :
         s \notin Asking
    /\ "asking" # "answered"
BY DEF Phases, Waiting, Asking, Ended

\* A job that goes on without the organisation's file.
LEMMA PassesOn ==
    ASSUME OrgTypeOK, NEW j \in Resolvers, NEW s \in Phases, s \notin Asking,
           \/ resolving[j] \in Waiting
           \/ resolving[j] = "asking" /\ s = "failed",
           resolving' = [resolving EXCEPT ![j] = s],
           UNCHANGED <<now, org, entries, fetched, seen>>
    PROVE  OrgTypeOK' /\ OrgPasses(j)
<1>1. resolving' \in [Resolvers -> Phases] /\ OnlyResolver(j) /\ resolving'[j] = s
  BY PhaseType
<1> QED BY <1>1 DEF OrgPasses, OrgUnmoved, OrgTypeOK

\* readYamlText, resolveEffectiveConfig, applyCliOverrides and runDryRunCommand
\* never touch the organisation's file.
LEMMA LocalOrg ==
    ASSUME OrgTypeOK, NEW j \in Resolvers,
           \/ Config!readYamlText(j) \/ Config!resolveEffectiveConfig(j)
           \/ Config!applyCliOverrides(j) \/ Config!runDryRunCommand(j)
    PROVE  OrgTypeOK' /\ OrgPasses(j)
<1>1. /\ UNCHANGED <<now, org, entries, fetched, seen>>
      /\ resolving[j] \in {"idle", "read", "flags", "print"}
      /\ \E s \in {"read", "flags", "print", "done", "failed", "auth_failed", "parse_error"} :
           resolving' = [resolving EXCEPT ![j] = s]
  <2>1. CASE Config!readYamlText(j)
    BY <2>1 DEF Config!readYamlText, Config!Goto, Config!OrgVars
  <2>2. CASE Config!resolveEffectiveConfig(j)
    <3>1. \/ resolving' = [resolving EXCEPT ![j] = "failed"]
          \/ resolving' = [resolving EXCEPT ![j] = "flags"]
      BY <2>2 DEF Config!resolveEffectiveConfig, Config!Goto, Config!Resolves
    <3>2. UNCHANGED <<now, org, entries, fetched, seen>> /\ resolving[j] = "read"
      BY <2>2 DEF Config!resolveEffectiveConfig, Config!OrgVars
    <3> QED BY <3>1, <3>2
  <2>3. CASE Config!applyCliOverrides(j)
    <3>1. \/ resolving' = [resolving EXCEPT ![j] = "failed"]
          \/ resolving' = [resolving EXCEPT ![j] = "print"]
          \/ resolving' = [resolving EXCEPT ![j] = "done"]
      BY <2>3 DEF Config!applyCliOverrides, Config!Goto, Config!Resolves
    <3>2. UNCHANGED <<now, org, entries, fetched, seen>> /\ resolving[j] = "flags"
      BY <2>3 DEF Config!applyCliOverrides, Config!OrgVars
    <3> QED BY <3>1, <3>2
  <2>4. CASE Config!runDryRunCommand(j)
    BY <2>4 DEF Config!runDryRunCommand, Config!Goto, Config!OrgVars
  <2> QED BY <2>1, <2>2, <2>3, <2>4
<1>2. PICK s \in {"read", "flags", "print", "done", "failed", "auth_failed", "parse_error"} :
        resolving' = [resolving EXCEPT ![j] = s]
  BY <1>1
<1>3. s \in Phases /\ s \notin Asking /\ resolving[j] \in Waiting BY <1>1, <1>2, PhaseNames
<1> QED BY <1>1, <1>2, <1>3, PassesOn

\* With or without the text, the job is then done or gives up.
LEMMA OrgText ==
    ASSUME NEW j \in Resolvers, NEW v, Config!WithOrgText(j, v)
    PROVE  \E s \in {"done", "failed"} : resolving' = [resolving EXCEPT ![j] = s]
<1>1. \/ resolving' = [resolving EXCEPT ![j] = "failed"]
      \/ resolving' = [resolving EXCEPT ![j] = "done"]
  BY DEF Config!WithOrgText, Config!Goto, Config!Resolves
<1> QED BY <1>1

\* What a job starts from.
LEMMA StartedType ==
    ASSUME OrgTypeOK, NEW u \in Nat
    PROVE  /\ [at |-> now, floor |-> seen.floor, used |-> u] \in Started
           /\ seen.floor \in Nat
BY DEF OrgTypeOK, Started, History

\* A text from the cache.
LEMMA CacheHitOrg ==
    ASSUME OrgTypeOK, NEW j \in Resolvers, Config!CacheHit(j),
           resolving[j] \in Waiting, UNCHANGED <<now, org>>
    PROVE  OrgTypeOK' /\ OrgStarts(j)
<1> DEFINE r == [at |-> now, floor |-> seen.floor, used |-> entries[1].text]
<1>1. entries # <<>> /\ entries[1].expires > now BY DEF Config!CacheHit, Config!Cached
<1>2. entries[1] \in OrgEntry BY <1>1 DEF OrgTypeOK
<1>3. r \in Started BY <1>2, StartedType DEF OrgEntry
<1>4. seen' = [seen EXCEPT !.job[j] = r] BY DEF Config!CacheHit, Config!Started
<1>5. r.at = now /\ r.floor = seen.floor /\ r.used = entries[1].text OBVIOUS
<1> HIDE DEF r
<1>6. seen' \in History /\ OnlyStarted(j) /\ seen'.job[j] = r BY <1>3, <1>4, HistoryType
<1>7. PICK s \in {"done", "failed"} : resolving' = [resolving EXCEPT ![j] = s]
  BY OrgText DEF Config!CacheHit
<1>8. resolving' \in [Resolvers -> Phases] /\ OnlyResolver(j) /\ resolving'[j] = s
  BY <1>7, PhaseType, PhaseNames
<1>9. entries' = entries /\ fetched' = fetched BY DEF Config!CacheHit
<1> QED BY <1>1, <1>5, <1>6, <1>7, <1>8, <1>9 DEF OrgStarts, OrgUnmoved, OnlyFetched, OrgTypeOK

\* Nothing usable in the cache: the host is asked.
LEMMA CacheMissOrg ==
    ASSUME OrgTypeOK, NEW j \in Resolvers, Config!CacheMiss(j),
           resolving[j] \in Waiting, UNCHANGED <<now, org>>
    PROVE  OrgTypeOK' /\ OrgStarts(j)
<1> DEFINE r == [at |-> now, floor |-> seen.floor, used |-> 0]
<1>1. r \in Started BY StartedType
<1>2. seen' = [seen EXCEPT !.job[j] = r] BY DEF Config!CacheMiss, Config!Started
<1>3. r.at = now /\ r.floor = seen.floor OBVIOUS
<1> HIDE DEF r
<1>4. seen' \in History /\ OnlyStarted(j) /\ seen'.job[j] = r BY <1>1, <1>2, HistoryType
<1>5. resolving' = [resolving EXCEPT ![j] = "asking"] BY DEF Config!CacheMiss, Config!Goto
<1>6. resolving' \in [Resolvers -> Phases] /\ OnlyResolver(j) /\ resolving'[j] = "asking"
  BY <1>5, PhaseType, PhaseNames
<1>7. /\ fetched' \in [Resolvers -> [text : Nat, sent : Nat]]
      /\ OnlyFetched(j) /\ fetched'[j].sent = now
  BY DEF Config!CacheMiss, OrgTypeOK, OnlyFetched
<1>8. entries' = entries BY DEF Config!CacheMiss
<1> QED BY <1>3, <1>4, <1>6, <1>7, <1>8 DEF OrgStarts, OrgUnmoved, OrgTypeOK

\* loadConfigWithOrgFallback: alone, from the cache, or by a fetch.
LEMMA LoadOrg ==
    ASSUME OrgTypeOK, NEW j \in Resolvers, Config!loadConfigWithOrgFallback(j)
    PROVE  OrgTypeOK' /\ (OrgPasses(j) \/ OrgStarts(j))
<1>1. resolving[j] \in Waiting /\ UNCHANGED <<now, org>>
  BY PhaseNames DEF Config!loadConfigWithOrgFallback
<1>2. \/ /\ \E s \in {"done", "failed"} : resolving' = [resolving EXCEPT ![j] = s]
         /\ UNCHANGED <<entries, fetched, seen>>
      \/ Config!CacheHit(j) \/ Config!CacheMiss(j)
  <2>1. \/ /\ \/ resolving' = [resolving EXCEPT ![j] = "failed"]
              \/ resolving' = [resolving EXCEPT ![j] = "done"]
           /\ UNCHANGED <<entries, fetched, seen>>
        \/ Config!CacheHit(j) \/ Config!CacheMiss(j)
    BY DEF Config!loadConfigWithOrgFallback, Config!Goto, Config!Resolves
  <2> QED BY <2>1
<1>3. ASSUME NEW s \in {"done", "failed"}, resolving' = [resolving EXCEPT ![j] = s],
             UNCHANGED <<entries, fetched, seen>>
      PROVE  OrgTypeOK' /\ OrgPasses(j)
  <2>1. s \in Phases /\ s \notin Asking BY PhaseNames
  <2> QED BY <1>1, <1>3, <2>1, PassesOn
<1> QED BY <1>1, <1>2, <1>3, CacheHitOrg, CacheMissOrg

\* Fetch: the host answers or the request fails.
LEMMA FetchOrg ==
    ASSUME OrgTypeOK, NEW j \in Resolvers, Config!Fetch(j)
    PROVE  OrgTypeOK' /\ (OrgPasses(j) \/ OrgAnswers(j))
<1>1. resolving[j] = "asking" /\ UNCHANGED <<now, org, entries, seen>> BY DEF Config!Fetch
<1>2. CASE /\ resolving' = [resolving EXCEPT ![j] = "answered"]
           /\ fetched' = [fetched EXCEPT ![j].text = org]
  <2>1. resolving' \in [Resolvers -> Phases] /\ OnlyResolver(j) /\ resolving'[j] = "answered"
    BY <1>2, PhaseType, PhaseNames
  <2>2. /\ fetched' \in [Resolvers -> [text : Nat, sent : Nat]] /\ OnlyFetched(j)
        /\ fetched'[j].text = org /\ fetched'[j].sent = fetched[j].sent
    BY <1>2 DEF OrgTypeOK, OnlyFetched
  <2> QED BY <1>1, <2>1, <2>2 DEF OrgAnswers, OrgUnmoved, OrgTypeOK
<1>3. CASE resolving' = [resolving EXCEPT ![j] = "failed"] /\ UNCHANGED fetched
  <2>1. "failed" \in Phases /\ "failed" \notin Asking BY PhaseNames
  <2> QED BY <1>1, <1>3, <2>1, PassesOn
<1> QED BY <1>2, <1>3 DEF Config!Fetch, Config!Goto

\* get: the answer is cached and used.
LEMMA GetOrg ==
    ASSUME OrgTypeOK, NEW j \in Resolvers, Config!get(j)
    PROVE  OrgTypeOK' /\ OrgGets(j)
<1>1. resolving[j] = "answered" /\ UNCHANGED <<now, org, fetched>> BY DEF Config!get
<1>2. fetched[j].text \in Nat /\ now + TTL \in Nat BY ResolutionAssumption DEF OrgTypeOK
<1>3. /\ entries' = <<[text |-> fetched[j].text, expires |-> now + TTL]>>
      /\ entries'[1].text = fetched[j].text /\ entries'[1].expires = now + TTL
  BY DEF Config!get
<1>4. [text |-> fetched[j].text, expires |-> now + TTL] \in OrgEntry BY <1>2 DEF OrgEntry
<1>5. /\ seen' \in History /\ OnlyStarted(j) /\ seen'.job[j].used = fetched[j].text
      /\ seen'.job[j].at = seen.job[j].at /\ seen'.job[j].floor = seen.job[j].floor
  BY <1>2 DEF Config!get, Config!Used, OrgTypeOK, OnlyStarted, Started, History
<1>6. PICK s \in {"done", "failed"} : resolving' = [resolving EXCEPT ![j] = s]
  BY OrgText DEF Config!get
<1>7. resolving' \in [Resolvers -> Phases] /\ OnlyResolver(j) /\ resolving'[j] = s
  BY <1>6, PhaseType, PhaseNames
<1> QED BY <1>1, <1>3, <1>4, <1>5, <1>6, <1>7 DEF OrgGets, OrgUnmoved, OrgTypeOK

\* invalidate: the entry is gone.
LEMMA InvalidateOrg ==
    ASSUME OrgTypeOK, Config!invalidate PROVE OrgTypeOK' /\ OrgInvalidated
<1>1. UNCHANGED <<now, org, resolving, fetched>> /\ entries' = <<>> BY DEF Config!invalidate
<1>2. /\ seen' \in History /\ seen'.edited = seen.edited /\ seen'.job = seen.job
      /\ seen'.floor = IF \E j \in Resolvers : resolving[j] = "answered"
                       THEN seen.floor ELSE org
  BY DEF Config!invalidate, OrgTypeOK, History
<1> QED BY <1>1, <1>2 DEF OrgInvalidated, OrgUnmoved, OrgTypeOK

\* The organisation edits its file.
LEMMA EditOrgOrg ==
    ASSUME OrgTypeOK, Config!EditOrg PROVE OrgTypeOK' /\ OrgEdited
<1>1. /\ UNCHANGED <<now, resolving, fetched, entries>> /\ org' = org + 1
      /\ seen' = [seen EXCEPT !.edited = Append(@, now)]
  BY DEF Config!EditOrg
<1>2. seen \in History /\ now \in Nat /\ org \in Nat BY DEF OrgTypeOK
<1>3. Append(seen.edited, now) \in Seq(Nat) BY <1>2 DEF History
<1>4. /\ seen' \in History /\ seen'.edited = Append(seen.edited, now)
      /\ seen'.floor = seen.floor /\ seen'.job = seen.job
  BY <1>1, <1>2, <1>3 DEF History
<1> QED BY <1>1, <1>2, <1>4 DEF OrgEdited, OrgTypeOK

\* Time passes, but no fetch outlives its limit.
LEMMA TickOrg ==
    ASSUME OrgTypeOK, Config!Tick PROVE OrgTypeOK' /\ OrgTicks
<1>1. \A j \in Resolvers : resolving[j] \in Asking => now < fetched[j].sent + FetchLimit
  BY PhaseNames DEF Config!Tick, Config!InFlight
<1> QED BY <1>1 DEF Config!Tick, OrgTicks, OrgTypeOK

\* Every step of the configuration is one of the kinds above.
LEMMA OrgSteps ==
    ASSUME OrgTypeOK, Config!Next PROVE OrgTypeOK' /\ OrgStep
BY LocalOrg, LoadOrg, FetchOrg, GetOrg, InvalidateOrg, EditOrgOrg, TickOrg
   DEF Config!Next, OrgStep
-----------------------------------------------------------------------------
(* The invariant.  A job that needs no file has seen version 0 at time 0:  *)
(* with neither a lifetime nor a fetch an edit at that very instant would  *)
(* count, so one of the two must take time.                                *)

\* The edits of a step before this one stay where they are.
LEMMA AfterSame ==
    ASSUME org' = org, seen'.edited = seen.edited, NEW u, NEW t
    PROVE  After(u, t)' = After(u, t)
BY DEF After

\* What held of the past holds when the file is edited now.
LEMMA AfterEdit ==
    ASSUME OrgTypeOK, EditsInv, OrgEdited, NEW u \in Nat, NEW t \in Int, t <= now, After(u, t)
    PROVE  \A v \in 1..org' : v > u => t <= seen'.edited[v]
<1> SUFFICES ASSUME NEW v \in 1..org', v > u PROVE t <= seen'.edited[v] OBVIOUS
<1>1. /\ seen.edited \in Seq(Nat) /\ Len(seen.edited) = org /\ org \in Nat /\ now \in Nat
      /\ seen'.edited = Append(seen.edited, now) /\ org' = org + 1
  BY DEF OrgTypeOK, History, EditsInv, OrgEdited
<1>2. CASE v \in 1..org
  <2>1. seen'.edited[v] = seen.edited[v] BY <1>1, <1>2
  <2> QED BY <1>2, <2>1 DEF After
<1>3. CASE v = org + 1
  <2>1. seen'.edited[v] = now BY <1>1, <1>3
  <2> QED BY <2>1
<1> QED BY <1>1, <1>2, <1>3

\* A place among the stages is one of the three kinds only.
LEMMA PhaseKinds ==
    /\ \A s \in Waiting : s \notin Asking /\ s # "answered" /\ s # "done"
    /\ \A s \in Asking : s \notin Waiting /\ s # "done" /\ s # "failed"
    /\ "answered" \in Asking /\ "asking" \in Asking /\ "done" \notin Waiting
    /\ "failed" \notin Waiting /\ "failed" # "done" /\ "asking" # "answered"
    /\ \A s \in Phases : s \in Waiting \/ s \in Asking \/ s \in Ended
BY DEF Waiting, Asking, Ended, Phases

\* The numbers of the state.
LEMMA OrgNumbers ==
    ASSUME OrgTypeOK
    PROVE  /\ now \in Nat /\ org \in Nat /\ seen.floor \in Nat /\ TTL \in Nat /\ FetchLimit \in Nat
           /\ seen.edited \in Seq(Nat)
           /\ \A j \in Resolvers :
                /\ seen.job[j] \in Started /\ seen.job[j].at \in Nat /\ seen.job[j].floor \in Nat
                /\ seen.job[j].used \in Nat /\ fetched[j].text \in Nat /\ fetched[j].sent \in Nat
                /\ resolving[j] \in Phases
           /\ entries # <<>> => entries[1].text \in Nat /\ entries[1].expires \in Nat
BY ResolutionAssumption DEF OrgTypeOK, History, Started, OrgEntry

\* A job nothing happens to keeps its part when file and history stand still.
LEMMA JobKept ==
    ASSUME NEW i \in Resolvers, JobInv(i), now' = now, org' = org,
           seen'.edited = seen.edited, seen'.floor = seen.floor,
           seen'.job[i] = seen.job[i], resolving'[i] = resolving[i], fetched'[i] = fetched[i]
    PROVE  JobInv(i)'
BY DEF JobInv, After

\* The same for the edits and the cache.
LEMMA EditsKept ==
    ASSUME EditsInv, OrgUnmoved, seen'.edited = seen.edited, seen'.floor = seen.floor
    PROVE  EditsInv'
BY DEF EditsInv, OrgUnmoved

\* The cache's part needs the clock, the edits and the floor to stand still.
LEMMA CacheKept ==
    ASSUME CacheInv, OrgUnmoved, entries' = entries,
           seen'.edited = seen.edited, seen'.floor = seen.floor
    PROVE  CacheInv'
BY DEF CacheInv, After, OrgUnmoved

\* Passing on.
LEMMA PassesInv ==
    ASSUME OrgInv, TTL + FetchLimit > 0, NEW j \in Resolvers, OrgPasses(j)
    PROVE  EditsInv' /\ (\A i \in Resolvers : JobInv(i)') /\ CacheInv'
<1> USE DEF OrgInv
<1>1. EditsInv' BY EditsKept DEF OrgPasses
<1>2. CacheInv' BY CacheKept DEF OrgPasses, OrgUnmoved
<1>3. JobInv(j)'
  <2>1. /\ now' = now /\ org' = org /\ seen' = seen /\ fetched' = fetched
        /\ resolving'[j] \notin Asking /\ resolving'[j] # "answered"
    BY PhaseKinds DEF OrgPasses, OrgUnmoved
  <2>2. CASE resolving[j] \in Waiting
    <3>1. seen.job[j].at = 0 /\ seen.job[j].floor = 0 BY <2>2 DEF JobInv
    <3>2. \A v \in 1..org : seen.edited[v] \in Nat BY OrgNumbers DEF EditsInv
    <3>3. After(seen.job[j].used, seen.job[j].at + 1 - (TTL + FetchLimit))
      BY <3>1, <3>2, OrgNumbers DEF After
    <3>4. seen.job[j].used >= seen.job[j].floor BY <3>1, OrgNumbers
    <3> QED BY <2>1, <3>1, <3>3, <3>4 DEF JobInv, After
  <2>3. CASE resolving[j] = "asking" /\ resolving'[j] = "failed"
    BY <2>1, <2>3, PhaseKinds DEF JobInv
  <2> QED BY <2>2, <2>3 DEF OrgPasses
<1>4. \A i \in Resolvers \ {j} : JobInv(i)'
  BY JobKept DEF OrgPasses, OrgUnmoved, OnlyResolver
<1> QED BY <1>1, <1>2, <1>3, <1>4

\* Starting: the cache's text is recent enough, a request is sent now.
LEMMA StartsInv ==
    ASSUME OrgInv, NEW j \in Resolvers, OrgStarts(j)
    PROVE  EditsInv' /\ (\A i \in Resolvers : JobInv(i)') /\ CacheInv'
<1> USE DEF OrgInv
<1>1. EditsInv' BY EditsKept DEF OrgStarts, OnlyStarted
<1>2. CacheInv' BY CacheKept DEF OrgStarts, OrgUnmoved, OnlyStarted
<1>3. JobInv(j)'
  <2>1. /\ now' = now /\ org' = org /\ seen'.edited = seen.edited /\ seen'.floor = seen.floor
        /\ seen'.job[j].at = now /\ seen'.job[j].floor = seen.floor
    BY DEF OrgStarts, OrgUnmoved, OnlyStarted
  <2>2. ASSUME entries # <<>>, entries[1].expires > now, resolving'[j] \in {"done", "failed"},
               seen'.job[j].used = entries[1].text
        PROVE  JobInv(j)'
    <3>1. /\ entries[1].text >= seen.floor
          /\ After(entries[1].text, entries[1].expires - (TTL + FetchLimit))
      BY <2>2 DEF CacheInv
    <3>2. \A v \in 1..org : v > entries[1].text =>
            now + 1 - (TTL + FetchLimit) <= seen.edited[v]
      <4> SUFFICES ASSUME NEW v \in 1..org, v > entries[1].text
                   PROVE  now + 1 - (TTL + FetchLimit) <= seen.edited[v]
        OBVIOUS
      <4>1. entries[1].expires - (TTL + FetchLimit) <= seen.edited[v] BY <3>1 DEF After
      <4>2. seen.edited[v] \in Nat BY OrgNumbers DEF EditsInv
      <4>3. entries[1].expires \in Nat /\ now \in Nat /\ TTL \in Nat /\ FetchLimit \in Nat
        BY <2>2, OrgNumbers
      <4> QED BY <2>2, <4>1, <4>2, <4>3
    <3>3. resolving'[j] \notin Waiting /\ resolving'[j] \notin Asking /\ resolving'[j] # "answered"
      BY <2>2, PhaseKinds
    <3> QED BY <2>1, <2>2, <3>1, <3>2, <3>3, OrgNumbers DEF JobInv, After
  <2>3. ASSUME resolving'[j] = "asking", fetched'[j].sent = now PROVE JobInv(j)'
    <3>1. resolving'[j] \notin Waiting /\ resolving'[j] # "done" /\ resolving'[j] # "answered"
      BY <2>3, PhaseKinds
    <3> QED BY <2>1, <2>3, <3>1, OrgNumbers DEF JobInv
  <2> QED BY <2>2, <2>3 DEF OrgStarts
<1>4. \A i \in Resolvers \ {j} : JobInv(i)'
  BY JobKept DEF OrgStarts, OrgUnmoved, OnlyResolver, OnlyFetched, OnlyStarted
<1> QED BY <1>1, <1>2, <1>3, <1>4

\* The host's answer is the file of this very moment.
LEMMA AnswersInv ==
    ASSUME OrgInv, NEW j \in Resolvers, OrgAnswers(j)
    PROVE  EditsInv' /\ (\A i \in Resolvers : JobInv(i)') /\ CacheInv'
<1> USE DEF OrgInv
<1>1. EditsInv' BY EditsKept DEF OrgAnswers
<1>2. CacheInv' BY CacheKept DEF OrgAnswers, OrgUnmoved
<1>3. JobInv(j)'
  <2>1. /\ now' = now /\ org' = org /\ seen' = seen
        /\ resolving[j] = "asking" /\ resolving'[j] = "answered"
        /\ fetched'[j].text = org /\ fetched'[j].sent = fetched[j].sent
    BY DEF OrgAnswers, OrgUnmoved
  <2>2. resolving'[j] \notin Waiting /\ resolving'[j] # "done" /\ resolving[j] \in Asking
    BY <2>1, PhaseKinds
  <2>3. \A v \in 1..org : ~(v > org) BY OrgNumbers
  <2> QED BY <2>1, <2>2, <2>3 DEF JobInv, After, EditsInv
<1>4. \A i \in Resolvers \ {j} : JobInv(i)'
  BY JobKept DEF OrgAnswers, OrgUnmoved, OnlyResolver, OnlyFetched
<1> QED BY <1>1, <1>2, <1>3, <1>4

\* Its lifetime starts when it is stored, at most one fetch after it was asked
\* for.
LEMMA GetsInv ==
    ASSUME OrgInv, TTL + FetchLimit > 0, NEW j \in Resolvers, OrgGets(j)
    PROVE  EditsInv' /\ (\A i \in Resolvers : JobInv(i)') /\ CacheInv'
<1> USE DEF OrgInv
<1>1. EditsInv' BY EditsKept DEF OrgGets, OnlyStarted
<1>2. /\ now' = now /\ org' = org /\ seen'.edited = seen.edited /\ seen'.floor = seen.floor
      /\ resolving[j] = "answered" /\ resolving'[j] \in {"done", "failed"}
      /\ seen'.job[j].at = seen.job[j].at /\ seen'.job[j].floor = seen.job[j].floor
      /\ seen'.job[j].used = fetched[j].text
      /\ entries'[1].text = fetched[j].text /\ entries'[1].expires = now + TTL
  BY DEF OrgGets, OrgUnmoved, OnlyStarted
<1>3. /\ fetched[j].sent = seen.job[j].at /\ now <= fetched[j].sent + FetchLimit
      /\ fetched[j].text >= seen.floor /\ After(fetched[j].text, fetched[j].sent)
      /\ seen.job[j].at <= now /\ seen.job[j].floor <= seen.floor
  BY <1>2, PhaseKinds DEF JobInv
<1>4. \A v \in 1..org : v > fetched[j].text =>
        /\ now + TTL - (TTL + FetchLimit) <= seen.edited[v]
        /\ seen.job[j].at + 1 - (TTL + FetchLimit) <= seen.edited[v]
  <2> SUFFICES ASSUME NEW v \in 1..org, v > fetched[j].text
               PROVE  /\ now + TTL - (TTL + FetchLimit) <= seen.edited[v]
                      /\ seen.job[j].at + 1 - (TTL + FetchLimit) <= seen.edited[v]
    OBVIOUS
  <2>1. fetched[j].sent <= seen.edited[v] BY <1>3 DEF After
  <2>2. seen.edited[v] \in Nat BY OrgNumbers DEF EditsInv
  <2>3. /\ now \in Nat /\ TTL \in Nat /\ FetchLimit \in Nat /\ fetched[j].sent \in Nat
        /\ seen.job[j].at \in Nat
    BY OrgNumbers
  <2> QED BY <1>3, <2>1, <2>2, <2>3
<1>5. CacheInv' BY <1>2, <1>3, <1>4, OrgNumbers DEF CacheInv, After
<1>6. JobInv(j)'
  <2>1. resolving'[j] \notin Waiting /\ resolving'[j] \notin Asking /\ resolving'[j] # "answered"
    BY <1>2, PhaseKinds
  <2>2. seen'.job[j].used >= seen'.job[j].floor
    <3>1. /\ fetched[j].text \in Nat /\ seen.floor \in Nat /\ seen.job[j].floor \in Nat BY OrgNumbers
    <3> QED BY <1>2, <1>3, <3>1
  <2>3. \A v \in 1..org' : v > seen'.job[j].used =>
          seen'.job[j].at + 1 - (TTL + FetchLimit) <= seen'.edited[v]
    BY <1>2, <1>4
  <2>4. seen'.job[j].at <= now' /\ seen'.job[j].floor <= seen'.floor BY <1>2, <1>3
  <2> QED BY <1>2, <2>1, <2>2, <2>3, <2>4 DEF JobInv, After
<1>7. \A i \in Resolvers \ {j} : JobInv(i)'
  BY JobKept DEF OrgGets, OrgUnmoved, OnlyResolver, OnlyStarted
<1> QED BY <1>1, <1>5, <1>6, <1>7

\* invalidate: nothing cached is left to be old, and an answer that is still
\* on its way keeps the floor where it was.
LEMMA InvalidatedInv ==
    ASSUME OrgInv, OrgInvalidated
    PROVE  EditsInv' /\ (\A i \in Resolvers : JobInv(i)') /\ CacheInv'
<1> USE DEF OrgInv
<1>1. /\ now' = now /\ org' = org /\ resolving' = resolving /\ fetched' = fetched
      /\ entries' = <<>> /\ seen'.edited = seen.edited /\ seen'.job = seen.job
  BY DEF OrgInvalidated, OrgUnmoved
<1>2. \/ seen'.floor = seen.floor
      \/ seen'.floor = org /\ \A j \in Resolvers : resolving[j] # "answered"
  BY DEF OrgInvalidated
<1>3. seen.floor <= seen'.floor /\ seen'.floor <= org BY <1>2, OrgNumbers DEF EditsInv
<1>4. EditsInv' BY <1>1, <1>3 DEF EditsInv
<1>5. CacheInv' BY <1>1 DEF CacheInv
<1>6. ASSUME NEW i \in Resolvers PROVE JobInv(i)'
  <2>1. seen.job[i].floor <= seen'.floor
    <3>1. seen.job[i].floor <= seen.floor BY DEF JobInv
    <3> QED BY <1>2, <1>3, <3>1, OrgNumbers
  <2> QED BY <1>1, <1>2, <2>1 DEF JobInv, After
<1> QED BY <1>4, <1>5, <1>6

\* An edit is later than whatever the jobs and the cache rest on.
LEMMA EditedInv ==
    ASSUME OrgInv, TTL + FetchLimit > 0, OrgEdited
    PROVE  EditsInv' /\ (\A i \in Resolvers : JobInv(i)') /\ CacheInv'
<1> USE DEF OrgInv
<1>1. /\ now' = now /\ org' = org + 1 /\ resolving' = resolving /\ fetched' = fetched
      /\ entries' = entries /\ seen'.edited = Append(seen.edited, now)
      /\ seen'.floor = seen.floor /\ seen'.job = seen.job
  BY DEF OrgEdited
<1>2. EditsInv'
  <2>1. Len(seen'.edited) = org + 1 BY <1>1, OrgNumbers DEF EditsInv
  <2>2. \A v \in 1..(org + 1) : seen'.edited[v] <= now
    <3> SUFFICES ASSUME NEW v \in 1..(org + 1) PROVE seen'.edited[v] <= now OBVIOUS
    <3>1. CASE v \in 1..org
      BY <1>1, <3>1, OrgNumbers DEF EditsInv
    <3>2. CASE v = org + 1 BY <1>1, <3>2, OrgNumbers DEF EditsInv
    <3> QED BY <3>1, <3>2, OrgNumbers
  <2> QED BY <1>1, <2>1, <2>2, OrgNumbers DEF EditsInv
<1>3. ASSUME NEW i \in Resolvers PROVE JobInv(i)'
  <2>1. resolving[i] = "answered" =>
          \A v \in 1..org' : v > fetched[i].text => fetched[i].sent <= seen'.edited[v]
    <3> SUFFICES ASSUME resolving[i] = "answered"
                 PROVE  \A v \in 1..org' : v > fetched[i].text => fetched[i].sent <= seen'.edited[v]
      OBVIOUS
    <3>1. After(fetched[i].text, fetched[i].sent) /\ fetched[i].sent <= now
      BY PhaseKinds DEF JobInv
    <3> QED BY <3>1, AfterEdit, OrgNumbers
  <2>2. resolving[i] = "done" =>
          \A v \in 1..org' : v > seen.job[i].used =>
            seen.job[i].at + 1 - (TTL + FetchLimit) <= seen'.edited[v]
    <3> SUFFICES ASSUME resolving[i] = "done"
                 PROVE  \A v \in 1..org' : v > seen.job[i].used =>
                          seen.job[i].at + 1 - (TTL + FetchLimit) <= seen'.edited[v]
      OBVIOUS
    <3> DEFINE t == seen.job[i].at + 1 - (TTL + FetchLimit)
    <3>1. After(seen.job[i].used, t) /\ seen.job[i].at <= now BY DEF JobInv
    <3>2. t \in Int /\ t <= now BY <3>1, OrgNumbers
    <3> HIDE DEF t
    <3>3. \A v \in 1..org' : v > seen.job[i].used => t <= seen'.edited[v]
      BY <3>1, <3>2, AfterEdit, OrgNumbers
    <3> QED BY <3>3 DEF t
  <2> QED BY <1>1, <2>1, <2>2 DEF JobInv, After
<1>4. CacheInv'
  <2> SUFFICES ASSUME entries # <<>> PROVE CacheInv' BY <1>1 DEF CacheInv
  <2> DEFINE t == entries[1].expires - (TTL + FetchLimit)
  <2>1. /\ entries[1].text >= seen.floor /\ entries[1].expires <= now + TTL
        /\ After(entries[1].text, t)
    BY DEF CacheInv
  <2>2. t \in Int /\ t <= now BY <2>1, OrgNumbers
  <2> HIDE DEF t
  <2>3. \A v \in 1..org' : v > entries[1].text => t <= seen'.edited[v]
    BY <2>1, <2>2, AfterEdit, OrgNumbers
  <2> QED BY <1>1, <2>1, <2>3 DEF CacheInv, After, t
<1> QED BY <1>2, <1>3, <1>4

\* A later clock disturbs nothing, as no fetch goes past its limit.
LEMMA TicksInv ==
    ASSUME OrgInv, OrgTicks
    PROVE  EditsInv' /\ (\A i \in Resolvers : JobInv(i)') /\ CacheInv'
<1> USE DEF OrgInv
<1>1. /\ now' = now + 1 /\ org' = org /\ resolving' = resolving /\ fetched' = fetched
      /\ entries' = entries /\ seen' = seen
      /\ \A j \in Resolvers : resolving[j] \in Asking => now < fetched[j].sent + FetchLimit
  BY DEF OrgTicks
<1>2. EditsInv'
  <2>1. \A v \in 1..org : seen.edited[v] <= now + 1
    <3> SUFFICES ASSUME NEW v \in 1..org PROVE seen.edited[v] <= now + 1 OBVIOUS
    <3>1. seen.edited[v] \in Nat /\ seen.edited[v] <= now BY OrgNumbers DEF EditsInv
    <3> QED BY <3>1, OrgNumbers
  <2> QED BY <1>1, <2>1 DEF EditsInv
<1>3. ASSUME NEW i \in Resolvers PROVE JobInv(i)'
  <2>1. /\ now \in Nat /\ FetchLimit \in Nat
        /\ seen.job[i].at \in Nat /\ fetched[i].sent \in Nat
    BY OrgNumbers
  <2>2. seen.job[i].at <= now + 1 BY <2>1 DEF JobInv
  <2>3. resolving[i] \in Asking => now + 1 <= fetched[i].sent + FetchLimit BY <1>1, <2>1
  <2> QED BY <1>1, <2>2, <2>3 DEF JobInv, After
<1>4. CacheInv' BY <1>1, OrgNumbers DEF CacheInv, After
<1> QED BY <1>2, <1>3, <1>4

\* The first state.
LEMMA OrgInit == Config!Init => OrgInv
<1> SUFFICES ASSUME Config!Init PROVE OrgInv OBVIOUS
<1>1. /\ now = 0 /\ org \in {0, 1} /\ entries = <<>>
      /\ fetched = [j \in Resolvers |-> [text |-> 0, sent |-> 0]]
      /\ seen = [edited |-> IF org = 1 THEN <<0>> ELSE <<>>, floor |-> 0,
                 job |-> [j \in Resolvers |-> [at |-> 0, floor |-> 0, used |-> 0]]]
  BY DEF Config!Init
<1>2. resolving \in [Resolvers -> Phases] /\ \A j \in Resolvers : resolving[j] \in Waiting
  BY DEF Config!Init, Phases, Waiting
<1>3. /\ seen.edited \in Seq(Nat) /\ Len(seen.edited) = org
      /\ \A v \in 1..org : seen.edited[v] = 0
  <2>1. CASE org = 0 BY <1>1, <2>1
  <2>2. CASE org = 1 BY <1>1, <2>2
  <2> QED BY <1>1, <2>1, <2>2
<1>4. OrgTypeOK BY <1>1, <1>2, <1>3 DEF OrgTypeOK, History, Started
<1>5. EditsInv BY <1>1, <1>3 DEF EditsInv
<1>6. \A j \in Resolvers : JobInv(j)
  BY <1>1, <1>2, PhaseKinds DEF JobInv
<1> QED BY <1>1, <1>4, <1>5, <1>6 DEF OrgInv, CacheInv

\* Every step preserves OrgInv.
LEMMA OrgInvStep ==
    ASSUME TTL + FetchLimit > 0, OrgInv, Config!Next PROVE OrgInv'
<1>1. OrgTypeOK' /\ OrgStep BY OrgSteps DEF OrgInv
<1>2. EditsInv' /\ (\A i \in Resolvers : JobInv(i)') /\ CacheInv'
  BY <1>1, PassesInv, StartsInv, AnswersInv, GetsInv, InvalidatedInv, EditedInv, TicksInv
     DEF OrgStep
<1> QED BY <1>1, <1>2 DEF OrgInv

\* The invariant says that the file a job saw is fresh.
LEMMA OrgInvFresh == OrgInv => Config!OrgIsFresh
<1> SUFFICES ASSUME OrgInv, NEW j \in Resolvers, resolving[j] = "done"
             PROVE  /\ seen.job[j].used >= seen.job[j].floor
                    /\ \A v \in DOMAIN seen.edited :
                         v > seen.job[j].used => seen.job[j].at < seen.edited[v] + TTL + FetchLimit
  BY DEF Config!OrgIsFresh
<1> USE DEF OrgInv
<1>1. /\ seen.job[j].used >= seen.job[j].floor
      /\ After(seen.job[j].used, seen.job[j].at + 1 - (TTL + FetchLimit))
  BY DEF JobInv
<1>2. ASSUME NEW v \in DOMAIN seen.edited, v > seen.job[j].used
      PROVE  seen.job[j].at < seen.edited[v] + TTL + FetchLimit
  <2>1. v \in 1..org /\ seen.edited[v] \in Nat BY OrgNumbers DEF EditsInv
  <2>2. seen.job[j].at + 1 - (TTL + FetchLimit) <= seen.edited[v] BY <1>1, <1>2, <2>1 DEF After
  <2>3. TTL \in Nat /\ FetchLimit \in Nat /\ seen.job[j].at \in Nat BY OrgNumbers
  <2> QED BY <2>1, <2>2, <2>3
<1> QED BY <1>1, <1>2

\* The organisation's file that a job was configured with is out of date by
\* less than one cache lifetime and one fetch, and not older than the last
\* invalidate unless an answer was on its way then (createOrgConfigCache in
\* org-config-cache.ts): for any number of jobs and edits and any lifetime, as
\* long as a lifetime or a fetch takes time.
THEOREM OrgFilesAreFresh ==
    ASSUME TTL + FetchLimit > 0
    PROVE  JobSpec => [](step = "config" => Config!OrgIsFresh)
<1> DEFINE I == step = "config" => OrgInv
<1>1. JobInit => I BY OrgInit DEF JobInit
<1>2. I /\ [JobNext]_<<step, configVars, pipelineVars, retryVars, spaceVars>> => I'
  <2> SUFFICES ASSUME I, [JobNext]_<<step, configVars, pipelineVars, retryVars, spaceVars>>,
                      step' = "config"
               PROVE  OrgInv'
    OBVIOUS
  <2>1. step = "config" BY DEF JobNext
  <2>2. OrgInv BY <2>1
  <2>3. CASE Config!Next BY <2>2, <2>3, OrgInvStep
  <2>4. CASE UNCHANGED configVars
    BY <2>2, <2>4 DEF configVars, OrgInv, OrgTypeOK, EditsInv, JobInv, After, CacheInv
  <2> QED BY <2>1, <2>3, <2>4 DEF JobNext
<1>3. I => (step = "config" => Config!OrgIsFresh) BY OrgInvFresh
<1> QED BY <1>1, <1>2, <1>3, PTL DEF JobSpec

-----------------------------------------------------------------------------
\* A non-empty set of naturals has a least element.
LEMMA LeastNumber == ASSUME NEW T \in SUBSET Nat, T # {} PROVE \E n \in T : \A m \in T : n <= m
<1>1. PICK n \in T : \A m \in T : ~ (<<m, n>> \in OpToRel(<, Nat))
  BY NatLessThanWellFounded, WFMin, Zenon
<1>2. \A m \in T : ~ (m < n) BY <1>1 DEF OpToRel
<1> QED BY <1>2

(* Induction over the subsets of a finite set; G holds those for which the *)
(* claim is true.                                                          *)
LEMMA SubsetInduction ==
    ASSUME NEW S, IsFiniteSet(S), NEW G,
           \A s \in SUBSET S : (\A t \in SUBSET s : t # s => t \in G) => s \in G
    PROVE  \A s \in SUBSET S : s \in G
<1> SUFFICES ASSUME NEW r \in SUBSET S, r \notin G PROVE FALSE OBVIOUS
<1> DEFINE Sizes == {Cardinality(s) : s \in (SUBSET S) \ G}
<1>1. \A s \in SUBSET S : IsFiniteSet(s) /\ Cardinality(s) \in Nat
  BY FS_Subset, FS_CardinalityType
<1>2. Sizes # {} /\ Sizes \in SUBSET Nat BY <1>1
<1>3. PICK n \in Sizes : \A m \in Sizes : n <= m
  <2> HIDE DEF Sizes
  <2> QED BY <1>2, LeastNumber
<1>4. PICK s \in (SUBSET S) \ G : Cardinality(s) = n OBVIOUS
<1>5. PICK t \in SUBSET s : t # s /\ t \notin G OBVIOUS
<1>6. Cardinality(t) < Cardinality(s) BY <1>1, <1>5, FS_Subset
<1>7. Cardinality(t) \in Sizes BY <1>5
<1>8. Cardinality(t) \in Nat /\ Cardinality(s) \in Nat BY <1>1, <1>5
<1> QED BY <1>3, <1>4, <1>6, <1>7, <1>8

\* The recursion that adds up e over the elements of S.
Any(s) == CHOOSE x \in s : TRUE
Added(e, S, g) ==
    g = [s \in SUBSET S |-> IF s = {} THEN 0 ELSE e[Any(s)] + g[s \ {Any(s)}]]

\* What the sum of the library is.
LEMMA SumIsAdded ==
    ASSUME NEW e, NEW S
    PROVE  Retry!SumFunctionOnSet(e, S) = (CHOOSE g : Added(e, S, g))[S]
BY DEF Any, Added, Retry!SumFunctionOnSet, Retry!FoldFunctionOnSet, Retry!MapThenFoldSet

\* The recursion has at most one solution.
LEMMA AddedIsUnique ==
    ASSUME NEW e, NEW S, IsFiniteSet(S), NEW g, NEW h, Added(e, S, g), Added(e, S, h)
    PROVE  \A s \in SUBSET S : g[s] = h[s]
<1> DEFINE G == {s \in SUBSET S : g[s] = h[s]}
<1>1. ASSUME NEW s \in SUBSET S, \A t \in SUBSET s : t # s => t \in G
      PROVE  s \in G
  <2>1. CASE s = {} BY <2>1 DEF Added
  <2>2. CASE s # {}
    <3>1. Any(s) \in s BY <2>2 DEF Any
    <3>2. s \ {Any(s)} \in G BY <1>1, <3>1
    <3>3. g[s] = e[Any(s)] + g[s \ {Any(s)}] /\ h[s] = e[Any(s)] + h[s \ {Any(s)}]
      BY <2>2 DEF Added
    <3> QED BY <3>2, <3>3
  <2> QED BY <2>1, <2>2
<1> HIDE DEF G
<1>2. \A s \in SUBSET S : s \in G BY <1>1, SubsetInduction
<1> QED BY <1>2 DEF G

\* The sum satisfies its recursion on every finite set.
LEMMA SumRecursion ==
    ASSUME NEW e, NEW S, IsFiniteSet(S)
    PROVE  Added(e, S, [s \in SUBSET S |-> Retry!SumFunctionOnSet(e, s)])
<1> DEFINE sum(s) == Retry!SumFunctionOnSet(e, s)
           G == {s \in SUBSET S : Added(e, s, [t \in SUBSET s |-> sum(t)])}
<1>1. ASSUME NEW s \in SUBSET S, \A t \in SUBSET s : t # s => t \in G
      PROVE  s \in G
  <2> DEFINE h == [t \in SUBSET s |->
                     IF t = {} THEN 0 ELSE IF t = s THEN e[Any(s)] + sum(s \ {Any(s)}) ELSE sum(t)]
  <2>1. ASSUME NEW t \in SUBSET s, t # s
        PROVE  sum(t) = IF t = {} THEN 0 ELSE e[Any(t)] + sum(t \ {Any(t)})
    <3>1. Added(e, t, [u \in SUBSET t |-> sum(u)]) BY <1>1, <2>1
    <3> DEFINE p == [u \in SUBSET t |-> sum(u)]
    <3>2. p[t] = IF t = {} THEN 0 ELSE e[Any(t)] + p[t \ {Any(t)}]
      <4> HIDE DEF sum
      <4> QED BY <3>1 DEF Added
    <3>3. p[t] = sum(t) /\ p[t \ {Any(t)}] = sum(t \ {Any(t)})
      <4> HIDE DEF sum
      <4> QED OBVIOUS
    <3> QED BY <3>2, <3>3
  <2>2. ASSUME NEW t \in SUBSET s
        PROVE  h[t] = IF t = {} THEN 0 ELSE e[Any(t)] + h[t \ {Any(t)}]
    <3> HIDE DEF sum
    <3>1. CASE t = {} BY <3>1
    <3>2. CASE t # {}
      <4>1. Any(t) \in t BY <3>2 DEF Any
      <4>2. t \ {Any(t)} # s /\ t \ {Any(t)} \in SUBSET s BY <4>1
      <4>3. sum({}) = 0 \/ s = {} BY <2>1
      <4>4. h[t \ {Any(t)}] = sum(t \ {Any(t)}) BY <3>2, <4>2, <4>3
      <4>5. CASE t = s BY <3>2, <4>4, <4>5
      <4>6. CASE t # s BY <2>1, <3>2, <4>4, <4>6
      <4> QED BY <4>5, <4>6
    <3> QED BY <3>1, <3>2
  <2>3. Added(e, s, h)
    <3>1. h = [t \in SUBSET s |-> IF t = {} THEN 0 ELSE e[Any(t)] + h[t \ {Any(t)}]]
      <4> DEFINE k == [t \in SUBSET s |-> IF t = {} THEN 0 ELSE e[Any(t)] + h[t \ {Any(t)}]]
      <4>1. \A t \in SUBSET s : k[t] = h[t]
        <5> HIDE DEF h
        <5> QED BY <2>2
      <4>2. h = [t \in SUBSET s |-> h[t]] OBVIOUS
      <4>3. k = [t \in SUBSET s |-> k[t]] 
        <5> HIDE DEF h
        <5> QED OBVIOUS
      <4> HIDE DEF h, k
      <4>4. h = k BY <4>1, <4>2, <4>3
      <4> QED BY <4>4 DEF k
    <3> HIDE DEF h
    <3> QED BY <3>1 DEF Added
  <2> HIDE DEF h
  <2>4. Added(e, s, CHOOSE g : Added(e, s, g)) BY <2>3
  <2>5. sum(s) = h[s]
    <3>1. IsFiniteSet(s) BY FS_Subset
    <3>2. (CHOOSE g : Added(e, s, g))[s] = h[s] BY <2>3, <2>4, <3>1, AddedIsUnique
    <3> QED BY <3>2, SumIsAdded
  <2>6. \A t \in SUBSET s : h[t] = sum(t)
    <3>1. \A t \in SUBSET s : t # s => h[t] = sum(t)
      <4> SUFFICES ASSUME NEW t \in SUBSET s, t # s PROVE h[t] = sum(t) OBVIOUS
      <4>1. t = {} => sum(t) = 0 BY <2>1
      <4> HIDE DEF sum
      <4> QED BY <4>1 DEF h
    <3> QED BY <3>1, <2>5
  <2>7. h = [t \in SUBSET s |-> sum(t)]
    <3> HIDE DEF sum
    <3>1. h = [t \in SUBSET s |-> h[t]] BY DEF h
    <3> QED BY <2>6, <3>1
  <2> QED BY <2>3, <2>7
<1> HIDE DEF G
<1>2. \A s \in SUBSET S : s \in G BY <1>1, SubsetInduction
<1> QED BY <1>2 DEF G

\* A sum is that of the element chosen first and of the others.
LEMMA SumStep ==
    ASSUME NEW e, NEW S, IsFiniteSet(S), S # {}
    PROVE  /\ Any(S) \in S
           /\ Retry!SumFunctionOnSet(e, S)
                = e[Any(S)] + Retry!SumFunctionOnSet(e, S \ {Any(S)})
<1> DEFINE g == [s \in SUBSET S |-> Retry!SumFunctionOnSet(e, s)]
<1>1. Any(S) \in S BY DEF Any
<1>2. g[S] = e[Any(S)] + g[S \ {Any(S)}]
  <2>1. Added(e, S, g) BY SumRecursion
  <2> HIDE DEF g
  <2> QED BY <2>1 DEF Added
<1>3. /\ g[S] = Retry!SumFunctionOnSet(e, S)
      /\ g[S \ {Any(S)}] = Retry!SumFunctionOnSet(e, S \ {Any(S)})
  OBVIOUS
<1> QED BY <1>1, <1>2, <1>3

\* The sum of nothing is zero.
LEMMA SumOfNothing == ASSUME NEW e PROVE Retry!SumFunctionOnSet(e, {}) = 0
<1> DEFINE g == [s \in SUBSET {} |-> Retry!SumFunctionOnSet(e, s)]
<1>1. g[{}] = 0
  <2>1. Added(e, {}, g) BY SumRecursion, FS_EmptySet
  <2> HIDE DEF g
  <2> QED BY <2>1 DEF Added
<1> QED BY <1>1

\* Sums of integers are integers.
LEMMA SumType ==
    ASSUME NEW S, IsFiniteSet(S), NEW e, \A x \in S : e[x] \in Int
    PROVE  Retry!SumFunctionOnSet(e, S) \in Int
<1> DEFINE sum(s) == Retry!SumFunctionOnSet(e, s)
           G == {s \in SUBSET S : sum(s) \in Int}
<1>1. ASSUME NEW s \in SUBSET S, \A t \in SUBSET s : t # s => t \in G
      PROVE  s \in G
  <2>1. CASE s = {} BY <2>1, SumOfNothing
  <2>2. CASE s # {}
    <3>1. IsFiniteSet(s) BY FS_Subset
    <3>2. Any(s) \in s /\ sum(s) = e[Any(s)] + sum(s \ {Any(s)}) BY <2>2, <3>1, SumStep
    <3>3. s \ {Any(s)} \in G BY <1>1, <3>2
    <3>4. sum(s \ {Any(s)}) \in Int BY <3>3
    <3> HIDE DEF sum
    <3> QED BY <3>2, <3>4
  <2> QED BY <2>1, <2>2
<1> HIDE DEF G
<1>2. \A s \in SUBSET S : s \in G BY <1>1, SubsetInduction
<1> QED BY <1>2 DEF G

\* The order in which a sum is taken does not matter.
LEMMA SumSplits ==
    ASSUME NEW S, IsFiniteSet(S), NEW e, \A x \in S : e[x] \in Int, NEW x \in S
    PROVE  Retry!SumFunctionOnSet(e, S) = e[x] + Retry!SumFunctionOnSet(e, S \ {x})
<1> DEFINE sum(s) == Retry!SumFunctionOnSet(e, s)
           G == {s \in SUBSET S : \A y \in s : sum(s) = e[y] + sum(s \ {y})}
<1>1. \A s \in SUBSET S : IsFiniteSet(s) /\ sum(s) \in Int BY FS_Subset, SumType
<1>2. ASSUME NEW s \in SUBSET S, \A t \in SUBSET s : t # s => t \in G
      PROVE  s \in G
  <2> SUFFICES ASSUME NEW y \in s PROVE sum(s) = e[y] + sum(s \ {y}) OBVIOUS
  <2>1. Any(s) \in s /\ sum(s) = e[Any(s)] + sum(s \ {Any(s)}) BY <1>1, SumStep
  <2>2. CASE y = Any(s) BY <2>1, <2>2
  <2>3. CASE y # Any(s)
    <3>1. s \ {Any(s)} \in G /\ s \ {y} \in G BY <1>2, <2>1
    <3>2. sum(s \ {Any(s)}) = e[y] + sum((s \ {Any(s)}) \ {y}) BY <2>1, <2>3, <3>1
    <3>3. sum(s \ {y}) = e[Any(s)] + sum((s \ {y}) \ {Any(s)}) BY <2>1, <2>3, <3>1
    <3>4. (s \ {Any(s)}) \ {y} = (s \ {y}) \ {Any(s)} OBVIOUS
    <3>5. sum((s \ {y}) \ {Any(s)}) \in Int BY <1>1
    <3>6. e[y] \in Int /\ e[Any(s)] \in Int BY <2>1
    <3> DEFINE rest == sum((s \ {y}) \ {Any(s)})
    <3>7. /\ sum(s) = e[Any(s)] + (e[y] + rest) /\ sum(s \ {y}) = e[Any(s)] + rest
          /\ rest \in Int
      BY <2>1, <3>2, <3>3, <3>4, <3>5
    <3> HIDE DEF sum, rest
    <3> QED BY <3>6, <3>7
  <2> QED BY <2>2, <2>3
<1> HIDE DEF G
<1>3. \A s \in SUBSET S : s \in G BY <1>2, SubsetInduction
<1> QED BY <1>3 DEF G

\* A sum depends on what is added up only.
LEMMA SumAgrees ==
    ASSUME NEW S, IsFiniteSet(S), NEW e, NEW f, \A x \in S : e[x] = f[x]
    PROVE  Retry!SumFunctionOnSet(e, S) = Retry!SumFunctionOnSet(f, S)
<1> DEFINE G == {s \in SUBSET S : Retry!SumFunctionOnSet(e, s) = Retry!SumFunctionOnSet(f, s)}
<1>1. ASSUME NEW s \in SUBSET S, \A t \in SUBSET s : t # s => t \in G
      PROVE  s \in G
  <2>1. CASE s = {} BY <2>1, SumOfNothing
  <2>2. CASE s # {}
    <3>1. IsFiniteSet(s) BY FS_Subset
    <3>2. Any(s) \in s /\ s \ {Any(s)} \in G BY <1>1 , <2>2 DEF Any
    <3>3. /\ Retry!SumFunctionOnSet(e, s) = e[Any(s)] + Retry!SumFunctionOnSet(e, s \ {Any(s)})
          /\ Retry!SumFunctionOnSet(f, s) = f[Any(s)] + Retry!SumFunctionOnSet(f, s \ {Any(s)})
      BY <2>2, <3>1, SumStep
    <3> QED BY <3>2, <3>3
  <2> QED BY <2>1, <2>2
<1> HIDE DEF G
<1>2. \A s \in SUBSET S : s \in G BY <1>1, SubsetInduction
<1> QED BY <1>2 DEF G
-----------------------------------------------------------------------------
(* One model call. Every failure but one that ended the call had a budget  *)
(* left when it came; the time slept is explained by the failures slept    *)
(* for, which leaves out the last one while its sleep is still to come.    *)
Class ==
    [kind : {"rate_limit", "overloaded", "auth", "context_length", "transient", "fatal"},
     retryAfterMs : {-1} \cup RetryAfters]

Total(D) == Retry!SumFunction([i \in D |-> Retry!Asked(i)])
Budgeted(i) ==
    /\ errors[i].kind \in DOMAIN Retry!RETRY_LIMITS
    /\ i <= Retry!RETRY_LIMITS[errors[i].kind]
Going == call \in {"calling", "sleeping", "answered"}

CallInv ==
    /\ driver \in Retry!Drivers /\ errors \in Seq(Class) /\ slept \in Nat
    /\ call \in {"calling", "sleeping", "answered", "thrown", "ContextLengthError"}
    /\ call \in {"sleeping", "thrown", "ContextLengthError"} => errors # <<>>
    /\ Len(errors) <= 6 /\ (Going => Len(errors) <= 5)
    /\ \A i \in 1..(Len(errors) - IF Going THEN 0 ELSE 1) : Budgeted(i)
    /\ 4 * Total(Retry!Slept) <= 5 * slept /\ 5 * slept <= 6 * Total(Retry!Slept)

\* How the call ended is explained by what was seen last.
EndsInv ==
    /\ call = "thrown" =>
         LET why == errors[Len(errors)].kind
         IN  why \in DOMAIN Retry!RETRY_LIMITS => Len(errors) > Retry!RETRY_LIMITS[why]
    /\ call = "ContextLengthError" =>
         last.message # "other" \/ last.code = "context_length_exceeded"
    /\ call = "answered" =>
         /\ output.toolCalls = used.calls
         /\ output.tokensUsed <= used.answer
         /\ used.total => output.tokensUsed = used.answer

\* Every driver puts a failure in one of the six classes, and calls only those
\* a long context that say so.
LEMMA ClassType ==
    ASSUME driver \in Retry!Drivers, NEW err \in Retry!Errors
    PROVE  /\ Retry!classifyError(err) \in Class
           /\ Retry!classifyError(err).kind = "context_length" =>
                err.message # "other" \/ err.code = "context_length_exceeded"
<1>1. err.retryAfter \in {-1} \cup RetryAfters
  <2> DEFINE plain == [status : {0, 401, 500, 529},
                       code : {"none", "ECONNRESET", "context_length_exceeded"},
                       message : Retry!Wordings, retryAfter : {Retry!NoHeader}]
             limited == [status : {429}, code : {"none"}, message : {"other", "context length"},
                         retryAfter : {Retry!NoHeader} \cup RetryAfters]
  <2>1. err \in plain \/ err \in limited BY DEF Retry!Errors
  <2>2. CASE err \in plain BY <2>2 DEF Retry!NoHeader
  <2>3. CASE err \in limited BY <2>3 DEF Retry!NoHeader
  <2> QED BY <2>1, <2>2, <2>3
<1> DEFINE asks == [kind |-> "rate_limit", retryAfterMs |-> err.retryAfter]
           Says(class) == class.kind = "context_length" =>
                            err.message # "other" \/ err.code = "context_length_exceeded"
           Fine(class) == class \in Class /\ Says(class)
<1>2. \A k \in {"overloaded", "auth", "transient", "fatal"} : Fine(Retry!Kind(k))
  BY DEF Retry!Kind, Class, Retry!NoHeader
<1>3. Fine(asks) BY <1>1 DEF Class
<1>4. err.message # "other" \/ err.code = "context_length_exceeded"
        => Fine(Retry!Kind("context_length"))
  BY DEF Retry!Kind, Class, Retry!NoHeader
<1> HIDE DEF Fine, Says
<1>5. CASE driver = "anthropic"
  <2>1. Retry!classifyError(err) = Retry!classifyAnthropicError(err)
    BY <1>5 DEF Retry!classifyError
  <2>2. Fine(Retry!classifyAnthropicError(err))
    BY <1>2, <1>3, <1>4 DEF Retry!classifyAnthropicError
  <2> QED BY <2>1, <2>2 DEF Fine, Says
<1>6. ASSUME NEW words, "other" \notin words PROVE Fine(Retry!classifyByWordsFirst(err, words))
  BY <1>2, <1>3, <1>4, <1>6 DEF Retry!classifyByWordsFirst
<1>7. CASE driver = "openai"
  <2>1. Retry!classifyError(err) = Retry!classifyByWordsFirst(err, {"context length"})
    BY <1>7 DEF Retry!classifyError, Retry!classifyOpenAIError
  <2> QED BY <1>6, <2>1 DEF Fine, Says
<1>8. CASE driver = "generic"
  <2>1. Retry!classifyError(err)
          = Retry!classifyByWordsFirst(err, {"context length", "tokens exceeds"})
    BY <1>8 DEF Retry!classifyError, Retry!classifyHttpStyleError
  <2> QED BY <1>6, <2>1 DEF Fine, Says
<1> QED BY <1>5, <1>7, <1>8 DEF Retry!Drivers

\* One attempt more than the largest budget.
LEMMA MaxAttempts == Retry!MAX_ATTEMPTS = 6
<1>1. Retry!Range(Retry!RETRY_LIMITS) = {5, 3}
  BY DEF Retry!Range, Retry!RETRY_LIMITS
<1>2. Retry!Max({5, 3}) = 5 BY DEF Retry!Max
<1> QED BY <1>1, <1>2 DEF Retry!MAX_ATTEMPTS

\* What a failure asks for is a delay, and the jitter stays within a fifth of it.
LEMMA AskedType ==
    ASSUME errors \in Seq(Class), NEW i \in 1..Len(errors), i <= 5
    PROVE  /\ Retry!Asked(i) \in Nat
           /\ \A d \in Retry!DelayFor(errors[i], i - 1) :
                d \in Nat /\ 4 * Retry!Asked(i) <= 5 * d /\ 5 * d <= 6 * Retry!Asked(i)
<1>1. errors[i].retryAfterMs \in {-1} \cup RetryAfters
  <2>1. errors[i] \in Class OBVIOUS
  <2> QED BY <2>1 DEF Class
<1>2. /\ Retry!BACKOFF_MS[i] \in {5, 10, 20, 40, 80}
      /\ Len(Retry!BACKOFF_MS) = 5
  <2>1. i = 1 \/ i = 2 \/ i = 3 \/ i = 4 \/ i = 5 OBVIOUS
  <2> QED BY <2>1 DEF Retry!BACKOFF_MS
<1>3. Retry!Min({i - 1, 4}) = i - 1
  <2>1. i - 1 \in {i - 1, 4} /\ \A y \in {i - 1, 4} : i - 1 =< y OBVIOUS
  <2>2. \A x \in {i - 1, 4} : (\A y \in {i - 1, 4} : x =< y) => x = i - 1 OBVIOUS
  <2> QED BY <2>1, <2>2 DEF Retry!Min
<1>4. Retry!Asked(i) = IF errors[i].retryAfterMs # -1 THEN errors[i].retryAfterMs
                       ELSE Retry!BACKOFF_MS[i]
  BY <1>2 DEF Retry!Asked, Retry!NoHeader
<1>5. Retry!DelayFor(errors[i], i - 1)
        = {Retry!Asked(i) - Retry!Asked(i) \div 5, Retry!Asked(i) + Retry!Asked(i) \div 5}
  BY <1>1, <1>2, <1>3, <1>4 DEF Retry!DelayFor, Retry!NoHeader
<1>6. Retry!Asked(i) \in Nat
  <2>1. RetryAfters \subseteq Nat BY RetryAssumption
  <2>2. {5, 10, 20, 40, 80} \subseteq Nat OBVIOUS
  <2>3. CASE errors[i].retryAfterMs # -1 BY <1>1, <1>4, <2>1, <2>3
  <2>4. CASE errors[i].retryAfterMs = -1 BY <1>2, <1>4, <2>2, <2>4
  <2> QED BY <2>3, <2>4
<1>7. ASSUME NEW b \in Nat, NEW d \in {b - b \div 5, b + b \div 5}
      PROVE  d \in Nat /\ 4 * b <= 5 * d /\ 5 * d <= 6 * b
  <2>1. b \div 5 \in Nat /\ 5 * (b \div 5) <= b OBVIOUS
  <2> QED BY <1>7, <2>1
<1> QED BY <1>5, <1>6, <1>7

\* The sum over the failures so far, and over one more.
LEMMA TotalType ==
    ASSUME errors \in Seq(Class), NEW n \in Nat, n <= Len(errors), n <= 5
    PROVE  /\ Total(1..n) \in Int
           /\ n > 0 => Total(1..n) = Retry!Asked(n) + Total(1..(n - 1))
<1> DEFINE f == [i \in 1..n |-> Retry!Asked(i)]
           g == [i \in 1..(n - 1) |-> Retry!Asked(i)]
<1>1. IsFiniteSet(1..n) /\ IsFiniteSet(1..(n - 1)) BY FS_Interval
<1>2. \A i \in 1..n : f[i] \in Int BY AskedType
<1>3. Total(1..n) = Retry!SumFunctionOnSet(f, 1..n) BY DEF Total, Retry!SumFunction
<1>4. Total(1..(n - 1)) = Retry!SumFunctionOnSet(g, 1..(n - 1)) BY DEF Total, Retry!SumFunction
<1>5. Total(1..n) \in Int
  <2> HIDE DEF f
  <2> QED BY <1>1, <1>2, <1>3, SumType
<1>6. ASSUME n > 0 PROVE Total(1..n) = Retry!Asked(n) + Total(1..(n - 1))
  <2>1. (1..n) \ {n} = 1..(n - 1) /\ n \in 1..n BY <1>6
  <2>2. f[n] = Retry!Asked(n) /\ \A i \in 1..(n - 1) : f[i] = g[i] BY <1>6
  <2> HIDE DEF f, g
  <2>3. Retry!SumFunctionOnSet(f, 1..n) = f[n] + Retry!SumFunctionOnSet(f, (1..n) \ {n})
    BY <1>1, <1>2, <2>1, SumSplits
  <2>4. Retry!SumFunctionOnSet(f, 1..(n - 1)) = Retry!SumFunctionOnSet(g, 1..(n - 1))
    BY <1>1, <2>2, SumAgrees
  <2> QED BY <1>3, <1>4, <2>1, <2>2, <2>3, <2>4
<1> QED BY <1>5, <1>6

\* Before the call nothing failed and nothing was slept.
LEMMA CallInit == Retry!Init => CallInv /\ EndsInv
<1> SUFFICES ASSUME Retry!Init PROVE CallInv /\ EndsInv OBVIOUS
<1>1. errors = <<>> /\ call = "calling" /\ slept = 0 /\ driver \in Retry!Drivers
  BY DEF Retry!Init
<1>2. Retry!Slept = {} BY <1>1 DEF Retry!Slept
<1>3. Total({}) = 0
  <2> DEFINE f == [i \in {} |-> Retry!Asked(i)]
  <2>1. Total({}) = Retry!SumFunctionOnSet(f, {}) BY DEF Total, Retry!SumFunction
  <2> QED BY <2>1, SumOfNothing
<1>4. EndsInv BY <1>1 DEF EndsInv
<1> QED BY <1>1, <1>2, <1>3, <1>4 DEF CallInv, Going

\* A failure leaves the sleep as it is and either fits its budget or ends the
\* call.
LEMMA WithRetryStep == ASSUME CallInv, Retry!withRetry PROVE CallInv' /\ EndsInv'
<1>1. PICK err \in Retry!Errors :
        Retry!Fails(err) /\ last' = IF call' = "ContextLengthError" THEN err ELSE Retry!NoError
  BY DEF Retry!withRetry
<1> DEFINE class == Retry!classifyError(err)
<1>a. PICK n \in 0..5 : n = Len(errors)
  <2>1. call = "calling" BY DEF Retry!withRetry
  <2>2. errors \in Seq(Class) /\ Len(errors) <= 5 BY <2>1 DEF CallInv, Going
  <2>3. Len(errors) \in Nat BY <2>2
  <2>4. \A m \in Nat : m <= 5 => m \in 0..5 OBVIOUS
  <2> QED BY <2>2, <2>3, <2>4, Zenon
<1>2. /\ call = "calling" /\ UNCHANGED <<driver, slept, used, output>>
      /\ driver \in Retry!Drivers /\ errors \in Seq(Class) /\ slept \in Nat
      /\ n = Len(errors)
  BY <1>a DEF Retry!withRetry, CallInv
<1>3. class \in Class BY <1>2, ClassType
<1>4. errors' = Append(errors, class) BY <1>1 DEF Retry!Fails
<1>5. /\ errors' \in Seq(Class) /\ Len(errors') = n + 1 /\ errors'[n + 1] = class
      /\ \A i \in 1..n : errors'[i] = errors[i]
  BY <1>2, <1>3, <1>4
<1>6. \/ call' = "sleeping" /\ Retry!Retriable(class.kind, n) /\ n + 1 < 6
      \/ /\ call' = IF class.kind = "context_length" THEN "ContextLengthError" ELSE "thrown"
         /\ ~Retry!Retriable(class.kind, n) \/ n + 1 >= 6
  BY <1>1, <1>2, MaxAttempts DEF Retry!Fails
<1> HIDE DEF class
<1>7. \A i \in 1..n : Budgeted(i) BY <1>2 DEF CallInv, Going
<1>8. \A i \in 1..n : Budgeted(i)' BY <1>5, <1>7 DEF Budgeted
<1>9. ASSUME call' = "sleeping" PROVE Budgeted(n + 1)'
  <2>1. class.kind \in DOMAIN Retry!RETRY_LIMITS /\ n < Retry!RETRY_LIMITS[class.kind]
    BY <1>6, <1>9 DEF Retry!Retriable
  <2>2. \A k \in DOMAIN Retry!RETRY_LIMITS : Retry!RETRY_LIMITS[k] \in Nat
    BY DEF Retry!RETRY_LIMITS
  <2> QED BY <1>5, <2>1, <2>2 DEF Budgeted
<1>10. Retry!Slept = 1..n /\ Retry!Slept' = 1..n
  BY <1>2, <1>5, <1>6 DEF Retry!Slept
<1>11. Total(Retry!Slept)' = Total(Retry!Slept)
  <2>1. \A i \in 1..n : Retry!Asked(i)' = Retry!Asked(i) BY <1>5 DEF Retry!Asked
  <2>2. [i \in 1..n |-> Retry!Asked(i)]' = [i \in 1..n |-> Retry!Asked(i)]
    BY <1>10, <2>1
  <2> QED BY <1>10, <2>2 DEF Total
<1>12. CallInv'
  <2>1. \A i \in 1..(Len(errors') - IF Going' THEN 0 ELSE 1) : Budgeted(i)'
    BY <1>2, <1>5, <1>6, <1>8, <1>9 DEF Going
  <2>2. 4 * Total(Retry!Slept)' <= 5 * slept' /\ 5 * slept' <= 6 * Total(Retry!Slept)'
    BY <1>2, <1>11 DEF CallInv
  <2> QED BY <1>2, <1>5, <1>6, <2>1, <2>2 DEF CallInv, Going
<1>13. EndsInv'
  <2>1. ASSUME call' = "thrown"
        PROVE  class.kind \in DOMAIN Retry!RETRY_LIMITS
                 => Len(errors') > Retry!RETRY_LIMITS[class.kind]
    BY <1>2, <1>5, <1>6, <2>1 DEF Retry!Retriable, Retry!RETRY_LIMITS
  <2>2. ASSUME call' = "ContextLengthError"
        PROVE  last'.message # "other" \/ last'.code = "context_length_exceeded"
    BY <1>1, <1>2, <1>6, <2>2, ClassType DEF class
  <2>3. call' # "answered" BY <1>6
  <2> QED BY <1>5, <2>1, <2>2, <2>3 DEF EndsInv
<1> QED BY <1>12, <1>13

\* A sleep is within a fifth of what the last failure asks for.
LEMMA SleepStep == ASSUME CallInv, Retry!sleep PROVE CallInv' /\ EndsInv'
<1>a. PICK n \in 1..5 : n = Len(errors)
  <2>1. /\ errors \in Seq(Class) /\ errors # <<>> /\ Len(errors) <= 5
    BY DEF Retry!sleep, CallInv, Going
  <2>2. Len(errors) \in Nat /\ Len(errors) # 0 BY <2>1
  <2>3. \A m \in Nat : m <= 5 /\ m # 0 => m \in 1..5 OBVIOUS
  <2> QED BY <2>1, <2>2, <2>3, Zenon
<1>1. /\ call = "sleeping" /\ call' = "calling"
      /\ UNCHANGED <<driver, errors, last, used, output>>
      /\ driver \in Retry!Drivers /\ errors \in Seq(Class) /\ slept \in Nat
      /\ n = Len(errors)
  BY <1>a DEF Retry!sleep, CallInv, Going
<1>2. PICK d \in Retry!DelayFor(errors[n], n - 1) : slept' = slept + d
  BY <1>1 DEF Retry!sleep
<1>3. d \in Nat /\ 4 * Retry!Asked(n) <= 5 * d /\ 5 * d <= 6 * Retry!Asked(n)
      /\ Retry!Asked(n) \in Int
  BY <1>1, AskedType
<1>4. Retry!Slept = 1..(n - 1) /\ Retry!Slept' = 1..n BY <1>1 DEF Retry!Slept
<1>5. Total(1..n) = Retry!Asked(n) + Total(1..(n - 1)) /\ Total(1..(n - 1)) \in Int
  BY <1>1, TotalType
<1>6. Total(Retry!Slept)' = Total(1..n)
  <2>1. \A i \in 1..n : Retry!Asked(i)' = Retry!Asked(i) BY <1>1 DEF Retry!Asked
  <2>2. [i \in 1..n |-> Retry!Asked(i)]' = [i \in 1..n |-> Retry!Asked(i)] BY <1>1, <2>1
  <2> QED BY <1>4, <2>2 DEF Total
<1>7. 4 * Total(1..(n - 1)) <= 5 * slept /\ 5 * slept <= 6 * Total(1..(n - 1))
  BY <1>4 DEF CallInv
<1>8. 4 * Total(Retry!Slept)' <= 5 * slept' /\ 5 * slept' <= 6 * Total(Retry!Slept)'
  <2> DEFINE t == Total(1..(n - 1))
             a == Retry!Asked(n)
  <2>1. t \in Int /\ a \in Int /\ slept \in Nat /\ d \in Nat BY <1>1, <1>3, <1>5
  <2>2. 4 * t <= 5 * slept /\ 5 * slept <= 6 * t /\ 4 * a <= 5 * d /\ 5 * d <= 6 * a
    BY <1>3, <1>7
  <2>3. Total(Retry!Slept)' = a + t /\ slept' = slept + d BY <1>2, <1>5, <1>6
  <2> HIDE DEF t, a
  <2> QED BY <2>1, <2>2, <2>3
<1>9. \A i \in 1..n : Budgeted(i) BY <1>1 DEF CallInv, Going
<1>10. \A i \in 1..n : Budgeted(i)' BY <1>1, <1>9 DEF Budgeted
<1>11. CallInv' BY <1>1, <1>2, <1>3, <1>8, <1>10 DEF CallInv, Going
<1> QED BY <1>1, <1>11 DEF EndsInv

\* A step without a list of tool calls counts as one without calls.
LEMMA StepsCounted ==
    ASSUME NEW s \in Seq(Nat \cup {-1})
    PROVE  Retry!countToolCalls(s) = Retry!SumFunction([i \in DOMAIN s |-> Retry!Max({0, s[i]})])
<1> DEFINE f == [i \in DOMAIN s |-> Retry!Max({0, s[i]})]
           Listed(t) == {i \in t : s[i] # -1}
           G == {t \in SUBSET DOMAIN s :
                   Retry!SumFunctionOnSet(s, Listed(t)) = Retry!SumFunctionOnSet(f, t)}
<1>1. DOMAIN s = 1..Len(s) /\ Len(s) \in Nat /\ IsFiniteSet(DOMAIN s)
  <2>1. DOMAIN s = 1..Len(s) /\ Len(s) \in Nat OBVIOUS
  <2> QED BY <2>1, FS_Interval
<1>2. \A i \in DOMAIN s : s[i] \in Nat \cup {-1} OBVIOUS
<1>3. \A i \in DOMAIN s : f[i] = IF s[i] = -1 THEN 0 ELSE s[i]
  <2>1. \A x \in Nat \cup {-1} : Retry!Max({0, x}) = IF x = -1 THEN 0 ELSE x
    BY DEF Retry!Max
  <2> QED BY <1>2, <2>1
<1> HIDE DEF f
<1>4. ASSUME NEW t \in SUBSET DOMAIN s, \A u \in SUBSET t : u # t => u \in G
      PROVE  t \in G
  <2>1. CASE t = {}
    <3>1. Listed(t) = {} BY <2>1
    <3> QED BY <2>1, <3>1, SumOfNothing
  <2>2. CASE t # {}
    <3>1. PICK x \in t : TRUE BY <2>2
    <3>2. t \ {x} \in G BY <1>4
    <3>3. /\ IsFiniteSet(t) /\ IsFiniteSet(t \ {x}) /\ IsFiniteSet(Listed(t))
          /\ \A i \in t : f[i] \in Int
          /\ \A i \in Listed(t) : s[i] \in Int
      BY <1>1, <1>2, <1>3, FS_Subset
    <3>4. Retry!SumFunctionOnSet(f, t) = f[x] + Retry!SumFunctionOnSet(f, t \ {x})
      BY <3>3, SumSplits
    <3>5. Retry!SumFunctionOnSet(f, t \ {x}) \in Int BY <3>3, SumType
    <3>6. CASE s[x] = -1
      <4>1. Listed(t) = Listed(t \ {x}) BY <3>6
      <4>2. f[x] = 0 BY <1>3, <3>6
      <4>3. 0 + Retry!SumFunctionOnSet(f, t \ {x}) = Retry!SumFunctionOnSet(f, t \ {x}) BY <3>5
      <4> QED BY <3>2, <3>4, <4>1, <4>2, <4>3
    <3>7. CASE s[x] # -1
      <4>1. x \in Listed(t) /\ Listed(t) \ {x} = Listed(t \ {x}) BY <3>7
      <4>2. Retry!SumFunctionOnSet(s, Listed(t))
              = s[x] + Retry!SumFunctionOnSet(s, Listed(t) \ {x})
        BY <3>3, <4>1, SumSplits
      <4>3. f[x] = s[x] BY <1>3, <3>7
      <4> QED BY <3>2, <3>4, <4>1, <4>2, <4>3
    <3> QED BY <3>6, <3>7
  <2> QED BY <2>1, <2>2
<1>5. \A t \in SUBSET DOMAIN s : t \in G
  <2> HIDE DEF G
  <2> QED BY <1>1, <1>4, SubsetInduction
<1>6. Retry!SumFunctionOnSet(s, Listed(DOMAIN s)) = Retry!SumFunctionOnSet(f, DOMAIN s)
  BY <1>5
<1>7. Retry!countToolCalls(s) = Retry!SumFunctionOnSet(s, Listed(DOMAIN s))
  BY DEF Retry!countToolCalls, Retry!Missing
<1>8. Retry!SumFunction(f) = Retry!SumFunctionOnSet(f, DOMAIN s)
  BY DEF Retry!SumFunction, f
<1> QED BY <1>6, <1>7, <1>8 DEF f

\* An answer reports what it used.
LEMMA AnswerStep == ASSUME CallInv, Retry!generateReview PROVE CallInv' /\ EndsInv'
<1>1. PICK given \in [steps : StepLists, totalUsage : BOOLEAN, usage : BOOLEAN] :
        /\ output' = [tokensUsed |-> Retry!UsageOf(given),
                      toolCalls |-> Retry!countToolCalls(given.steps)]
        /\ used' = [answer |-> Len(given.steps), total |-> given.totalUsage,
                    calls |-> Retry!SumFunction([i \in DOMAIN given.steps
                                                   |-> Retry!Max({0, given.steps[i]})])]
  BY DEF Retry!generateReview
<1>2. call = "calling" /\ call' = "answered" /\ UNCHANGED <<driver, errors, last, slept>>
  BY DEF Retry!generateReview
<1>3. CallInv'
  <2>1. Retry!Slept' = Retry!Slept BY <1>2 DEF Retry!Slept
  <2>2. Total(Retry!Slept)' = Total(Retry!Slept)
    <3>1. \A i : Retry!Asked(i)' = Retry!Asked(i) BY <1>2 DEF Retry!Asked
    <3> QED BY <2>1, <3>1 DEF Total
  <2>3. \A i \in 1..Len(errors) : Budgeted(i) BY <1>2 DEF CallInv, Going
  <2>4. \A i \in 1..Len(errors) : Budgeted(i)' BY <1>2, <2>3 DEF Budgeted
  <2>5. Going /\ Going' BY <1>2 DEF Going
  <2> QED BY <1>2, <2>2, <2>4, <2>5 DEF CallInv
<1>4. output'.toolCalls = used'.calls
  <2>1. given.steps \in Seq(Nat \cup {-1}) BY RetryAssumption
  <2> QED BY <1>1, <2>1, StepsCounted
<1>5. /\ output'.tokensUsed <= used'.answer
      /\ used'.total => output'.tokensUsed = used'.answer
  <2>1. Len(given.steps) \in Nat \ {0}
    <3>1. given.steps \in Seq(Nat \cup {-1}) /\ given.steps # <<>> BY RetryAssumption
    <3> QED BY <3>1
  <2>2. given.totalUsage \in BOOLEAN /\ given.usage \in BOOLEAN OBVIOUS
  <2>3. /\ output'.tokensUsed = Retry!UsageOf(given) /\ used'.answer = Len(given.steps)
        /\ used'.total = given.totalUsage
    BY <1>1
  <2>4. Retry!UsageOf(given) <= Len(given.steps)
    <3>1. CASE given.totalUsage BY <2>1, <3>1 DEF Retry!UsageOf
    <3>2. CASE ~given.totalUsage /\ given.usage
      <4>1. Retry!UsageOf(given) = 1 BY <3>2 DEF Retry!UsageOf
      <4>2. \A m \in Nat \ {0} : 1 <= m OBVIOUS
      <4> QED BY <2>1, <4>1, <4>2, Zenon
    <3>3. CASE ~given.totalUsage /\ ~given.usage BY <2>1, <3>3 DEF Retry!UsageOf
    <3> QED BY <3>1, <3>2, <3>3
  <2>5. given.totalUsage => Retry!UsageOf(given) = Len(given.steps)
    BY <2>2 DEF Retry!UsageOf
  <2> QED BY <2>3, <2>4, <2>5
<1> QED BY <1>2, <1>3, <1>4, <1>5 DEF EndsInv

\* A step that leaves the call alone.
LEMMA CallStutters ==
    ASSUME CallInv, EndsInv, UNCHANGED retryVars PROVE CallInv' /\ EndsInv'
<1>1. UNCHANGED <<driver, call, errors, last, slept, used, output>> BY DEF retryVars
<1>2. Total(Retry!Slept)' = Total(Retry!Slept)
  <2>1. Retry!Slept' = Retry!Slept BY <1>1 DEF Retry!Slept
  <2>2. \A i : Retry!Asked(i)' = Retry!Asked(i) BY <1>1 DEF Retry!Asked
  <2> QED BY <2>1, <2>2 DEF Total
<1>3. \A i : Budgeted(i)' <=> Budgeted(i) BY <1>1 DEF Budgeted
<1>4. Going' <=> Going BY <1>1 DEF Going
<1>5. CallInv' BY <1>1, <1>2, <1>3, <1>4 DEF CallInv
<1>6. EndsInv' BY <1>1 DEF EndsInv
<1> QED BY <1>5, <1>6

\* The policy explains every attempt, delay and figure of a provider call (llm
\* withRetry, core withRetry, the drivers' classifyError and generateReview),
\* whatever the driver and the sequence of failures.
THEOREM RetriesHold == JobSpec => []RetriesAreExplained
<1> DEFINE I == step = "call" => CallInv /\ EndsInv
<1>1. JobInit => I BY CallInit DEF JobInit
<1>2. I /\ [JobNext]_<<step, configVars, pipelineVars, retryVars, spaceVars>> => I'
  <2> SUFFICES ASSUME I, [JobNext]_<<step, configVars, pipelineVars, retryVars, spaceVars>>,
                      step' = "call"
               PROVE  CallInv' /\ EndsInv'
    OBVIOUS
  <2>1. step = "call" BY DEF JobNext
  <2>2. CASE Retry!Next
    BY <2>1, <2>2, WithRetryStep, SleepStep, AnswerStep DEF Retry!Next
  <2>3. CASE UNCHANGED retryVars BY <2>1, <2>3, CallStutters
  <2> QED BY <2>1, <2>2, <2>3 DEF JobNext
<1>3. I => RetriesAreExplained
  <2> SUFFICES ASSUME CallInv, EndsInv PROVE Retry!RetriesExplained
    BY DEF RetriesAreExplained
  <2>1. Len(errors) <= 6 /\ (call = "answered" => Len(errors) <= 5) BY DEF CallInv, Going
  <2>2. \A i \in Retry!Slept : Budgeted(i) BY DEF CallInv, Going, Retry!Slept
  <2>3. /\ 4 * Retry!SumFunction([i \in Retry!Slept |-> Retry!Asked(i)]) <= 5 * slept
        /\ 5 * slept <= 6 * Retry!SumFunction([i \in Retry!Slept |-> Retry!Asked(i)])
    BY DEF CallInv, Total
  <2> QED BY <2>1, <2>2, <2>3 DEF EndsInv, Retry!RetriesExplained, Budgeted
<1> QED BY <1>1, <1>2, <1>3, PTL DEF JobSpec
-----------------------------------------------------------------------------
(* One review of the pipeline: what the lines of its diff belong to.       *)
Number == Nat \X Nat
Heads == {i \in Pipeline!Text : Pipeline!FILE_HEADER_LINE(Pipeline!LineAt(i))}
Body(h) ==
    {i \in Pipeline!Text : Pipeline!Before(h, i)
                             /\ \A g \in Heads : Pipeline!Before(h, g) => Pipeline!Before(i, g)}
Part(h) == [path |-> Pipeline!LineAt(h).path, head |-> h, body |-> Body(h)]

\* The segments of the diff are the parts that its header-like lines open.
LEMMA PartsParsed == Pipeline!Parsed = {Part(h) : h \in Heads}
BY DEF Pipeline!Parsed, Pipeline!parseDiffByFile, Heads, Part, Body

\* What the review knows of its job.
LEMMA JobFiles ==
    ASSUME job \in ReviewJobs
    PROVE  /\ DOMAIN job.files \subseteq Nat
           /\ \A n \in DOMAIN job.files :
                 /\ job.files[n].path \in Paths
                 /\ Len(job.files[n].patch) \in Nat
                 /\ DOMAIN job.files[n].patch = 1..Len(job.files[n].patch)
                 /\ \A k \in DOMAIN job.files[n].patch : job.files[n].patch[k].path \in Paths
<1> DEFINE PatchLine == [kind : Pipeline!LineKinds, path : Paths]
           File == [path : Paths, patch : Seq(PatchLine)]
<1>1. job.files \in Seq(File)
  BY PipelineAssumption DEF Pipeline!IsReviewJob
<1>2. DOMAIN job.files \subseteq Nat /\ \A n \in DOMAIN job.files : job.files[n] \in File
  <2> HIDE DEF File
  <2> QED BY <1>1
<1>3. ASSUME NEW n \in DOMAIN job.files
      PROVE  job.files[n].path \in Paths /\ job.files[n].patch \in Seq(PatchLine)
  BY <1>2
<1>4. ASSUME NEW p \in Seq(PatchLine)
      PROVE  /\ Len(p) \in Nat /\ DOMAIN p = 1..Len(p)
             /\ \A k \in DOMAIN p : p[k].path \in Paths
  <2>1. Len(p) \in Nat /\ DOMAIN p = 1..Len(p) /\ \A k \in DOMAIN p : p[k] \in PatchLine
    <3> HIDE DEF PatchLine
    <3> QED OBVIOUS
  <2> QED BY <2>1
<1> HIDE DEF PatchLine
<1> QED BY <1>2, <1>3, <1>4

\* A line of the text is a file and a place in it, and the header is its first.
LEMMA Places ==
    ASSUME job \in ReviewJobs
    PROVE  /\ Pipeline!Text \subseteq Number
           /\ \A i \in Pipeline!Text :
                 /\ i[1] \in DOMAIN job.files
                 /\ i[2] \in 0..Len(job.files[i[1]].patch)
                 /\ \A k \in 0..i[2] : <<i[1], k>> \in Pipeline!Text
                 /\ Pipeline!LineAt(i).path \in Paths
           /\ \A n \in DOMAIN job.files : <<n, 0>> \in Heads
<1>1. \A i \in Pipeline!Text : \E n \in DOMAIN job.files :
         \E k \in 0..Len(job.files[n].patch) : i = <<n, k>>
  BY DEF Pipeline!Text, Pipeline!diffText
<1>2. \A n \in DOMAIN job.files : \A k \in 0..Len(job.files[n].patch) : <<n, k>> \in Pipeline!Text
  BY DEF Pipeline!Text, Pipeline!diffText
<1>3. Pipeline!Text \subseteq Number BY <1>1, JobFiles DEF Number
<1>4. ASSUME NEW i \in Pipeline!Text
      PROVE  /\ i[1] \in DOMAIN job.files
             /\ i[2] \in 0..Len(job.files[i[1]].patch)
             /\ \A k \in 0..i[2] : <<i[1], k>> \in Pipeline!Text
             /\ Pipeline!LineAt(i).path \in Paths
  <2>0. PICK n \in DOMAIN job.files : \E k \in 0..Len(job.files[n].patch) : i = <<n, k>> BY <1>1
  <2>1. PICK k \in 0..Len(job.files[n].patch) : i = <<n, k>> BY <2>0
  <2>2. \A m \in 0..k : m \in 0..Len(job.files[n].patch) BY JobFiles
  <2>3. k # 0 => k \in DOMAIN job.files[n].patch BY JobFiles
  <2>4. Pipeline!LineAt(i).path \in Paths
    BY <2>1, <2>3, JobFiles DEF Pipeline!LineAt, Pipeline!Line
  <2> QED BY <1>2, <2>1, <2>2, <2>4
<1>5. \A n \in DOMAIN job.files : <<n, 0>> \in Heads
  <2> SUFFICES ASSUME NEW n \in DOMAIN job.files PROVE <<n, 0>> \in Heads OBVIOUS
  <2>1. 0 \in 0..Len(job.files[n].patch) BY JobFiles
  <2>2. <<n, 0>> \in Pipeline!Text BY <1>2, <2>1
  <2> QED BY <2>2 DEF Heads, Pipeline!FILE_HEADER_LINE, Pipeline!LineAt, Pipeline!Line
<1> QED BY <1>3, <1>4, <1>5

\* The lines of a text are in one order.
LEMMA LinesOrdered ==
    ASSUME NEW i \in Number, NEW j \in Number
    PROVE  /\ Pipeline!Before(i, j) \/ Pipeline!Before(j, i) \/ i = j
           /\ ~(Pipeline!Before(i, j) /\ Pipeline!Before(j, i))
           /\ ~Pipeline!Before(i, i)
BY DEF Number, Pipeline!Before

\* Every line lies in a part: the one that the last head up to it opens.
LEMMA PartsCover ==
    ASSUME job \in ReviewJobs, NEW i \in Pipeline!Text
    PROVE  \E f \in Pipeline!Parsed : i \in Pipeline!LinesOf(f)
<1> DEFINE n == i[1]
           k == i[2]
           T == {d \in 0..k : <<n, k - d>> \in Heads}
<1>1. i = <<n, k>> /\ n \in Nat /\ k \in Nat /\ <<n, 0>> \in Heads
  BY Places DEF Number
<1>2. T \in SUBSET Nat /\ k \in T BY <1>1
<1>3. PICK d \in T : \A e \in T : d <= e
  <2> HIDE DEF T
  <2> QED BY <1>2, LeastNumber
<1>4. d \in 0..k /\ <<n, k - d>> \in Heads OBVIOUS
<1> DEFINE h == <<n, k - d>>
<1>5. CASE d = 0
  <2>1. i = h BY <1>1, <1>5
  <2>2. i \in Pipeline!LinesOf(Part(h)) BY <2>1 DEF Pipeline!LinesOf, Part
  <2> QED BY <1>4, <2>2, PartsParsed
<1>6. CASE d # 0
  <2>1. Pipeline!Before(h, i) BY <1>1, <1>4, <1>6 DEF Pipeline!Before
  <2>2. ASSUME NEW g \in Heads, Pipeline!Before(h, g) PROVE Pipeline!Before(i, g)
    <3>1. g \in Nat \X Nat BY Places DEF Heads, Number
    <3>2. PICK m \in Nat, l \in Nat : g = <<m, l>> BY <3>1
    <3>3. n < m \/ (n = m /\ k - d < l) BY <2>2, <3>2 DEF Pipeline!Before
    <3>4. ASSUME n = m, l <= k PROVE FALSE
      <4>1. k - l \in 0..k /\ k - (k - l) = l BY <1>1, <3>2, <3>4
      <4>2. k - l \in T BY <3>2, <3>4, <4>1
      <4>3. d <= k - l BY <1>3, <4>2
      <4> QED BY <1>1, <1>4, <3>2, <3>3, <3>4, <4>3
    <3> QED BY <1>1, <3>2, <3>3, <3>4 DEF Pipeline!Before
  <2>3. i \in Body(h) BY <2>1, <2>2 DEF Body
  <2>4. i \in Pipeline!LinesOf(Part(h)) BY <2>3 DEF Pipeline!LinesOf, Part
  <2> QED BY <1>4, <2>4, PartsParsed
<1> QED BY <1>5, <1>6

\* No line lies in two.
LEMMA PartsDisjoint ==
    ASSUME job \in ReviewJobs, NEW i \in Pipeline!Text,
           NEW f \in Pipeline!Parsed, NEW g \in Pipeline!Parsed,
           i \in Pipeline!LinesOf(f), i \in Pipeline!LinesOf(g)
    PROVE  f = g
<1>1. PICK h \in Heads : f = Part(h) BY PartsParsed
<1>2. PICK e \in Heads : g = Part(e) BY PartsParsed
<1>3. i \in Number /\ h \in Number /\ e \in Number BY Places DEF Heads
<1>4. ASSUME NEW a \in Heads, i \in Pipeline!LinesOf(Part(a))
      PROVE  i = a \/ (Pipeline!Before(a, i)
                         /\ \A b \in Heads : Pipeline!Before(a, b) => Pipeline!Before(i, b))
  BY <1>4 DEF Pipeline!LinesOf, Part, Body
<1>5. ASSUME NEW a \in Heads, NEW b \in Heads, a \in Number, b \in Number,
             i \in Pipeline!LinesOf(Part(a)), i \in Pipeline!LinesOf(Part(b)),
             Pipeline!Before(a, b)
      PROVE  FALSE
  <2>1. Pipeline!Before(i, b) BY <1>4, <1>5
  <2>2. i = b \/ Pipeline!Before(b, i) BY <1>4, <1>5
  <2> QED BY <1>3, <1>5, <2>1, <2>2, LinesOrdered
<1>6. h = e BY <1>1, <1>2, <1>3, <1>5, LinesOrdered
<1> QED BY <1>1, <1>2, <1>6

\* A file without header-like lines is one part, of its own name.
LEMMA PlainPart ==
    ASSUME job \in ReviewJobs, NEW i \in Pipeline!Text, Pipeline!Plain(Pipeline!Owner(i)),
           NEW f \in Pipeline!Parsed, i \in Pipeline!LinesOf(f)
    PROVE  f.path = Pipeline!Owner(i).path
<1> DEFINE n == i[1]
           top == <<n, 0>>
<1>1. PICK h \in Heads : f = Part(h) BY PartsParsed
<1>2. /\ i \in Number /\ h \in Number /\ h \in Pipeline!Text /\ n \in DOMAIN job.files
      /\ top \in Heads /\ top \in Number
  BY Places DEF Heads
<1>3. i = h \/ (Pipeline!Before(h, i)
                  /\ \A b \in Heads : Pipeline!Before(h, b) => Pipeline!Before(i, b))
  BY <1>1 DEF Pipeline!LinesOf, Part, Body
<1>4. h[1] = n => h = top
  <2> SUFFICES ASSUME h[1] = n, h[2] # 0 PROVE FALSE BY <1>2 DEF Number
  <2>1. h[2] \in DOMAIN job.files[n].patch BY <1>2, Places, JobFiles
  <2>2. ~Pipeline!FILE_HEADER_LINE(job.files[n].patch[h[2]])
    BY <2>1 DEF Pipeline!Plain, Pipeline!Owner
  <2>3. Pipeline!LineAt(h) = job.files[n].patch[h[2]] BY DEF Pipeline!LineAt
  <2> QED BY <2>2, <2>3 DEF Heads
<1>5. ~Pipeline!Before(i, top) BY <1>2 DEF Pipeline!Before, Number
<1>6. ~Pipeline!Before(h, top) BY <1>2, <1>3, <1>5, LinesOrdered
<1>7. h[1] = n
  BY <1>2, <1>3, <1>6 DEF Pipeline!Before, Number
<1>8. f.path = Pipeline!LineAt(top).path BY <1>1, <1>4, <1>7 DEF Part
<1> QED BY <1>8 DEF Pipeline!LineAt, Pipeline!Line, Pipeline!Owner
\* Both modules count alike.
LEMMA CountedAlike == ASSUME NEW S PROVE Pipeline!Cardinality(S) = Cardinality(S)
BY DEF Pipeline!Cardinality, Cardinality

-----------------------------------------------------------------------------
(* What the variables of a review hold.                                    *)
Points == {"skills", "history", "diff", "fetch", "model", "retry", "record", "done", "failed"}
Companion == (Paths \cup {"dir"}) \X {"test", "type", "index"}
Fetching ==
    [queue : SUBSET (Pipeline!Text \X (1..3)),
     files : Seq([path : Companion, size : Nat, of : Nat]),
     seen : SUBSET Companion, total : 0..MaxTotalBytes, hit : BOOLEAN]

\* The model is called at most twice, and its calls are counted from nothing.
Calls == [attempt : 0..2, steps : Nat, counter : Nat, sdk : Nat, asked : Nat, paid : Nat]
RunInv ==
    /\ run \in Calls
    /\ run.counter <= run.asked /\ run.sdk <= run.asked
    /\ run.paid = run.attempt
    /\ run.attempt = 0 => run.asked = 0
    /\ at \in {"skills", "history", "diff", "fetch"} => run.attempt = 0
    /\ at = "retry" => run.attempt = 1
    /\ at = "model" => run.attempt # 0

\* Unless the budget is hit, a companion of a file that no filter matches is
\* still to come or was tried.
Awaited ==
    \A n \in DOMAIN job.files :
       job.files[n].path \in job.autoFetch \ job.filters =>
          \A c \in 1..3 : \/ <<<<n, 0>>, c>> \in fetch.queue
                         \/ Pipeline!candidatesFor(job.files[n].path)[c] \in fetch.seen
Whole == \A n \in DOMAIN fetch.files : fetch.files[n].size = fetch.files[n].of
FetchInv ==
    /\ fetch \in Fetching
    /\ Len(fetch.files) <= MaxFetchFiles
    /\ at \in {"skills", "history", "diff"} => fetch.files = <<>>
    /\ at # "fetch" => fetch.queue = {}
    /\ ~fetch.hit => Whole
    /\ ~fetch.hit /\ (at = "fetch" \/ run.attempt # 0) => Awaited

\* What is sent and what is named as excluded, and what the work amounts to.
ResultInv ==
    at \in {"record", "done"} =>
        /\ result.kind \in {"capped", "aborted", "reviewed"}
        /\ result.sent = IF result.kind = "capped" THEN {}
                         ELSE Pipeline!reassembleDiff(Pipeline!Kept)
        /\ result.excluded = IF result.kind = "capped" THEN Pipeline!PathsOf(Pipeline!Parsed)
                             ELSE Pipeline!pathFilterExclusions
        /\ result.kind = "capped" => run.attempt = 0 /\ fetch.files = <<>>
        /\ result.kind = "aborted" => run.attempt = 2
        /\ result.kind = "reviewed" => run.attempt # 0
        /\ result.cost = IF result.kind = "reviewed" THEN 1 ELSE 0
        /\ result.toolCalls \in run.counter..run.asked
        /\ Pipeline!CommentsExplained

PipelineInv ==
    /\ job \in ReviewJobs /\ at \in Points
    /\ RunInv /\ FetchInv /\ Pipeline!SearchExplained /\ ResultInv

\* A candidate is a companion.
LEMMA CandidateType ==
    ASSUME NEW p \in Paths, NEW c \in 1..3 PROVE Pipeline!candidatesFor(p)[c] \in Companion
<1>1. c = 1 \/ c = 2 \/ c = 3 OBVIOUS
<1> QED BY <1>1 DEF Pipeline!candidatesFor, Companion

\* What is computed from the job stays with it.
LEMMA DiffKept ==
    ASSUME job' = job
    PROVE  /\ Pipeline!Text' = Pipeline!Text /\ Pipeline!Parsed' = Pipeline!Parsed
           /\ Pipeline!Kept' = Pipeline!Kept
           /\ Pipeline!pathFilterExclusions' = Pipeline!pathFilterExclusions
<1>1. Pipeline!Text' = Pipeline!Text BY DEF Pipeline!Text
<1>2. \A i : Pipeline!LineAt(i)' = Pipeline!LineAt(i) BY DEF Pipeline!LineAt
<1>3. Pipeline!Parsed' = Pipeline!Parsed
  BY <1>1, <1>2 DEF Pipeline!Parsed, Pipeline!parseDiffByFile
<1>4. Pipeline!Kept' = Pipeline!Kept BY <1>3 DEF Pipeline!Kept
<1> QED BY <1>1, <1>3, <1>4 DEF Pipeline!pathFilterExclusions

\* A step that keeps or clears the answer of the last tool keeps it explained.
LEMMA SearchKept ==
    ASSUME Pipeline!SearchExplained, answer' = answer \/ answer' = Pipeline!NoAnswer
    PROVE  Pipeline!SearchExplained'
BY DEF Pipeline!SearchExplained, Pipeline!NoAnswer

\* A step that leaves the companions alone and does not enter or leave their
\* part.
LEMMA FetchKept ==
    ASSUME FetchInv, UNCHANGED <<job, fetch>>, at' # "fetch", fetch.queue = {},
           at' \in {"skills", "history", "diff"} => at \in {"skills", "history", "diff"},
           run'.attempt # 0 => at = "fetch" \/ run.attempt # 0
    PROVE  FetchInv'
<1>1. Pipeline!Text' = Pipeline!Text BY DiffKept
<1>2. Fetching' = Fetching BY <1>1 DEF Fetching
<1>3. Whole' = Whole BY DEF Whole
<1>4. Awaited' = Awaited BY DEF Awaited
<1> QED BY <1>2, <1>3, <1>4 DEF FetchInv

\* Before it starts a review has called and read nothing.
LEMMA ReviewStarts == ASSUME Pipeline!Init PROVE PipelineInv
<1>1. /\ job \in ReviewJobs /\ at = "skills"
      /\ fetch = [queue |-> {}, files |-> <<>>, seen |-> {}, total |-> 0, hit |-> FALSE]
      /\ run = [attempt |-> 0, steps |-> 0, counter |-> 0, sdk |-> 0, asked |-> 0, paid |-> 0]
      /\ answer = [tool |-> "none"]
  BY DEF Pipeline!Init, Pipeline!NoAnswer
<1>2. RunInv BY <1>1 DEF RunInv, Calls
<1>3. FetchInv
  <2>1. 0 \in 0..MaxTotalBytes /\ 0 <= MaxFetchFiles BY PipelineAssumption
  <2>2. fetch \in Fetching BY <1>1, <2>1 DEF Fetching
  <2>3. Len(fetch.files) = 0 /\ DOMAIN fetch.files = {} BY <1>1
  <2> QED BY <1>1, <2>1, <2>2, <2>3, <1>2 DEF FetchInv, Whole
<1> QED BY <1>1, <1>2, <1>3 DEF PipelineInv, Points, Pipeline!SearchExplained, ResultInv

\* Loading the skills and the history, or failing to.
LEMMA SkillsStep ==
    ASSUME PipelineInv, Pipeline!loadSkills \/ Pipeline!historyReader PROVE PipelineInv'
<1>1. /\ at \in {"skills", "history"} /\ at' \in {"history", "diff", "failed"}
      /\ UNCHANGED <<job, fetch, run, answer, result>>
  BY DEF Pipeline!loadSkills, Pipeline!historyReader
<1>2. FetchInv' BY <1>1, FetchKept DEF PipelineInv, FetchInv
<1>3. RunInv' BY <1>1 DEF PipelineInv, RunInv
<1>4. Pipeline!SearchExplained' BY <1>1, SearchKept DEF PipelineInv
<1> QED BY <1>1, <1>2, <1>3, <1>4 DEF PipelineInv, Points, ResultInv

\* A review over its caps names every part and has called nothing.
LEMMA CapStep == ASSUME PipelineInv, Pipeline!buildCapSkipResult PROVE PipelineInv'
<1>1. /\ at = "diff" /\ at' = "record" /\ UNCHANGED <<job, fetch, run, answer>>
      /\ result' = [kind |-> "capped",
                    excluded |-> Pipeline!exclusionReport(Pipeline!CapsExceeded), sent |-> {},
                    toolCalls |-> 0, cost |-> 0, posted |-> {}, dropped |-> Pipeline!NoneDropped,
                    event |-> "COMMENT"]
      /\ Pipeline!CapsExceeded # {}
  BY DEF Pipeline!buildCapSkipResult
<1>2. FetchInv' BY <1>1, FetchKept DEF PipelineInv, FetchInv, RunInv
<1>3. RunInv' BY <1>1 DEF PipelineInv, RunInv
<1>4. Pipeline!SearchExplained' BY <1>1, SearchKept DEF PipelineInv
<1>5. Pipeline!exclusionReport(Pipeline!CapsExceeded) = Pipeline!PathsOf(Pipeline!Parsed)
  <2>1. Pipeline!PathsOf(Pipeline!Kept) \subseteq Pipeline!PathsOf(Pipeline!Parsed)
    BY DEF Pipeline!PathsOf, Pipeline!Kept, Pipeline!applyPathFilters
  <2> QED BY <1>1, <2>1 DEF Pipeline!exclusionReport, Pipeline!pathFilterExclusions
<1>6. Pipeline!CommentsExplained' BY <1>1 DEF Pipeline!CommentsExplained
<1>7. run'.attempt = 0 /\ run'.counter = 0 /\ run'.asked = 0 /\ fetch'.files = <<>>
  BY <1>1 DEF PipelineInv, RunInv, FetchInv, Calls
<1>8. ResultInv' BY <1>1, <1>5, <1>6, <1>7, DiffKept DEF ResultInv
<1> QED BY <1>1, <1>2, <1>3, <1>4, <1>8 DEF PipelineInv, Points

\* The companions of every file that no filter matches are queued.
LEMMA EnterStep == ASSUME PipelineInv, Pipeline!EnterFetch PROVE PipelineInv'
<1> DEFINE changed == IF Pipeline!Kept = Pipeline!Parsed THEN {<<n, 0>> : n \in DOMAIN job.files}
                      ELSE {f.head : f \in Pipeline!Kept}
           matched == {h \in changed : Pipeline!LineAt(h).path \in job.autoFetch}
<1>1. /\ at = "diff" /\ at' = "fetch" /\ UNCHANGED <<job, run, answer, result>>
      /\ fetch' = [fetch EXCEPT !.queue = matched \X (1..3)]
  BY DEF Pipeline!EnterFetch
<1>2. job \in ReviewJobs /\ fetch \in Fetching BY DEF PipelineInv, FetchInv
<1>3. \A n \in DOMAIN job.files :
        <<n, 0>> \in Heads /\ Pipeline!LineAt(<<n, 0>>).path = job.files[n].path
  BY <1>2, Places DEF Pipeline!LineAt, Pipeline!Line
<1>4. matched \subseteq Pipeline!Text
  <2>1. \A f \in Pipeline!Kept : \E h \in Heads : f = Part(h)
    BY PartsParsed DEF Pipeline!Kept, Pipeline!applyPathFilters
  <2>2. \A f \in Pipeline!Kept : f.head \in Heads BY <2>1 DEF Part
  <2> QED BY <1>3, <2>2 DEF Heads
<1>5. ASSUME NEW n \in DOMAIN job.files, job.files[n].path \in job.autoFetch \ job.filters
      PROVE  <<n, 0>> \in matched
  <2>1. Part(<<n, 0>>) \in Pipeline!Parsed BY <1>3, PartsParsed
  <2>2. Part(<<n, 0>>).path = job.files[n].path /\ Part(<<n, 0>>).head = <<n, 0>>
    BY <1>3 DEF Part
  <2>3. Part(<<n, 0>>) \in Pipeline!Kept
    BY <1>5, <2>1, <2>2 DEF Pipeline!Kept, Pipeline!applyPathFilters
  <2>4. <<n, 0>> \in changed BY <2>2, <2>3
  <2> QED BY <1>3, <1>5, <2>4
<1> HIDE DEF matched
<1>6. fetch' \in Fetching /\ fetch'.queue = matched \X (1..3)
      /\ fetch'.files = fetch.files /\ fetch'.hit = fetch.hit
  BY <1>1, <1>2, <1>4 DEF Fetching
<1>7. Fetching' = Fetching BY <1>1, DiffKept DEF Fetching
<1>8. Awaited' BY <1>1, <1>5, <1>6 DEF Awaited
<1>9. Whole' <=> Whole BY <1>6 DEF Whole
<1>10. FetchInv' BY <1>1, <1>6, <1>7, <1>8, <1>9 DEF PipelineInv, FetchInv
<1>11. RunInv' BY <1>1 DEF PipelineInv, RunInv
<1>12. Pipeline!SearchExplained' BY <1>1, SearchKept DEF PipelineInv
<1> QED BY <1>1, <1>10, <1>11, <1>12 DEF PipelineInv, Points, ResultInv

\* A file that is read fits what is left of the total, or is cut to it and
\* noted.
LEMMA ReadFits ==
    ASSUME job \in ReviewJobs, fetch \in Fetching, NEW p \in Companion,
           NEW left \in SUBSET (Pipeline!Text \X (1..3)), Pipeline!tryReadFile(p, left)
    PROVE  /\ fetch' \in Fetching
           /\ fetch'.seen = fetch.seen \cup {p}
           /\ fetch.hit => fetch'.hit
           /\ Len(fetch'.files) <= Len(fetch.files) + 1
           /\ ~fetch'.hit => fetch'.queue = left /\ (Whole => Whole')
<1>1. CASE fetch' = [fetch EXCEPT !.queue = left, !.seen = @ \cup {p}]
  <2>1. /\ fetch' \in Fetching /\ fetch'.files = fetch.files /\ fetch'.hit = fetch.hit
        /\ fetch'.seen = fetch.seen \cup {p} /\ fetch'.queue = left
    BY <1>1 DEF Fetching
  <2>2. Whole => Whole' BY <2>1 DEF Whole
  <2>3. Len(fetch.files) \in Nat BY DEF Fetching
  <2> QED BY <2>1, <2>2, <2>3
<1>2. CASE \E n \in FileSizes :
        LET size      == Pipeline!Cut(n)
            remaining == MaxTotalBytes - fetch.total
            trimmed   == IF size > remaining THEN remaining ELSE size
        IN  fetch' = [queue |-> IF trimmed < size THEN {} ELSE left,
                      files |-> Append(fetch.files, [path |-> p, size |-> trimmed, of |-> size]),
                      seen  |-> fetch.seen \cup {p},
                      total |-> fetch.total + trimmed,
                      hit   |-> fetch.hit \/ trimmed < size]
  <2>1. PICK n \in FileSizes :
        LET size      == Pipeline!Cut(n)
            remaining == MaxTotalBytes - fetch.total
            trimmed   == IF size > remaining THEN remaining ELSE size
        IN  fetch' = [queue |-> IF trimmed < size THEN {} ELSE left,
                      files |-> Append(fetch.files, [path |-> p, size |-> trimmed, of |-> size]),
                      seen  |-> fetch.seen \cup {p},
                      total |-> fetch.total + trimmed,
                      hit   |-> fetch.hit \/ trimmed < size]
    BY <1>2
  <2> DEFINE size == Pipeline!Cut(n)
             remaining == MaxTotalBytes - fetch.total
             trimmed == IF size > remaining THEN remaining ELSE size
             File == [path : Companion, size : Nat, of : Nat]
             file == [path |-> p, size |-> trimmed, of |-> size]
  <2>2. fetch' = [queue |-> IF trimmed < size THEN {} ELSE left,
                  files |-> Append(fetch.files, file), seen |-> fetch.seen \cup {p},
                  total |-> fetch.total + trimmed, hit |-> fetch.hit \/ trimmed < size]
    BY <2>1
  <2>3. size \in Nat BY PipelineAssumption DEF Pipeline!Cut
  <2>4. MaxTotalBytes \in Nat /\ fetch.total \in 0..MaxTotalBytes
    BY PipelineAssumption DEF Fetching
  <2>5. trimmed \in Nat /\ fetch.total + trimmed \in 0..MaxTotalBytes
        /\ (trimmed < size \/ trimmed = size)
    <3> HIDE DEF size
    <3> QED BY <2>3, <2>4
  <2> HIDE DEF size, trimmed
  <2>6. file \in File /\ file.size = trimmed /\ file.of = size BY <2>3, <2>5
  <2>7. fetch.files \in Seq(File) BY DEF Fetching
  <2> HIDE DEF file, File
  <2>8. /\ Append(fetch.files, file) \in Seq(File)
        /\ Len(Append(fetch.files, file)) = Len(fetch.files) + 1
        /\ DOMAIN fetch.files = 1..Len(fetch.files) /\ Len(fetch.files) \in Nat
        /\ \A k \in 1..Len(fetch.files) : Append(fetch.files, file)[k] = fetch.files[k]
        /\ Append(fetch.files, file)[Len(fetch.files) + 1] = file
    BY <2>6, <2>7
  <2>9. ASSUME Whole, trimmed = size PROVE Whole'
    <3>1. fetch'.files = Append(fetch.files, file) BY <2>2
    <3>2. DOMAIN fetch'.files = 1..(Len(fetch.files) + 1) BY <2>8, <3>1
    <3>3. \A k \in 1..(Len(fetch.files) + 1) :
            k \in 1..Len(fetch.files) \/ k = Len(fetch.files) + 1
      BY <2>8
    <3> QED BY <2>6, <2>8, <2>9, <3>1, <3>2, <3>3 DEF Whole
  <2>10. fetch.hit \in BOOLEAN /\ fetch.seen \in SUBSET Companion BY DEF Fetching
  <2>11. fetch' \in Fetching BY <2>2, <2>5, <2>8, <2>10 DEF Fetching, File
  <2>12. /\ fetch'.queue = IF trimmed < size THEN {} ELSE left
         /\ fetch'.files = Append(fetch.files, file) /\ fetch'.seen = fetch.seen \cup {p}
         /\ fetch'.hit = (fetch.hit \/ trimmed < size)
    BY <2>2
  <2>13. Len(fetch'.files) <= Len(fetch.files) + 1 BY <2>8, <2>12
  <2>14. ~fetch'.hit => ~(trimmed < size) BY <2>12
  <2>15. fetch.hit => fetch'.hit BY <2>12
  <2> QED BY <2>5, <2>9, <2>11, <2>12, <2>13, <2>14, <2>15
<1> QED BY <1>1, <1>2 DEF Pipeline!tryReadFile

\* One round: the candidate leaves the queue tried, or the budget is hit.
LEMMA CompanionStep == ASSUME PipelineInv, Pipeline!collectAutoFetchContext PROVE PipelineInv'
<1>1. PICK q \in fetch.queue :
        LET path == Pipeline!candidatesFor(Pipeline!LineAt(q[1]).path)[q[2]]
            left == fetch.queue \ {q}
        IN  IF path \in fetch.seen THEN fetch' = [fetch EXCEPT !.queue = left]
            ELSE IF Len(fetch.files) >= MaxFetchFiles \/ fetch.total >= MaxTotalBytes
            THEN fetch' = [fetch EXCEPT !.queue = {}, !.hit = TRUE]
            ELSE Pipeline!tryReadFile(path, left)
  BY DEF Pipeline!collectAutoFetchContext
<1> DEFINE path == Pipeline!candidatesFor(Pipeline!LineAt(q[1]).path)[q[2]]
           left == fetch.queue \ {q}
<1>2. /\ at = "fetch" /\ at' = "fetch" /\ UNCHANGED <<job, run, answer, result>>
      /\ job \in ReviewJobs /\ fetch \in Fetching
  BY DEF Pipeline!collectAutoFetchContext, PipelineInv, FetchInv
<1>3. fetch.queue \subseteq Pipeline!Text \X (1..3) BY <1>2 DEF Fetching
<1>4. left \in SUBSET (Pipeline!Text \X (1..3)) BY <1>3
<1>5. path \in Companion
  <2>1. q[1] \in Pipeline!Text /\ q[2] \in 1..3 BY <1>3
  <2>2. Pipeline!LineAt(q[1]).path \in Paths BY <1>2, <2>1, Places
  <2> QED BY <2>1, <2>2, CandidateType
<1>6. \/ path \in fetch.seen /\ fetch' = [fetch EXCEPT !.queue = left]
      \/ fetch' = [fetch EXCEPT !.queue = {}, !.hit = TRUE]
      \/ ~(Len(fetch.files) >= MaxFetchFiles) /\ Pipeline!tryReadFile(path, left)
  BY <1>1
<1>7. ASSUME NEW n \in DOMAIN job.files, NEW c \in 1..3, <<<<n, 0>>, c>> = q
      PROVE  path = Pipeline!candidatesFor(job.files[n].path)[c]
  BY <1>7 DEF Pipeline!LineAt, Pipeline!Line
<1> HIDE DEF path, left
<1>8. /\ fetch' \in Fetching /\ Len(fetch'.files) <= MaxFetchFiles
      /\ ~fetch'.hit => /\ ~fetch.hit /\ fetch'.queue = left /\ (Whole => Whole')
                       /\ fetch'.seen = fetch.seen \cup {path}
  <2>1. Len(fetch.files) \in Nat /\ MaxFetchFiles \in Nat /\ Len(fetch.files) <= MaxFetchFiles
    BY <1>2, PipelineAssumption DEF Fetching, PipelineInv, FetchInv
  <2>2. CASE path \in fetch.seen /\ fetch' = [fetch EXCEPT !.queue = left]
    <3>1. /\ fetch' \in Fetching /\ fetch'.files = fetch.files /\ fetch'.hit = fetch.hit
          /\ fetch'.queue = left /\ fetch'.seen = fetch.seen
      BY <1>2, <1>4, <2>2 DEF Fetching
    <3>2. Whole => Whole' BY <3>1 DEF Whole
    <3> QED BY <2>1, <2>2, <3>1, <3>2
  <2>3. CASE fetch' = [fetch EXCEPT !.queue = {}, !.hit = TRUE]
    BY <1>2, <2>1, <2>3 DEF Fetching
  <2>4. CASE ~(Len(fetch.files) >= MaxFetchFiles) /\ Pipeline!tryReadFile(path, left)
    <3>1. Len(fetch.files) + 1 <= MaxFetchFiles BY <2>1, <2>4
    <3>2. Len(fetch'.files) <= Len(fetch.files) + 1 /\ fetch' \in Fetching
      BY <1>2, <1>4, <1>5, <2>4, ReadFits
    <3>3. Len(fetch'.files) \in Nat BY <3>2 DEF Fetching
    <3>4. Len(fetch'.files) <= MaxFetchFiles BY <2>1, <3>1, <3>2, <3>3
    <3>5. ~fetch'.hit => /\ ~fetch.hit /\ fetch'.queue = left /\ (Whole => Whole')
                        /\ fetch'.seen = fetch.seen \cup {path}
      BY <1>2, <1>4, <1>5, <2>4, ReadFits
    <3> QED BY <3>2, <3>4, <3>5
  <2> QED BY <1>6, <2>2, <2>3, <2>4
<1>9. ASSUME ~fetch'.hit, Awaited PROVE Awaited'
  <2> SUFFICES ASSUME NEW n \in DOMAIN job.files, NEW c \in 1..3,
                      job.files[n].path \in job.autoFetch \ job.filters
               PROVE  \/ <<<<n, 0>>, c>> \in fetch'.queue
                      \/ Pipeline!candidatesFor(job.files[n].path)[c] \in fetch'.seen
    BY <1>2 DEF Awaited, Pipeline!candidatesFor
  <2>1. fetch'.queue = fetch.queue \ {q} /\ fetch'.seen = fetch.seen \cup {path}
    BY <1>8, <1>9 DEF left
  <2>2. \/ <<<<n, 0>>, c>> \in fetch.queue
        \/ Pipeline!candidatesFor(job.files[n].path)[c] \in fetch.seen
    BY <1>9 DEF Awaited
  <2> QED BY <1>7, <2>1, <2>2
<1>10. Fetching' = Fetching BY <1>2, DiffKept DEF Fetching
<1>11. FetchInv' BY <1>2, <1>8, <1>9, <1>10 DEF PipelineInv, FetchInv
<1>12. RunInv' BY <1>2 DEF PipelineInv, RunInv
<1>13. Pipeline!SearchExplained' BY <1>2, SearchKept DEF PipelineInv
<1> QED BY <1>2, <1>11, <1>12, <1>13 DEF PipelineInv, Points, ResultInv

\* A call of the model; its steps and the provider's calls are counted afresh.
LEMMA CallModelStep == ASSUME PipelineInv, Pipeline!generateReview PROVE PipelineInv'
<1>1. /\ at' = "model" /\ UNCHANGED <<job, fetch, result>> /\ answer' = Pipeline!NoAnswer
      /\ (at = "fetch" /\ fetch.queue = {}) \/ at = "retry"
      /\ run' = [run EXCEPT !.attempt = @ + 1, !.steps = 0, !.sdk = 0, !.paid = @ + 1]
  BY DEF Pipeline!generateReview
<1>2. run \in Calls /\ run.attempt \in 0..1 BY <1>1 DEF PipelineInv, RunInv
<1>3. RunInv'
  <2>1. run' = [attempt |-> run.attempt + 1, steps |-> 0, counter |-> run.counter, sdk |-> 0,
                asked |-> run.asked, paid |-> run.paid + 1]
    BY <1>1, <1>2 DEF Calls
  <2>3. run.attempt + 1 \in 0..2 BY <1>2
  <2>4. run' \in Calls BY <1>2, <2>1, <2>3 DEF Calls
  <2>2. run.asked \in Nat /\ run.counter <= run.asked /\ run.paid = run.attempt
    BY DEF PipelineInv, RunInv, Calls
  <2> QED BY <1>1, <1>2, <2>1, <2>2, <2>4 DEF RunInv
<1>4. FetchInv'
  <2>1. at = "fetch" \/ run.attempt # 0 BY <1>1 DEF PipelineInv, RunInv
  <2>2. fetch.queue = {} BY <1>1 DEF PipelineInv, FetchInv
  <2> QED BY <1>1, <2>1, <2>2, FetchKept DEF PipelineInv
<1>5. Pipeline!SearchExplained' BY <1>1, SearchKept DEF PipelineInv
<1> QED BY <1>1, <1>3, <1>4, <1>5 DEF PipelineInv, Points, ResultInv

\* A search passes over what vanished or is denied and over nothing else,
\* unless it fails or marks it.
LEMMA GrepLooks ==
    ASSUME NEW t \in Pipeline!Trees, ~Pipeline!grepInDir(t).failed,
           "marker" \notin Pipeline!grepInDir(t).out
    PROVE  /\ t.g = "match" => "g" \in Pipeline!grepInDir(t).out
           /\ t.f = "match" /\ t.d # "ENOENT" => "f" \in Pipeline!grepInDir(t).out
<1>1. t["d"] # "EIO" /\ t["d"] # "EACCES" BY DEF Pipeline!grepInDir
<1>2. t.d \in {"ok", "ENOENT"} BY <1>1 DEF Pipeline!Trees
<1>3. ASSUME NEW x \in Pipeline!Reached(t), t[x] = "match" PROVE x \in Pipeline!grepInDir(t).out
  BY <1>3 DEF Pipeline!grepInDir
<1>4. "g" \in Pipeline!Reached(t) BY DEF Pipeline!Reached
<1>5. t.d = "ok" => "f" \in Pipeline!Reached(t) BY DEF Pipeline!Reached
<1> QED BY <1>2, <1>3, <1>4, <1>5

\* A step of the agent: the counters go up together.
LEMMA ToolStep == ASSUME PipelineInv, Pipeline!createAiSdkToolset PROVE PipelineInv'
<1>1. PICK ok \in 0..MaxCalls, bad \in 0..MaxCalls :
        /\ run' = [run EXCEPT !.steps = @ + 1, !.counter = @ + ok, !.sdk = @ + ok + bad,
                              !.asked = @ + ok + bad]
        /\ answer' \in IF ok = 0 THEN {Pipeline!NoAnswer}
                       ELSE {Pipeline!grepInDir(job.tree), Pipeline!walk(job.tree),
                             Pipeline!read_file(job.tree)}
  BY DEF Pipeline!createAiSdkToolset
<1>2. at = "model" /\ UNCHANGED <<job, at, fetch, result>> BY DEF Pipeline!createAiSdkToolset
<1>3. RunInv'
  <2>1. ok \in Nat /\ bad \in Nat BY PipelineAssumption
  <2>2. run \in Calls BY DEF PipelineInv, RunInv
  <2>3. /\ run'.counter = run.counter + ok /\ run'.sdk = run.sdk + ok + bad
        /\ run'.asked = run.asked + ok + bad
        /\ run'.attempt = run.attempt /\ run'.paid = run.paid
    BY <1>1, <2>2 DEF Calls
  <2>4. run' = [attempt |-> run.attempt, steps |-> run.steps + 1, counter |-> run.counter + ok,
                sdk |-> run.sdk + ok + bad, asked |-> run.asked + ok + bad, paid |-> run.paid]
    BY <1>1, <2>2 DEF Calls
  <2>5. run' \in Calls BY <2>1, <2>2, <2>4 DEF Calls
  <2>6. /\ run.counter \in Nat /\ run.sdk \in Nat /\ run.asked \in Nat
        /\ run.counter <= run.asked /\ run.sdk <= run.asked /\ run.paid = run.attempt
        /\ run.attempt # 0
    BY <1>2 DEF PipelineInv, RunInv, Calls
  <2> QED BY <1>2, <2>1, <2>3, <2>5, <2>6 DEF RunInv
<1>4. FetchInv'
  BY <1>1, <1>2, FetchKept DEF PipelineInv, FetchInv, RunInv
<1>5. Pipeline!SearchExplained'
  <2>1. job.tree \in Pipeline!Trees BY PipelineAssumption DEF PipelineInv, Pipeline!IsReviewJob
  <2>2. CASE answer'.tool # "grep" BY <2>2 DEF Pipeline!SearchExplained
  <2>3. CASE answer'.tool = "grep"
    <3>1. answer' = Pipeline!grepInDir(job.tree)
      BY <1>1, <2>3 DEF Pipeline!NoAnswer, Pipeline!walk, Pipeline!read_file
    <3>2. answer'.tree = job.tree BY <3>1 DEF Pipeline!grepInDir
    <3> QED BY <2>1, <3>1, <3>2, GrepLooks DEF Pipeline!SearchExplained
  <2> QED BY <2>2, <2>3
<1> QED BY <1>2, <1>3, <1>4, <1>5 DEF PipelineInv, ResultInv

\* A rejected answer is asked for once more, then the review is given up.
LEMMA RejectStep == ASSUME PipelineInv, Pipeline!validateOutput PROVE PipelineInv'
<1>1. /\ at = "model" /\ UNCHANGED <<job, fetch, run>> /\ answer' = Pipeline!NoAnswer
      /\ IF run.attempt = 1 THEN at' = "retry" /\ UNCHANGED result ELSE Pipeline!Aborted
  BY DEF Pipeline!validateOutput
<1>2. at' \in {"retry", "record"} BY <1>1 DEF Pipeline!Aborted
<1>3. RunInv' BY <1>1 DEF PipelineInv, RunInv, Pipeline!Aborted
<1>4. FetchInv' BY <1>1, <1>2, FetchKept DEF PipelineInv, FetchInv
<1>5. Pipeline!SearchExplained' BY <1>1, SearchKept DEF PipelineInv
<1>6. ASSUME at' = "record" PROVE ResultInv'
  <2>1. result' = [kind |-> "aborted", excluded |-> Pipeline!exclusionReport({}),
                   sent |-> Pipeline!reassembleDiff(Pipeline!Kept),
                   toolCalls |-> run.counter, cost |-> 0, posted |-> {},
                   dropped |-> Pipeline!NoneDropped, event |-> "COMMENT"]
    BY <1>1, <1>6 DEF Pipeline!Aborted
  <2>2. run.attempt = 2 /\ run.counter \in run.counter..run.asked
    BY <1>1, <1>6 DEF PipelineInv, RunInv, Calls
  <2>3. Pipeline!exclusionReport({}) = Pipeline!pathFilterExclusions
    BY DEF Pipeline!exclusionReport
  <2>4. Pipeline!CommentsExplained' BY <2>1 DEF Pipeline!CommentsExplained
  <2>5. Pipeline!reassembleDiff(Pipeline!Kept)' = Pipeline!reassembleDiff(Pipeline!Kept)
    BY <1>1, DiffKept DEF Pipeline!reassembleDiff
  <2> QED BY <1>1, <2>1, <2>2, <2>3, <2>4, <2>5, DiffKept DEF ResultInv
<1> QED BY <1>1, <1>2, <1>3, <1>4, <1>5, <1>6 DEF PipelineInv, Points, ResultInv

\* The two parts of a finite set.
LEMMA TwoParts ==
    ASSUME NEW S, NEW T, T \subseteq S, IsFiniteSet(S)
    PROVE  /\ Cardinality(S) = Cardinality(T) + Cardinality(S \ T)
           /\ Cardinality(T) \in Nat /\ Cardinality(S \ T) \in Nat
<1>1. IsFiniteSet(T) /\ IsFiniteSet(S \ T) BY FS_Subset
<1>2. T \cup (S \ T) = S /\ T \cap (S \ T) = {} OBVIOUS
<1>3. Cardinality(S) = Cardinality(T) + Cardinality(S \ T) - Cardinality({})
  BY <1>1, <1>2, FS_Union
<1> QED BY <1>1, <1>3, FS_EmptySet, FS_CardinalityType

\* What the floor and the ruleset leave is what lies below neither.
LEMMA PolicyExplained ==
    ASSUME job \in ReviewJobs, NEW n \in DOMAIN job.returned
    PROVE  LET c == job.returned[n]
           IN  /\ Pipeline!meetsConfidence(c, job.minConfidence) <=> ~Pipeline!Below(c)
               /\ Pipeline!applyRulesetFilter(c) <=> ~Pipeline!RuledOut(c)
<1> DEFINE Severities == {"critical", "major", "minor", "info"}
           Confidences == {"high", "medium", "low"}
           c == job.returned[n]
           cat == Pipeline!CategoryOf(c)
           entry == Pipeline!Ruleset(cat)
<1>1. /\ c.severity \in Severities /\ c.confidence \in Confidences \cup {"unset"}
      /\ cat \in DOMAIN job.ruleset => job.ruleset[cat] \in [enabled : BOOLEAN, min : Severities]
      /\ job.minConfidence \in Confidences
  BY PipelineAssumption DEF Pipeline!IsReviewJob, Pipeline!SEVERITY_RANK, Pipeline!CONFIDENCES
<1> HIDE DEF c, cat
<1>2. Pipeline!meetsConfidence(c, job.minConfidence) <=> ~Pipeline!Below(c)
  BY <1>1 DEF Pipeline!meetsConfidence, Pipeline!CONFIDENCES, Pipeline!LessConfident,
              Pipeline!Below
<1>3. ASSUME NEW a \in Severities, NEW b \in Severities
      PROVE  Pipeline!SEVERITY_RANK[a] >= Pipeline!SEVERITY_RANK[b]
               <=> a \notin Pipeline!LessSevere[b]
  BY DEF Pipeline!SEVERITY_RANK, Pipeline!LessSevere
<1>4. Pipeline!applyRulesetFilter(c) <=>
        entry.enabled /\ Pipeline!SEVERITY_RANK[c.severity] >= Pipeline!SEVERITY_RANK[entry.min]
  BY DEF Pipeline!applyRulesetFilter, cat
<1>5. Pipeline!RuledOut(c) <=>
        cat \in DOMAIN job.ruleset
          /\ (job.ruleset[cat].enabled => c.severity \in Pipeline!LessSevere[job.ruleset[cat].min])
  BY DEF Pipeline!RuledOut, cat
<1>6. CASE cat \notin DOMAIN job.ruleset
  <2>1. entry = [enabled |-> TRUE, min |-> "info"] BY <1>6 DEF Pipeline!Ruleset
  <2>2. entry.enabled /\ entry.min = "info" BY <2>1
  <2>3. c.severity \notin Pipeline!LessSevere["info"] BY DEF Pipeline!LessSevere
  <2> QED BY <1>1, <1>2, <1>3, <1>4, <1>5, <1>6, <2>2, <2>3 DEF c
<1>7. CASE cat \in DOMAIN job.ruleset
  <2>1. entry = job.ruleset[cat] BY <1>7 DEF Pipeline!Ruleset
  <2>2. entry.min \in Severities BY <1>1, <1>7, <2>1
  <2> HIDE DEF entry
  <2>3. Pipeline!applyRulesetFilter(c) <=>
          entry.enabled /\ c.severity \notin Pipeline!LessSevere[entry.min]
    BY <1>1, <1>3, <1>4, <2>2
  <2> QED BY <1>2, <1>5, <1>7, <2>1, <2>3 DEF c
<1> QED BY <1>6, <1>7

\* A first mention, in terms of the numbers of the comments.
LEMMA FreshExplained ==
    ASSUME NEW n \in DOMAIN job.returned
    PROVE  /\ n \in Pipeline!byFeedback <=> Pipeline!FingerprintAt(n) \in job.rejected
           /\ n \in Pipeline!dedupComments <=>
                n \notin Pipeline!byFeedback /\ ~Pipeline!Repeats(n)
BY DEF Pipeline!byFeedback, Pipeline!dedupComments, Pipeline!Repeats

\* What is posted, in one formula.
LEMMA PostedExplained ==
    ASSUME job \in ReviewJobs
    PROVE  Pipeline!afterSuppression =
             {n \in DOMAIN job.returned :
                LET c == job.returned[n]
                IN  ~(\/ Pipeline!fingerprint(c) \in job.rejected \cup job.muted
                      \/ Pipeline!Repeats(n) \/ Pipeline!Below(c) \/ Pipeline!RuledOut(c))}
<1>1. Pipeline!afterSuppression \subseteq DOMAIN job.returned
  BY DEF Pipeline!afterSuppression, Pipeline!afterRuleset, Pipeline!afterConfidence,
         Pipeline!dedupComments
<1>2. ASSUME NEW n \in DOMAIN job.returned
      PROVE  n \in Pipeline!afterSuppression <=>
               /\ n \in Pipeline!dedupComments
               /\ Pipeline!meetsConfidence(job.returned[n], job.minConfidence)
               /\ Pipeline!applyRulesetFilter(job.returned[n])
               /\ Pipeline!FingerprintAt(n) \notin job.muted
  BY DEF Pipeline!afterSuppression, Pipeline!afterRuleset, Pipeline!afterConfidence
<1>3. ASSUME NEW n \in DOMAIN job.returned
      PROVE  n \in Pipeline!afterSuppression <=>
               LET c == job.returned[n]
               IN  ~(\/ Pipeline!fingerprint(c) \in job.rejected \cup job.muted
                     \/ Pipeline!Repeats(n) \/ Pipeline!Below(c) \/ Pipeline!RuledOut(c))
  <2>1. Pipeline!FingerprintAt(n) = Pipeline!fingerprint(job.returned[n])
    BY DEF Pipeline!FingerprintAt
  <2> QED BY <1>2, <2>1, PolicyExplained, FreshExplained
<1> QED BY <1>1, <1>3

\* Each comment that is missing is counted once, but for those that only the
\* floor keeps back.
LEMMA DroppedCounted ==
    ASSUME job \in ReviewJobs
    PROVE  Pipeline!Cardinality({n \in DOMAIN job.returned :
                                   Pipeline!FingerprintAt(n) \in job.rejected
                                     \/ Pipeline!Repeats(n)
                                     \/ ~Pipeline!Below(job.returned[n])})
             = Pipeline!Cardinality(Pipeline!afterSuppression) + Pipeline!dropped.duplicates
                 + Pipeline!dropped.feedback + Pipeline!dropped.ruleset
                 + Pipeline!dropped.suppression
<1> DEFINE D == DOMAIN job.returned
           counted == {n \in D : Pipeline!FingerprintAt(n) \in job.rejected
                                   \/ Pipeline!Repeats(n) \/ ~Pipeline!Below(job.returned[n])}
           F == Pipeline!byFeedback
           U == Pipeline!dedupComments
           C == Pipeline!afterConfidence
           R == Pipeline!afterRuleset
           S == Pipeline!afterSuppression
<1>1. IsFiniteSet(D)
  <2>1. D = 1..Len(job.returned) /\ Len(job.returned) \in Nat
    BY PipelineAssumption DEF Pipeline!IsReviewJob
  <2>2. 1 \in Int /\ Len(job.returned) \in Int BY <2>1
  <2>3. IsFiniteSet(1..Len(job.returned)) BY <2>2, FS_Interval
  <2> QED BY <2>1, <2>3
<1>2. /\ F \subseteq D /\ U \subseteq D /\ U \cap F = {} /\ R \subseteq C /\ S \subseteq R
      /\ C = {n \in U : Pipeline!meetsConfidence(job.returned[n], job.minConfidence)}
  BY DEF Pipeline!byFeedback, Pipeline!dedupComments, Pipeline!afterConfidence,
         Pipeline!afterRuleset, Pipeline!afterSuppression
<1>3. \A n \in D : /\ n \in counted <=> n \in F \/ Pipeline!Repeats(n)
                                          \/ ~Pipeline!Below(job.returned[n])
                   /\ n \in U <=> n \notin F /\ ~Pipeline!Repeats(n)
                   /\ n \in C <=> n \in U /\ ~Pipeline!Below(job.returned[n])
  BY <1>2, FreshExplained, PolicyExplained
<1>4. /\ counted \subseteq D /\ F \subseteq counted /\ (D \ F) \ U \subseteq counted \ F
      /\ (counted \ F) \ ((D \ F) \ U) = C
  BY <1>2, <1>3
<1>5. /\ Pipeline!dropped.duplicates = Cardinality((D \ F) \ U)
      /\ Pipeline!dropped.feedback = Cardinality(F)
      /\ Pipeline!dropped.ruleset = Cardinality(C \ R)
      /\ Pipeline!dropped.suppression = Cardinality(R \ S)
  BY CountedAlike DEF Pipeline!dropped
<1> HIDE DEF D, counted, F, U, C, R, S
<1>6. IsFiniteSet(counted) BY <1>1, <1>4, FS_Subset
<1>7. IsFiniteSet(counted \ F) /\ IsFiniteSet(C) BY <1>4, <1>6, FS_Subset
<1>8. IsFiniteSet(R) BY <1>2, <1>7, FS_Subset
<1>9. /\ Cardinality(counted) = Cardinality(F) + Cardinality(counted \ F)
      /\ Cardinality(F) \in Nat
  BY <1>4, <1>6, TwoParts
<1>10. /\ Cardinality(counted \ F) = Cardinality((D \ F) \ U) + Cardinality(C)
       /\ Cardinality((D \ F) \ U) \in Nat
  BY <1>4, <1>7, TwoParts
<1>11. /\ Cardinality(C) = Cardinality(R) + Cardinality(C \ R)
       /\ Cardinality(C \ R) \in Nat
  BY <1>2, <1>7, TwoParts
<1>12. /\ Cardinality(R) = Cardinality(S) + Cardinality(R \ S)
       /\ Cardinality(S) \in Nat /\ Cardinality(R \ S) \in Nat
  BY <1>2, <1>8, TwoParts
<1>13. Cardinality(counted) = Cardinality(S) + Pipeline!dropped.duplicates
         + Pipeline!dropped.feedback + Pipeline!dropped.ruleset + Pipeline!dropped.suppression
  BY <1>5, <1>9, <1>10, <1>11, <1>12
<1>14. /\ Pipeline!Cardinality(counted) = Cardinality(counted)
       /\ Pipeline!Cardinality(S) = Cardinality(S)
  BY CountedAlike
<1> QED BY <1>13, <1>14 DEF counted, S, D

\* Changes are requested for a comment that is severe enough, and for no other.
LEMMA EventExplained ==
    ASSUME job \in ReviewJobs, NEW N \in SUBSET DOMAIN job.returned
    PROVE  Pipeline!computeReviewEvent({job.returned[n] : n \in N}) = "REQUEST_CHANGES" <=>
             \E n \in N : /\ job.requestChangesOn # "never"
                          /\ job.returned[n].severity \in {"critical", job.requestChangesOn}
<1> DEFINE Severities == {"critical", "major", "minor", "info"}
<1>1. /\ \A n \in N : job.returned[n].severity \in Severities
      /\ job.requestChangesOn \in {"critical", "major", "never"}
  BY PipelineAssumption DEF Pipeline!IsReviewJob, Pipeline!SEVERITY_RANK
<1>2. ASSUME NEW a \in Severities, job.requestChangesOn # "never"
      PROVE  Pipeline!SEVERITY_RANK[a] >= Pipeline!SEVERITY_RANK[job.requestChangesOn]
               <=> a \in {"critical", job.requestChangesOn}
  BY <1>1, <1>2 DEF Pipeline!SEVERITY_RANK
<1>3. Pipeline!computeReviewEvent({job.returned[n] : n \in N}) = "REQUEST_CHANGES" <=>
        /\ job.requestChangesOn # "never"
        /\ \E n \in N : Pipeline!SEVERITY_RANK[job.returned[n].severity]
                          >= Pipeline!SEVERITY_RANK[job.requestChangesOn]
  BY DEF Pipeline!computeReviewEvent
<1> HIDE DEF Severities
<1> QED BY <1>1, <1>2, <1>3

\* The explanation of a result depends on the job and the result only.
LEMMA ExplanationKept ==
    ASSUME job' = job
    PROVE  /\ \A n : Pipeline!FingerprintAt(n)' = Pipeline!FingerprintAt(n)
           /\ \A n : Pipeline!Repeats(n)' <=> Pipeline!Repeats(n)
           /\ \A c : Pipeline!Below(c)' <=> Pipeline!Below(c)
           /\ \A c : Pipeline!RuledOut(c)' <=> Pipeline!RuledOut(c)
<1>1. \A n : Pipeline!FingerprintAt(n)' = Pipeline!FingerprintAt(n)
  BY DEF Pipeline!FingerprintAt
<1>2. \A n : Pipeline!Repeats(n)' <=> Pipeline!Repeats(n) BY <1>1 DEF Pipeline!Repeats
<1>3. \A c : Pipeline!Below(c)' <=> Pipeline!Below(c) BY DEF Pipeline!Below
<1>4. \A c : Pipeline!RuledOut(c)' <=> Pipeline!RuledOut(c) BY DEF Pipeline!RuledOut
<1> QED BY <1>1, <1>2, <1>3, <1>4

\* A good answer is filtered and reported.
LEMMA PublishStep == ASSUME PipelineInv, Pipeline!Publish PROVE PipelineInv'
<1>1. /\ at = "model" /\ at' = "record" /\ UNCHANGED <<job, fetch, run>>
      /\ answer' = Pipeline!NoAnswer /\ job \in ReviewJobs
      /\ result' = [kind |-> "reviewed", excluded |-> Pipeline!exclusionReport({}),
                    sent |-> Pipeline!reassembleDiff(Pipeline!Kept),
                    toolCalls |-> Pipeline!toolCalls, cost |-> 1,
                    posted |-> Pipeline!afterSuppression, dropped |-> Pipeline!dropped,
                    event |-> Pipeline!computeReviewEvent(
                                 {job.returned[n] : n \in Pipeline!afterSuppression})]
  BY DEF Pipeline!Publish, PipelineInv
<1>2. RunInv' BY <1>1 DEF PipelineInv, RunInv
<1>3. FetchInv' BY <1>1, FetchKept DEF PipelineInv, FetchInv
<1>4. Pipeline!SearchExplained' BY <1>1, SearchKept DEF PipelineInv
<1>5. run.attempt # 0 /\ Pipeline!toolCalls \in run.counter..run.asked
  BY <1>1 DEF PipelineInv, RunInv, Calls, Pipeline!toolCalls
<1>6. Pipeline!exclusionReport({}) = Pipeline!pathFilterExclusions
  BY DEF Pipeline!exclusionReport
<1>7. Pipeline!reassembleDiff(Pipeline!Kept)' = Pipeline!reassembleDiff(Pipeline!Kept)
  BY <1>1, DiffKept DEF Pipeline!reassembleDiff
<1>8. Pipeline!CommentsExplained'
  <2>1. /\ result'.posted = Pipeline!afterSuppression /\ result'.dropped = Pipeline!dropped
        /\ result'.event = Pipeline!computeReviewEvent(
                             {job.returned[n] : n \in Pipeline!afterSuppression})
    BY <1>1
  <2>2. Pipeline!afterSuppression \in SUBSET DOMAIN job.returned BY <1>1, PostedExplained
  <2>3. result'.event = "REQUEST_CHANGES" <=>
          \E n \in result'.posted :
             /\ job.requestChangesOn # "never"
             /\ job.returned[n].severity \in {"critical", job.requestChangesOn}
    BY <1>1, <2>1, <2>2, EventExplained
  <2>4. result'.posted =
          {n \in DOMAIN job.returned :
             LET c == job.returned[n]
             IN  ~(\/ Pipeline!fingerprint(c) \in job.rejected \cup job.muted
                   \/ Pipeline!Repeats(n) \/ Pipeline!Below(c) \/ Pipeline!RuledOut(c))}
    BY <1>1, <2>1, PostedExplained
  <2>5. Pipeline!Cardinality({n \in DOMAIN job.returned :
                                Pipeline!FingerprintAt(n) \in job.rejected
                                  \/ Pipeline!Repeats(n)
                                  \/ ~Pipeline!Below(job.returned[n])})
          = Pipeline!Cardinality(result'.posted) + result'.dropped.duplicates
              + result'.dropped.feedback + result'.dropped.ruleset + result'.dropped.suppression
    BY <1>1, <2>1, DroppedCounted
  <2> QED BY <1>1, <2>3, <2>4, <2>5, ExplanationKept DEF Pipeline!CommentsExplained
<1>9. ResultInv' BY <1>1, <1>5, <1>6, <1>7, <1>8, DiffKept DEF ResultInv
<1> QED BY <1>1, <1>2, <1>3, <1>4, <1>9 DEF PipelineInv, Points

\* A review that is thrown, and one that is recorded.
LEMMA EndSteps ==
    ASSUME PipelineInv, Pipeline!Throws \/ Pipeline!recordEvalEvent PROVE PipelineInv'
<1>1. /\ UNCHANGED <<job, fetch, run, result>>
      /\ (at = "model" /\ at' = "failed") \/ (at = "record" /\ at' = "done")
      /\ answer' = answer \/ answer' = Pipeline!NoAnswer
  BY DEF Pipeline!Throws, Pipeline!recordEvalEvent
<1>2. RunInv' BY <1>1 DEF PipelineInv, RunInv
<1>3. FetchInv' BY <1>1, FetchKept DEF PipelineInv, FetchInv
<1>4. Pipeline!SearchExplained' BY <1>1, SearchKept DEF PipelineInv
<1>5. ResultInv'
  <2>1. Pipeline!reassembleDiff(Pipeline!Kept)' = Pipeline!reassembleDiff(Pipeline!Kept)
    BY <1>1, DiffKept DEF Pipeline!reassembleDiff
  <2>2. Pipeline!CommentsExplained' <=> Pipeline!CommentsExplained
    BY <1>1, ExplanationKept DEF Pipeline!CommentsExplained
  <2>3. Pipeline!PathsOf(Pipeline!Parsed)' = Pipeline!PathsOf(Pipeline!Parsed)
    BY <1>1, DiffKept DEF Pipeline!PathsOf
  <2> QED BY <1>1, <2>1, <2>2, <2>3, DiffKept DEF PipelineInv, ResultInv
<1> QED BY <1>1, <1>2, <1>3, <1>4, <1>5 DEF PipelineInv, Points

\* A step that leaves the review alone.
LEMMA ReviewStutters == ASSUME PipelineInv, UNCHANGED pipelineVars PROVE PipelineInv'
<1>1. UNCHANGED <<job, at, fetch, run, answer, result>> BY DEF pipelineVars
<1>2. FetchInv'
  <2>1. Fetching' = Fetching BY <1>1, DiffKept DEF Fetching
  <2>2. (Whole' <=> Whole) /\ (Awaited' <=> Awaited) BY <1>1 DEF Whole, Awaited
  <2> QED BY <1>1, <2>1, <2>2 DEF PipelineInv, FetchInv
<1>3. ResultInv'
  <2>1. Pipeline!reassembleDiff(Pipeline!Kept)' = Pipeline!reassembleDiff(Pipeline!Kept)
    BY <1>1, DiffKept DEF Pipeline!reassembleDiff
  <2>2. Pipeline!CommentsExplained' <=> Pipeline!CommentsExplained
    BY <1>1, ExplanationKept DEF Pipeline!CommentsExplained
  <2>3. Pipeline!PathsOf(Pipeline!Parsed)' = Pipeline!PathsOf(Pipeline!Parsed)
    BY <1>1, DiffKept DEF Pipeline!PathsOf
  <2> QED BY <1>1, <2>1, <2>2, <2>3, DiffKept DEF PipelineInv, ResultInv
<1> QED BY <1>1, <1>2, <1>3, SearchKept DEF PipelineInv, RunInv

\* The invariant of a review (runReview, runReviewInner), for any job, any
\* budget of companions and any number of tool calls.
THEOREM ReviewIsSafe == JobSpec => [](step = "pipeline" => PipelineInv)
<1> DEFINE I == step = "pipeline" => PipelineInv
<1>1. JobInit => I BY ReviewStarts DEF JobInit
<1>2. I /\ [JobNext]_<<step, configVars, pipelineVars, retryVars, spaceVars>> => I'
  <2> SUFFICES ASSUME I, [JobNext]_<<step, configVars, pipelineVars, retryVars, spaceVars>>,
                      step' = "pipeline"
               PROVE  PipelineInv'
    OBVIOUS
  <2>1. step = "pipeline" BY DEF JobNext
  <2>2. CASE Pipeline!Next
    BY <2>1, <2>2, SkillsStep, CapStep, EnterStep, CompanionStep, CallModelStep, ToolStep,
       RejectStep, PublishStep, EndSteps DEF Pipeline!Next
  <2>3. CASE UNCHANGED pipelineVars BY <2>1, <2>3, ReviewStutters
  <2> QED BY <2>1, <2>2, <2>3 DEF JobNext
<1> QED BY <1>1, <1>2, PTL DEF JobSpec

\* Every line of the diff is sent to the model or named as excluded
\* (parseDiffByFile, applyPathFilters, the caps of runReviewInner), whatever
\* the diff: the parts cover the text and do not overlap.
THEOREM LinesHold == JobSpec => []LinesAreAccounted
<1>1. (step = "pipeline" => PipelineInv) => LinesAreAccounted
  <2> SUFFICES ASSUME PipelineInv, at = "done" PROVE Pipeline!LinesAccounted
    BY DEF LinesAreAccounted, Pipeline!LinesAccounted
  <2>1. job \in ReviewJobs /\ ResultInv BY DEF PipelineInv
  <2>2. ASSUME NEW i \in Pipeline!Text, NEW f \in Pipeline!Parsed, i \in Pipeline!LinesOf(f)
        PROVE  /\ i \in result.sent <=> result.kind # "capped" /\ f.path \notin job.filters
               /\ f.path \in result.excluded <=> result.kind = "capped" \/ f.path \in job.filters
    <3>1. f \in Pipeline!Kept <=> f.path \notin job.filters
      BY DEF Pipeline!Kept, Pipeline!applyPathFilters
    <3>2. i \in Pipeline!reassembleDiff(Pipeline!Kept) <=> f \in Pipeline!Kept
      <4>1. \A g \in Pipeline!Kept : i \in Pipeline!LinesOf(g) => g = f
        BY <2>1, <2>2, PartsDisjoint DEF Pipeline!Kept, Pipeline!applyPathFilters
      <4> QED BY <2>2, <4>1 DEF Pipeline!reassembleDiff
    <3>3. f.path \in Pipeline!pathFilterExclusions <=> f.path \in job.filters
      BY <3>1 DEF Pipeline!pathFilterExclusions, Pipeline!PathsOf, Pipeline!Kept,
                  Pipeline!applyPathFilters
    <3>4. f.path \in Pipeline!PathsOf(Pipeline!Parsed) BY DEF Pipeline!PathsOf
    <3> QED BY <2>1, <3>1, <3>2, <3>3, <3>4 DEF ResultInv
  <2>3. ASSUME NEW i \in Pipeline!Text, Pipeline!Plain(Pipeline!Owner(i))
        PROVE  i \in result.sent
                 <=> result.kind # "capped" /\ Pipeline!Owner(i).path \notin job.filters
    <3>1. PICK f \in Pipeline!Parsed : i \in Pipeline!LinesOf(f) BY <2>1, PartsCover
    <3>2. f.path = Pipeline!Owner(i).path BY <2>1, <2>3, <3>1, PlainPart
    <3> QED BY <2>2, <3>1, <3>2
  <2>4. \A i \in Pipeline!Text : \E f \in Pipeline!Parsed : i \in Pipeline!LinesOf(f)
    BY <2>1, PartsCover
  <2>5. \A i \in Pipeline!Text : \A f \in Pipeline!Parsed :
          i \in Pipeline!LinesOf(f) => (i \in result.sent) # (f.path \in result.excluded)
    <3> SUFFICES ASSUME NEW i \in Pipeline!Text, NEW f \in Pipeline!Parsed,
                        i \in Pipeline!LinesOf(f)
                 PROVE  (i \in result.sent) # (f.path \in result.excluded)
      OBVIOUS
    <3>1. (i \in result.sent) <=> ~(f.path \in result.excluded) BY <2>2
    <3> QED BY <3>1
  <2>6. result.kind = "capped" => run.attempt = 0 /\ fetch.files = <<>> BY <2>1 DEF ResultInv
  <2> QED BY <2>3, <2>4, <2>5, <2>6 DEF Pipeline!LinesAccounted
<1> QED BY <1>1, ReviewIsSafe, PTL

\* Comments, counts and event of a review are those the filters explain
\* (dedupComments and the filters of runReviewInner), for any answer, earlier
\* findings, floor and ruleset.
THEOREM CommentsHold == JobSpec => []CommentsAreExplained
<1>1. (step = "pipeline" => PipelineInv) => CommentsAreExplained
  BY DEF PipelineInv, ResultInv, CommentsAreExplained
<1> QED BY <1>1, ReviewIsSafe, PTL

\* What a review did is what its result reports (runReviewInner,
\* collectAutoFetchContext, grepInDir): tool calls, cost, companions and
\* searches.
THEOREM WorkHolds == JobSpec => []WorkIsReported
<1>1. (step = "pipeline" => PipelineInv) => WorkIsReported
  <2> SUFFICES ASSUME PipelineInv PROVE Pipeline!WorkReported
    BY DEF WorkIsReported
  <2>1. Pipeline!CompanionsExplained
    <3>1. fetch.total <= MaxTotalBytes /\ Len(fetch.files) <= MaxFetchFiles
      BY PipelineAssumption DEF PipelineInv, FetchInv, Fetching
    <3>2. ASSUME at \in {"model", "done"}, run.attempt > 0, ~fetch.hit
          PROVE  fetch.queue = {} /\ Awaited /\ Whole
      BY <3>2 DEF PipelineInv, FetchInv, RunInv
    <3> QED BY <3>1, <3>2 DEF Pipeline!CompanionsExplained, Awaited, Whole
  <2>2. Pipeline!SearchExplained BY DEF PipelineInv
  <2>3. ASSUME at = "done"
        PROVE  /\ run.counter <= result.toolCalls /\ result.toolCalls <= run.asked
               /\ run.attempt <= 2
    BY <2>3 DEF PipelineInv, RunInv, Calls, ResultInv
  <2>4. ASSUME at = "done"
        PROVE  result.cost + Pipeline!Cardinality({k \in 1..run.attempt :
                                  k < run.attempt \/ result.kind = "aborted"}) = run.paid
    <3> DEFINE rejected == {k \in 1..run.attempt : k < run.attempt \/ result.kind = "aborted"}
    <3>1. run.paid = run.attempt /\ run.attempt \in 0..2 /\ ResultInv
      BY DEF PipelineInv, RunInv, Calls
    <3>2. \/ result.cost = 0 /\ run.attempt = 0
          \/ result.cost = 0 /\ run.attempt = 2 /\ result.kind = "aborted"
          \/ result.cost = 1 /\ run.attempt \in 1..2 /\ result.kind # "aborted"
      BY <2>4, <3>1 DEF ResultInv
    <3>3. rejected = 1..(run.attempt - result.cost)
      <4>1. CASE result.cost = 0 /\ run.attempt = 0 BY <4>1
      <4>2. CASE result.cost = 0 /\ run.attempt = 2 /\ result.kind = "aborted" BY <4>2
      <4>3. CASE result.cost = 1 /\ run.attempt \in 1..2 /\ result.kind # "aborted" BY <4>3
      <4> QED BY <3>2, <4>1, <4>2, <4>3
    <3> HIDE DEF rejected
    <3>4. Pipeline!Cardinality(rejected) = run.attempt - result.cost
      <4>1. run.attempt - result.cost \in 0..2 BY <3>2
      <4> QED BY <3>3, <4>1, FS_Interval, CountedAlike
    <3>5. result.cost + Pipeline!Cardinality(rejected) = run.paid BY <3>1, <3>2, <3>4
    <3> QED BY <3>5 DEF rejected
  <2> QED BY <2>1, <2>2, <2>3, <2>4 DEF Pipeline!WorkReported
<1> QED BY <1>1, ReviewIsSafe, PTL

=============================================================================
