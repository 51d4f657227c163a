------------------------------ MODULE JobQueue ------------------------------
(***************************************************************************)
(* The review jobs between the webhook receiver and the worker: the SQS    *)
(* client (server/src/queue/sqs.ts), the polling worker with its           *)
(* synchronize debounce (server/src/worker.ts) and the Lambda worker       *)
(* (server/src/lambda-worker.ts). SQS itself is external: a standard queue *)
(* with a visibility timeout, a receive count and a dead-letter queue.     *)
(*                                                                         *)
(* All jobs are of one pull request, each for a head commit of its own.    *)
(* Time is kept in timers that Tick moves, so that no clock bounds a run.  *)
(***************************************************************************)
EXTENDS Integers, Sequences, FiniteSets

CONSTANTS
    Jobs,         \* job messages
    Workers,      \* worker processes
    Lambda,       \* the workers that run createSqsLambdaHandler; the others run startWorker
    Kinds,        \* the kinds of jobs sent, a subset of JobKinds
    BatchSize,    \* the batch size of the Lambda event source; a poller takes one
    Visibility,   \* the visibility timeout of a receive
    MaxReceive,   \* maxReceiveCount of the redrive policy
    MaxRun,       \* bound on the time a worker is busy; the code has none
    Window        \* debounceWindowMs

JobKinds == {"synchronize", "command", "malformed"}

ASSUME KindsAssumption == Kinds \subseteq JobKinds /\ Lambda \subseteq Workers
ASSUME BoundsAssumption ==
    /\ BatchSize \in Nat /\ Visibility \in Nat /\ MaxReceive \in Nat
    /\ MaxRun \in Nat /\ Window \in Nat

VARIABLES
    kind,         \* kind[j]: what the message holds
    msg,          \* msg[j]: [st, hidden, receives] of the message in SQS
    worker,       \* worker[w]: [pc, batch, ran, ok]; ok are the receipts to delete
    stop,         \* stop[w]: the abort signal of worker w
    review,       \* rows of review_state: [id, head, age]
    done,         \* history: jobs whose callback returned without an error
    reviewed,     \* history: jobs whose review was run to its end
    newest        \* history: the last push sent, as a set of at most one job

vars == <<kind, msg, worker, stop, review, done, reviewed, newest>>

Receipt == [j : Jobs, n : 1..MaxReceive]
Message == [st : {"unsent", "queued", "deleted", "dlq"},
            hidden : 0..Visibility, receives : 0..MaxReceive]
Process == [pc : {"poll", "next", "checking", "running", "acking", "stopped"},
            batch : Seq(Receipt), ran : 0..MaxRun, ok : SUBSET Receipt]

Unburdened(pc) == [pc |-> pc, batch |-> <<>>, ran |-> 0, ok |-> {}]
Ready == Unburdened("poll")

Init ==
    /\ kind \in [Jobs -> Kinds]
    /\ msg = [j \in Jobs |-> [st |-> "unsent", hidden |-> 0, receives |-> 0]]
    /\ worker = [w \in Workers |-> Ready]
    /\ stop = [w \in Workers |-> FALSE]
    /\ review = {}
    /\ done = {}
    /\ reviewed = {}
    /\ newest = {}

-----------------------------------------------------------------------------
(* SQS.                                                                    *)

Visible(j) == msg[j].st = "queued" /\ msg[j].hidden = 0

(* enqueue: SendMessageCommand.                                            *)
Send(j) ==
    /\ msg[j].st = "unsent"
    /\ msg' = [msg EXCEPT ![j].st = "queued"]
    /\ newest' = IF kind[j] = "synchronize" THEN {j} ELSE newest
    /\ UNCHANGED <<kind, worker, stop, review, done, reviewed>>

(* The redrive policy: too many receives without a delete.                 *)
Redrive(j) ==
    /\ Visible(j)
    /\ msg[j].receives >= MaxReceive
    /\ msg' = [msg EXCEPT ![j].st = "dlq"]
    /\ UNCHANGED <<kind, worker, stop, review, done, reviewed, newest>>

Busy(w) == worker[w].pc \in {"next", "checking", "running", "acking"}

Less(n) == IF n = 0 THEN 0 ELSE n - 1

(* Time passes, as long as no worker would be busy longer than MaxRun.     *)
Tick ==
    /\ \A w \in Workers : Busy(w) => worker[w].ran < MaxRun
    /\ msg' = [j \in Jobs |-> [msg[j] EXCEPT !.hidden = Less(@)]]
    /\ worker' = [w \in Workers |->
                    IF Busy(w) THEN [worker[w] EXCEPT !.ran = @ + 1] ELSE worker[w]]
    /\ review' = {[r EXCEPT !.age = IF @ < Window THEN @ + 1 ELSE @] : r \in review}
    /\ UNCHANGED <<kind, stop, done, reviewed, newest>>

Receivable == {j \in Jobs : Visible(j) /\ msg[j].receives < MaxReceive}

Batches(w) ==
    {s \in UNION {[1..n -> Receivable] : n \in 1..(IF w \in Lambda THEN BatchSize ELSE 1)} :
        \A a, b \in DOMAIN s : s[a] = s[b] => a = b}

ReceiveShort(w, s) ==   \* mutant: the timeout is rounded down by one
    /\ worker[w].pc = "poll"
    /\ msg' = [j \in Jobs |->
                 IF \E i \in DOMAIN s : s[i] = j
                 THEN [msg[j] EXCEPT !.hidden = Less(Visibility), !.receives = @ + 1]
                 ELSE msg[j]]
    /\ worker' = [worker EXCEPT ![w] =
                    [pc |-> "next", ran |-> 0, ok |-> {},
                     batch |-> [i \in DOMAIN s |-> [j |-> s[i], n |-> msg[s[i]].receives + 1]]]]
    /\ UNCHANGED <<kind, stop, review, done, reviewed, newest>>

(* ReceiveMessageCommand, or the Lambda event source doing it.             *)
Receive(w, s) ==
    /\ worker[w].pc = "poll"
    /\ msg' = [j \in Jobs |->
                 IF \E i \in DOMAIN s : s[i] = j
                 THEN [msg[j] EXCEPT !.hidden = Visibility, !.receives = @ + 1]
                 ELSE msg[j]]
    /\ worker' = [worker EXCEPT ![w] =
                    [pc |-> "next", ran |-> 0, ok |-> {},
                     batch |-> [i \in DOMAIN s |-> [j |-> s[i], n |-> msg[s[i]].receives + 1]]]]
    /\ UNCHANGED <<kind, stop, review, done, reviewed, newest>>

-----------------------------------------------------------------------------
(* The loops of dequeue and of the Lambda handler.                         *)

Current(w) == Head(worker[w].batch)

\* The worker goes on with the rest of its batch. A poller's deadline is per
\* message, a Lambda's is the timeout of the invocation.
NextMessage(w) ==
    [pc |-> "next", batch |-> Tail(worker[w].batch),
     ran |-> IF w \in Lambda THEN worker[w].ran ELSE 0, ok |-> worker[w].ok]

At(w, pc) == [worker[w] EXCEPT !.pc = pc]

(* The head of the for loop: parseBody, then the callback. A malformed     *)
(* body is left to the visibility timeout.                                 *)
Take(w) ==
    /\ worker[w].pc = "next" /\ worker[w].batch # <<>>
    /\ w \in Lambda \/ ~stop[w]
    /\ worker' = [worker EXCEPT ![w] =
                    IF kind[Current(w).j] = "malformed" THEN NextMessage(w)
                    ELSE At(w, IF w \in Lambda THEN "running" ELSE "checking")]
    /\ UNCHANGED <<kind, msg, stop, review, done, reviewed, newest>>

(* The end of a batch: a poller polls again, a Lambda invocation returns   *)
(* and the event source deletes what was not reported as a failure.        *)
EndBatch(w) ==
    /\ worker[w].pc = "next" /\ worker[w].batch = <<>> /\ ~stop[w]
    /\ worker' = [worker EXCEPT ![w] =
                    IF w \in Lambda /\ worker[w].ok # {} THEN At(w, "acking") ELSE Ready]
    /\ UNCHANGED <<kind, msg, stop, review, done, reviewed, newest>>

(* The stop signal, seen at the while loop or between two messages; a      *)
(* receive that was under way when it was given still returns its batch.   *)
Stop(w) ==
    /\ w \notin Lambda /\ ~stop[w]
    /\ stop' = [stop EXCEPT ![w] = TRUE]
    /\ UNCHANGED <<kind, msg, worker, review, done, reviewed, newest>>

Halt(w) ==
    /\ stop[w]
    /\ worker[w].pc \in {"poll", "next"}
    /\ worker' = [worker EXCEPT ![w] = Unburdened("stopped")]
    /\ UNCHANGED <<kind, msg, stop, review, done, reviewed, newest>>

-----------------------------------------------------------------------------
(* The callback of startWorker, and the handler it wraps.                  *)

\* review_state ids: the mirror's idFor prefixes the installation, the worker
\* looks the row up by `owner/repo#number` alone.
PrId == "owner/repo#1"
idFor == <<"installation", PrId>>

stateIdMirror == idFor   \* mutant: the worker reads the row the mirror writes

stateId == <<PrId>>

shouldDebounce(j) ==
    /\ kind[j] = "synchronize"
    /\ \E r \in review : r.id = stateId /\ r.head # j /\ r.age < Window

\* The callback returned: a poller deletes now, a Lambda at the end of its batch.
Returned(w) ==
    IF w \in Lambda
    THEN [NextMessage(w) EXCEPT !.ok = @ \cup {Current(w)}]
    ELSE [worker[w] EXCEPT !.pc = "acking", !.ok = {Current(w)}]

Check(w) ==
    /\ worker[w].pc = "checking"
    /\ LET j == Current(w).j IN
       IF shouldDebounce(j)
       THEN /\ worker' = [worker EXCEPT ![w] = Returned(w)]
            /\ done' = done \cup {j}
       ELSE /\ worker' = [worker EXCEPT ![w] = At(w, "running")]
            /\ UNCHANGED done
    /\ UNCHANGED <<kind, msg, stop, review, reviewed, newest>>

(* The handler runs the review and upserts the review_state mirror.        *)
HandlerDone(w) ==
    /\ worker[w].pc = "running"
    /\ LET j == Current(w).j IN
       /\ review' = {r \in review : r.id # idFor} \cup {[id |-> idFor, head |-> j, age |-> 0]}
       /\ reviewed' = reviewed \cup {j}
       /\ done' = done \cup {j}
    /\ worker' = [worker EXCEPT ![w] = Returned(w)]
    /\ UNCHANGED <<kind, msg, stop, newest>>

HandlerFailAcks(w) ==   \* mutant: an error is treated like a success
    /\ worker[w].pc = "running"
    /\ worker' = [worker EXCEPT ![w] = Returned(w)]
    /\ UNCHANGED <<kind, msg, stop, review, done, reviewed, newest>>

HandlerFailStops(w) ==   \* mutant: the error is rethrown out of dequeue
    /\ worker[w].pc = "running"
    /\ worker' = [worker EXCEPT ![w] = Unburdened("stopped")]
    /\ UNCHANGED <<kind, msg, stop, review, done, reviewed, newest>>

(* The handler throws: onHandlerFailure swallows the error, or the Lambda  *)
(* reports the record as failed.                                           *)
HandlerFail(w) ==
    /\ worker[w].pc = "running"
    /\ worker' = [worker EXCEPT ![w] = NextMessage(w)]
    /\ UNCHANGED <<kind, msg, stop, review, done, reviewed, newest>>

(* DeleteMessageCommand: any of the deletes may fail, and one with an old  *)
(* receipt handle may or may not take effect.                              *)
Ack(w, D) ==
    /\ worker[w].pc = "acking"
    /\ D \subseteq worker[w].ok
    /\ msg' = [j \in Jobs |->
                 IF msg[j].st = "queued" /\ \E r \in D : r.j = j
                 THEN [msg[j] EXCEPT !.st = "deleted"] ELSE msg[j]]
    /\ worker' = [worker EXCEPT ![w] =
                    IF w \in Lambda THEN Ready ELSE [NextMessage(w) EXCEPT !.ok = {}]]
    /\ UNCHANGED <<kind, stop, review, done, reviewed, newest>>

(* The process is killed at any point, and another one takes its place.    *)
Crash(w) ==
    /\ Busy(w)
    /\ worker' = [worker EXCEPT ![w] = Ready]
    /\ stop' = [stop EXCEPT ![w] = FALSE]
    /\ UNCHANGED <<kind, msg, review, done, reviewed, newest>>

-----------------------------------------------------------------------------
Loop(w) ==
    \/ Take(w)
    \/ EndBatch(w)
    \/ Halt(w)
    \/ Check(w)
    \/ HandlerDone(w)
    \/ HandlerFail(w)
    \/ \E D \in SUBSET worker[w].ok : Ack(w, D)

Step(w) ==
    \/ \E s \in Batches(w) : Receive(w, s)
    \/ Loop(w)
    \/ Stop(w)
    \/ Crash(w)

Next ==
    \/ Tick
    \/ \E j \in Jobs : Send(j) \/ Redrive(j)
    \/ \E w \in Workers : Step(w)

Spec == Init /\ [][Next]_vars

(* Time passes, SQS moves exhausted messages, a polling worker is given a  *)
(* message that stays available, and a busy worker goes on.                *)
Fairness ==
    /\ WF_vars(Tick)
    /\ \A j \in Jobs : WF_vars(Redrive(j))
    /\ \A w \in Workers :
         WF_vars(\E s \in Batches(w) : Receive(w, s)) /\ WF_vars(Loop(w))

FairSpec == Spec /\ Fairness

-----------------------------------------------------------------------------
(* The variables hold what the queue and the locals of the code can hold.  *)
TypeOK ==
    /\ kind \in [Jobs -> Kinds]
    /\ msg \in [Jobs -> Message]
    /\ worker \in [Workers -> Process]
    /\ stop \in [Workers -> BOOLEAN]
    /\ review \subseteq [id : {idFor, stateId}, head : Jobs, age : 0..Window]
    /\ done \subseteq Jobs
    /\ reviewed \subseteq Jobs
    /\ newest \subseteq Jobs

(* A message leaves the queue only after its callback returned without an  *)
(* error: handler errors, malformed records, crashes, stop signals, failed *)
(* and late deletes and redeliveries never lose a job.                     *)
NothingLost == \A j \in Jobs : msg[j].st = "deleted" => j \in done

(* Once its message is gone from the queue, the newest pushed head has     *)
(* been reviewed: the debounce never drops the last push.                  *)
NewestHeadReviewed ==
    \A j \in newest : msg[j].st = "deleted" => j \in reviewed

(* Two workers review the same job at once only when the visibility        *)
(* timeout ran out under one of them: redeliveries, batches, crashes, late *)
(* deletes and stop signals alone never hand a job to a second worker.     *)
OverlapsAreLate ==
    \A v, w \in Workers :
        /\ v # w
        /\ worker[v].pc = "running" /\ worker[w].pc = "running"
        /\ Current(v).j = Current(w).j
        => worker[v].ran >= Visibility \/ worker[w].ran >= Visibility

(* No two workers review the same job at the same time: what the           *)
(* deployment guide promises, and what nothing in the code ensures, because*)
(* a receive asks for a fixed timeout and nothing bounds a review.         *)
SoleHandler ==
    \A v, w \in Workers :
        v # w /\ worker[v].pc = "running" /\ worker[w].pc = "running"
        => Current(v).j # Current(w).j

(* Every job sent is eventually deleted or in the dead-letter queue, unless*)
(* every worker was told to stop: a poison message blocks nobody.          *)
JobsSettle ==
    \A j \in Jobs :
        msg[j].st = "queued"
        ~> msg[j].st \in {"deleted", "dlq"} \/ \A w \in Workers : stop[w]
=============================================================================
