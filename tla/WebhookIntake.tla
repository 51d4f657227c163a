---------------------------- MODULE WebhookIntake ----------------------------
(***************************************************************************)
(* The webhook receiver of the server for one pull request: the            *)
(* idempotency middleware (server/src/middleware/idempotency.ts), the      *)
(* GitHub event handler (server/src/handlers/webhook.ts), the              *)
(* webhook_deliveries sweep (server/src/worker.ts) and the review_state    *)
(* row the handler reads and writes.                                       *)
(*                                                                         *)
(* The steps of a request are separated by the handler's awaits, so any    *)
(* number of requests, the sweep and the worker's write of review_state    *)
(* interleave between them. A request may die at any of them: the handler  *)
(* throws (HTTP 500) or its process is killed.                             *)
(***************************************************************************)
EXTENDS Integers, FiniteSets

CONSTANTS
    Deliveries,     \* X-GitHub-Delivery ids
    Requests,       \* concurrent HTTP requests
    Kinds,          \* the events GitHub may send, a subset of EventKinds
    Reviewed,       \* the PR had a review_state row before the first event
    DbErrors,       \* reads of review_state may fail (the handler fails open)
    Debounce,       \* debounceMs
    Retention,      \* retentionDays
    MaxTime,        \* bound on the wall clock
    MaxPosts        \* bound on the posts of one delivery (1 + redeliveries)

EventKinds == {"push", "ready_for_review", "review", "skip", "resume", "ignored"}

ASSUME DeliveriesAssumption == Deliveries # {}
ASSUME KindsAssumption == Kinds \subseteq EventKinds /\ Kinds # {}
ASSUME FlagsAssumption == Reviewed \in BOOLEAN /\ DbErrors \in BOOLEAN
ASSUME BoundsAssumption ==
    Debounce \in Nat /\ Retention \in Nat /\ MaxTime \in Nat /\ MaxPosts \in Nat

VARIABLES
    clock,          \* Date.now() and Postgres now()
    kind,           \* kind[d]: the event delivery d carries
    posts,          \* posts[d]: how often d was posted
    row,            \* row[d]: received_at of d's webhook_deliveries row, or NoRow
    req,            \* req[q]: [pc, d, at, skip, seen] of request q; at is its
                    \* claim time, skip and seen are history (see Fresh)
    review,         \* the PR's review_state row: [exists, updatedAt, paused]
    queue,          \* job messages enqueued so far: [n, d, at, skip, seen]
    lastDone,       \* history: when the worker last wrote review_state, or NoRow
    skipped,        \* history: /skip acknowledged that found a row, no /resume since
    answer,         \* history: answer[d], the 200 answers d has received
    failed          \* history: the deliveries with a request that failed

vars == <<clock, kind, posts, row, req, review, queue, lastDone, skipped, answer, failed>>

NoRow == -1
Time == 0..MaxTime

\* A request: skip is `skipped` when it was claimed (cleared by a /resume),
\* seen is the finished review that the row it was routed by shows.
Fresh(pc, d, at, skip) == [pc |-> pc, d |-> d, at |-> at, skip |-> skip, seen |-> NoRow]
Idle == Fresh("idle", CHOOSE d \in Deliveries : TRUE, 0, FALSE)

Init ==
    /\ clock = 0
    /\ kind \in [Deliveries -> Kinds]
    /\ posts = [d \in Deliveries |-> 0]
    /\ row = [d \in Deliveries |-> NoRow]
    /\ req = [q \in Requests |-> Idle]
    /\ review = [exists |-> Reviewed, updatedAt |-> -Debounce, paused |-> FALSE]
    /\ queue = {}
    /\ lastDone = NoRow
    /\ skipped = FALSE
    /\ answer = [d \in Deliveries |-> {}]
    /\ failed = {}

Tick ==
    /\ clock < MaxTime
    /\ clock' = clock + 1
    /\ UNCHANGED <<kind, posts, row, req, review, queue, lastDone, skipped, answer, failed>>

(* GitHub posts a delivery, or posts it again: a retry, a manual           *)
(* redelivery, or a duplicate that arrives while the first is in flight.   *)
Post(q, d) ==
    /\ req[q].pc = "idle"
    /\ posts[d] < MaxPosts
    /\ posts' = [posts EXCEPT ![d] = @ + 1]
    /\ req' = [req EXCEPT ![q] = Fresh("arrived", d, 0, FALSE)]
    /\ UNCHANGED <<clock, kind, row, review, queue, lastDone, skipped, answer, failed>>

Respond(q, what) ==
    /\ req' = [req EXCEPT ![q] = Idle]
    /\ answer' = [answer EXCEPT ![req[q].d] = @ \cup {what}]

(* idempotency: INSERT ... ON CONFLICT DO NOTHING RETURNING. The handler   *)
(* reads its clock (`now`) right after the insert.                         *)
Claim(q) ==
    LET d == req[q].d IN
    /\ req[q].pc = "arrived"
    /\ IF row[d] = NoRow
       THEN /\ row' = [row EXCEPT ![d] = clock]
            /\ req' = [req EXCEPT ![q] = Fresh("claimed", d, clock, skipped)]
            /\ UNCHANGED answer
       ELSE /\ Respond(q, "deduped")
            /\ UNCHANGED row
    /\ UNCHANGED <<clock, kind, posts, review, queue, lastDone, skipped, failed>>

-----------------------------------------------------------------------------
(* handleWebhook, up to the enqueue.                                       *)

\* What readReviewStateRow may return; a read error counts as "no row".
ReadableRows == {review} \cup (IF DbErrors THEN {[review EXCEPT !.exists = FALSE]} ELSE {})

readPausedState(r) == r.exists /\ r.paused

DebounceOff(r, now) == FALSE   \* mutant: /review is never debounced

checkDebounce(r, now) == r.exists /\ now - r.updatedAt < Debounce

SuppressedNoPause(q, r) ==   \* mutant: the pause check is left out
    \/ kind[req[q].d] = "ignored"
    \/ kind[req[q].d] = "review" /\ checkDebounce(r, req[q].at)

SuppressedReady(q, r) ==   \* mutant: conversions are debounced like /review
    \/ kind[req[q].d] = "ignored"
    \/ kind[req[q].d] = "push" /\ readPausedState(r)
    \/ kind[req[q].d] \in {"review", "ready_for_review"} /\ checkDebounce(r, req[q].at)

\* The early returns that answer 200 without a job. "ignored" stands for the
\* payload-only ones: drafts, the [skip review] marker, skip_labels,
\* unauthorized commands, missing fields, events that need no job.
Suppressed(q, r) ==
    \/ kind[req[q].d] = "ignored"
    \/ kind[req[q].d] = "push" /\ readPausedState(r)
    \/ kind[req[q].d] = "review" /\ checkDebounce(r, req[q].at)

\* A row with a time before lastDone was written by a slow command.
Shown(r) == IF r = review /\ r.updatedAt >= lastDone THEN lastDone ELSE NoRow

Route(q) ==
    /\ req[q].pc = "claimed"
    /\ kind[req[q].d] \notin {"skip", "resume"}
    /\ \E r \in ReadableRows :
         IF Suppressed(q, r)
         THEN Respond(q, "ignored")
         ELSE /\ req' = [req EXCEPT ![q].pc = "cleared", ![q].seen = Shown(r)]
              /\ UNCHANGED answer
    /\ UNCHANGED <<clock, kind, posts, row, review, queue, lastDone, skipped, failed>>

(* /skip and /resume: an UPDATE, which touches no row when the PR has none.*)
(* The history of resumed requests is cleared with it.                     *)
SetPaused(q, to) ==
    /\ req[q].pc = "claimed"
    /\ kind[req[q].d] = IF to THEN "skip" ELSE "resume"
    /\ review' = IF review.exists
                 THEN [review EXCEPT !.paused = to, !.updatedAt = req[q].at]
                 ELSE review
    /\ skipped' = (to /\ review.exists)
    /\ req' = [p \in Requests |->
                IF p = q THEN Idle ELSE [req[p] EXCEPT !.skip = @ /\ to]]
    /\ answer' = [answer EXCEPT ![req[q].d] = @ \cup {"done"}]
    /\ UNCHANGED <<clock, kind, posts, row, queue, lastDone, failed>>

(* queue.enqueue(buildJobMessage(...)), then 200.                          *)
Enqueue(q) ==
    /\ req[q].pc = "cleared"
    /\ queue' = queue \cup {[n |-> Cardinality(queue) + 1, d |-> req[q].d,
                             at |-> req[q].at, skip |-> req[q].skip,
                             seen |-> req[q].seen]}
    /\ Respond(q, "enqueued")
    /\ UNCHANGED <<clock, kind, posts, row, review, lastDone, skipped, failed>>

(* The insert, a command's UPDATE or the SQS call throws, or the process   *)
(* dies: no 200 is sent, and what was committed stays.                     *)
Fail(q) ==
    /\ req[q].pc # "idle"
    /\ req' = [req EXCEPT ![q] = Idle]
    /\ failed' = failed \cup {req[q].d}
    /\ UNCHANGED <<clock, kind, posts, row, review, queue, lastDone, skipped, answer>>

-----------------------------------------------------------------------------
ExpiredNow(d) == row[d] # NoRow   \* mutant: the cutoff is ignored

Expired(d) == row[d] # NoRow /\ row[d] < clock - Retention

(* startIdempotencyCleanup's tickOnce: DELETE ... WHERE received_at < cutoff*)
Sweep ==
    /\ \E d \in Deliveries : Expired(d)
    /\ row' = [d \in Deliveries |-> IF Expired(d) THEN NoRow ELSE row[d]]
    /\ UNCHANGED <<clock, kind, posts, req, review, queue, lastDone, skipped, answer, failed>>

(* The worker finishes a review and upserts review_state; `paused` is left *)
(* alone on conflict and defaults to false on insert.                      *)
ReviewDone ==
    /\ queue # {}
    /\ review' = [exists |-> TRUE, updatedAt |-> clock, paused |-> review.exists /\ review.paused]
    /\ lastDone' = clock
    /\ UNCHANGED <<clock, kind, posts, row, req, queue, skipped, answer, failed>>

Step(q) ==
    \/ \E d \in Deliveries : Post(q, d)
    \/ Claim(q)
    \/ Route(q)
    \/ \E to \in BOOLEAN : SetPaused(q, to)
    \/ Enqueue(q)
    \/ Fail(q)

Next == Tick \/ Sweep \/ ReviewDone \/ \E q \in Requests : Step(q)

Spec == Init /\ [][Next]_vars

(* Node runs every started request to its end unless it fails.             *)
Fairness ==
    \A q \in Requests :
        WF_vars(Claim(q) \/ Route(q) \/ Enqueue(q) \/ \E to \in BOOLEAN : SetPaused(q, to))

FairSpec == Spec /\ Fairness

-----------------------------------------------------------------------------
(* The variables hold what the columns and locals of the code can hold.    *)
TypeOK ==
    /\ clock \in Time
    /\ kind \in [Deliveries -> Kinds]
    /\ posts \in [Deliveries -> 0..MaxPosts]
    /\ row \in [Deliveries -> Time \cup {NoRow}]
    /\ req \in [Requests -> [pc : {"idle", "arrived", "claimed", "cleared"},
                             d : Deliveries, at : Time, skip : BOOLEAN, seen : Time \cup {NoRow}]]
    /\ review \in [exists : BOOLEAN, updatedAt : -Debounce..MaxTime, paused : BOOLEAN]
    /\ queue \subseteq [n : Nat, d : Deliveries, at : Time, skip : BOOLEAN,
                    seen : Time \cup {NoRow}]
    /\ lastDone \in Time \cup {NoRow}
    /\ skipped \in BOOLEAN
    /\ answer \in [Deliveries -> SUBSET {"deduped", "ignored", "done", "enqueued"}]
    /\ failed \subseteq Deliveries

(* However often and however concurrently one delivery is posted, two jobs *)
(* of the same delivery are always claimed more than the retention of      *)
(* webhook_deliveries apart: inside the retention a delivery id yields at  *)
(* most one job, sweeps and crashes included.                              *)
DedupWithinRetention ==
    \A m, k \in queue :
        m.d = k.d /\ m # k => m.at - k.at > Retention \/ k.at - m.at > Retention

(* After a /skip was acknowledged and until a /resume is, no push that     *)
(* arrives later is enqueued, reviews finishing meanwhile or not; the only *)
(* /skip without effect is one on a pull request never reviewed before,    *)
(* whose UPDATE finds no row.                                              *)
SkipSuppressesPushes == \A m \in queue : kind[m.d] = "push" => ~m.skip

(* The handler debounces /review against finished reviews: unless the read *)
(* of review_state failed, or a slow /skip or /resume has put the clock    *)
(* reading it began with over that of the worker, a /review claimed less   *)
(* than the window after the worker's last write is dropped, whatever      *)
(* happens between its claim, its read and its enqueue.                    *)
DebouncesAfterReview ==
    \A m \in queue :
        kind[m.d] = "review" /\ m.seen # NoRow => m.at - m.seen >= Debounce

(* docs/configuration/trigger-control.md promises it without the second    *)
(* exception: what counts is "the last review update" of the pull request. *)
(* A /skip or /resume writes the clock reading of before its permission    *)
(* check, so a review that finished during the check is forgotten.         *)
DebouncesCommands ==
    [][\A q \in Requests :
         /\ req[q].pc = "claimed" /\ kind[req[q].d] = "review" /\ req'[q].pc = "cleared"
         /\ lastDone # NoRow
         => req[q].at - lastDone >= Debounce]_vars

(* docs/configuration/trigger-control.md says that /skip sets the paused   *)
(* flag of the pull request, which suppresses its pushes: with no /resume  *)
(* the flag is set once a /skip was acknowledged. An UPDATE does not do    *)
(* that for a pull request that has no row yet.                            *)
SkipPauses ==
    \A d \in Deliveries :
        /\ kind[d] = "skip" /\ "done" \in answer[d]
        /\ \A e \in Deliveries : kind[e] # "resume"
        => review.paused

(* A redelivery is answered {deduped: true} only while an earlier request  *)
(* of that delivery is running or after one was answered.                  *)
DedupedWasHandled ==
    \A d \in Deliveries :
        answer[d] = {"deduped"} => \E q \in Requests : req[q].d = d /\ req[q].pc # "idle"

(* A posted draft-to-ready conversion gets its job unless one of its       *)
(* requests failed, also when it is posted several times at once.          *)
ConversionsEnqueued ==
    \A d \in Deliveries :
        posts[d] > 0 /\ kind[d] = "ready_for_review"
        ~> (\E m \in queue : m.d = d) \/ d \in failed
=============================================================================
