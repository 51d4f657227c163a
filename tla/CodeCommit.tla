----------------------------- MODULE CodeCommit -----------------------------
(***************************************************************************)
(* The AWS CodeCommit side: SNS delivers events to /webhook/codecommit     *)
(* (server/src/app.ts, handlers/codecommit-webhook.ts), `review --post`    *)
(* reviews a pull request through the adapter                              *)
(* (platform-codecommit/src/adapter.ts), people answer its comments with   *)
(* /feedback, and `recover feedback-history` rebuilds review_history from  *)
(* those answers (cli/src/commands/recover.ts).                            *)
(***************************************************************************)
EXTENDS Naturals, Sequences, FiniteSets

CONSTANTS
    Messages,       \* SNS messages
    Kind,           \* Kind[m]: "control", "open", "sync", "review", "feedback", "other"
    Foreign,        \* messages of a topic that is not on the allowlist
    PRs,            \* pull requests of the repository
    Reviews,        \* runs of `review --post`
    Findings,       \* findings of a review; a number is the fingerprint
    Recoveries,     \* runs of `recover feedback-history`
    Authors,        \* people who reply
    Allowlist,      \* REVIEW_AGENT_FEEDBACK_ALLOWLIST
    Scenes,         \* bound: what one behaviour makes use of
    None

VARIABLES
    left,           \* the member of Scenes in force, counted down
    sns,            \* sns[m]: what SNS knows of the message: "sending", "acked", "gone"
    req,            \* requests under way: [m, n, pc]
    delivered,      \* webhook_deliveries: messages with a row
    enqueued,       \* messages whose job is on the queue
    confirmed,      \* control messages whose SubscribeURL was fetched with success
    lost,           \* history: messages with a request that failed after their row was
                    \* inserted
    refused,        \* history: control messages whose SubscribeURL answered with an error
    pr,             \* pr[p]: [open, rev], rev counts the revisions of the source
    review,         \* review[v]: progress of a run
    posted,         \* comments of the agent: [pr, review, n, rev], n = 0 is the summary
    approval,       \* approval[p]: the agent's approval: [by, rev] or None
    replies,        \* /feedback replies: [id, pr, parent, author, at]
    walk,           \* walk[r]: progress of a recovery
    history         \* rows of review_history: [fact, by, reply]

receiver == <<sns, req, delivered, enqueued, confirmed, lost, refused>>
reviewing == <<pr, review, posted, approval>>
recovering == <<walk, history>>
vars == <<left, receiver, reviewing, replies, recovering>>

NoReview == [pc |-> "new", pr |-> None, read |-> 0, rev |-> 0, event |-> "COMMENT", n |-> 0]
NoWalk == [pc |-> "new", pass |-> 1, page |-> {}, ids |-> {}, todo |-> {}, found |-> {},
           fresh |-> {}, base |-> {}, during |-> {}]

Init ==
    /\ left \in Scenes
    /\ sns = [m \in Messages |-> "sending"] /\ req = {}
    /\ delivered = {} /\ enqueued = {} /\ confirmed = {} /\ lost = {} /\ refused = {}
    /\ pr = [p \in PRs |-> [open |-> TRUE, rev |-> 1]]
    /\ review = [v \in Reviews |-> NoReview] /\ posted = {}
    /\ approval = [p \in PRs |-> None]
    /\ replies = {} /\ walk = [r \in Recoveries |-> NoWalk] /\ history = {}

-----------------------------------------------------------------------------
(* The receiver. SNS (external) posts a message until it is acknowledged,  *)
(* also while an earlier request is still being handled; a 4xx is final.   *)

Post(m) ==
    /\ m \in left.messages /\ sns[m] = "sending" /\ left.posts > 0
    /\ left' = [left EXCEPT !.posts = @ - 1]
    /\ req' = req \cup {[m |-> m, n |-> left.posts, pc |-> "received"]}
    /\ UNCHANGED <<sns, delivered, enqueued, confirmed, lost, refused, reviewing, replies, recovering>>

\* The answer, which may get lost or come too late.
Answer(q, status) ==
    /\ req' = req \ {q}
    /\ \/ sns' = IF sns[q.m] = "sending" THEN [sns EXCEPT ![q.m] = status] ELSE sns
       \/ sns' = sns
Goto(q, pc) == req' = (req \ {q}) \cup {[q EXCEPT !.pc = pc]} /\ UNCHANGED sns

(* verifySnsSignature: the fields, the certificate (cached for a day) and  *)
(* the signature. A certificate that cannot be fetched is a 401 as well.   *)
verifySnsSignature(q) ==
    /\ q.pc = "received"
    /\ Goto(q, "verified") \/ Answer(q, "gone")
    /\ UNCHANGED <<left, delivered, enqueued, confirmed, lost, refused, reviewing, replies, recovering>>

isSubscriptionControl(m) == Kind[m] = "control"

bypassesNone(m) == FALSE   \* mutant: control messages are deduplicated as well
skipIdempotencyForControl(m) == isSubscriptionControl(m)

\* The delivery row, under the message id with the prefix "sns:".
idempotency(q) ==
    /\ q.pc = "verified" /\ ~skipIdempotencyForControl(q.m)
    /\ IF q.m \in delivered
       THEN Answer(q, "acked") /\ UNCHANGED delivered
       ELSE Goto(q, "claimed") /\ delivered' = delivered \cup {q.m}
    /\ UNCHANGED <<left, enqueued, confirmed, lost, refused, reviewing, replies, recovering>>

Handles(q) == q.pc = "claimed" \/ (q.pc = "verified" /\ skipIdempotencyForControl(q.m))
isAllowedTopic(m) == m \notin Foreign

forbidden(q) ==
    /\ Handles(q) /\ ~isAllowedTopic(q.m)
    /\ Answer(q, "gone")
    /\ UNCHANGED <<left, delivered, enqueued, confirmed, lost, refused, reviewing, replies, recovering>>

(* SubscribeURL is fetched; a status other than 2xx is acknowledged as     *)
(* subscription_failed, a fetch that throws is a 500.                      *)
confirmSubscription(q) ==
    /\ Handles(q) /\ isAllowedTopic(q.m) /\ isSubscriptionControl(q.m)
    /\ \/ confirmed' = confirmed \cup {q.m} /\ UNCHANGED refused
       \/ refused' = refused \cup {q.m} /\ UNCHANGED confirmed
    /\ Answer(q, "acked")
    /\ UNCHANGED <<left, delivered, enqueued, lost, reviewing, replies, recovering>>

\* Events that become a job.
buildCodecommitJobMessage(m) == Kind[m] \in {"open", "sync", "review"}

handleNotification(q) ==
    /\ Handles(q) /\ isAllowedTopic(q.m) /\ buildCodecommitJobMessage(q.m)
    /\ enqueued' = enqueued \cup {q.m}
    /\ Answer(q, "acked")
    /\ UNCHANGED <<left, delivered, confirmed, lost, refused, reviewing, replies, recovering>>

\* A /feedback is answered "recorded", "unauthorized" or "unresolved", the
\* rest "ignored" or "noop"; nothing is stored.
handleCodecommitFeedbackCommand(q) ==
    /\ Handles(q) /\ isAllowedTopic(q.m)
    /\ ~isSubscriptionControl(q.m) /\ ~buildCodecommitJobMessage(q.m)
    /\ Answer(q, "acked")
    /\ UNCHANGED <<left, delivered, enqueued, confirmed, lost, refused, reviewing, replies, recovering>>

\* The queue, the fetch or the process fails: a 500 or no answer at all.
Fail(q) ==
    /\ req' = req \ {q}
    /\ lost' = IF q.pc = "claimed" THEN lost \cup {q.m} ELSE lost
    /\ UNCHANGED <<left, sns, delivered, enqueued, confirmed, refused, reviewing, replies, recovering>>

-----------------------------------------------------------------------------
(* The pull requests (external): a push makes a new revision, to which no  *)
(* approval carries over; a closed pull request stays closed.              *)

Push(p) ==
    /\ pr[p].open /\ left.pushes > 0
    /\ left' = [left EXCEPT !.pushes = @ - 1]
    /\ pr' = [pr EXCEPT ![p].rev = @ + 1]
    /\ approval' = [approval EXCEPT ![p] = None]
    /\ UNCHANGED <<receiver, review, posted, replies, recovering>>

Close(p) ==
    /\ pr[p].open /\ left.closes > 0
    /\ left' = [left EXCEPT !.closes = @ - 1]
    /\ pr' = [pr EXCEPT ![p].open = FALSE]
    /\ UNCHANGED <<receiver, review, posted, approval, replies, recovering>>

-----------------------------------------------------------------------------
(* review --post.                                                          *)

Progress(v, r) ==
    /\ review' = [review EXCEPT ![v] = r]
    /\ UNCHANGED <<left, receiver, pr, replies, recovering>>

\* getPR and decideSkip; a run without credentials ends before.
getPR(v, p) ==
    /\ review[v].pc = "new" /\ v \in left.reviews
    /\ \E pc \in {"fetched", "done"} : Progress(v, [NoReview EXCEPT !.pc = pc, !.pr = p])
    /\ UNCHANGED <<posted, approval>>

\* getDiff fetches the pull request again and diffs up to its head.
getDiff(v) ==
    /\ review[v].pc = "fetched"
    /\ Progress(v, [review[v] EXCEPT !.pc = "diffed", !.read = pr[review[v].pr].rev])
    /\ UNCHANGED <<posted, approval>>

\* runReview, which decides the event, and the operator's confirmation.
runReview(v) ==
    /\ review[v].pc = "diffed"
    /\ \/ \E e \in {"COMMENT", "APPROVE", "REQUEST_CHANGES"} :
             Progress(v, [review[v] EXCEPT !.pc = "confirmed", !.event = e])
       \/ Progress(v, [review[v] EXCEPT !.pc = "done"])
    /\ UNCHANGED <<posted, approval>>

\* postReview fetches the pull request once for all that it posts ...
postReview(v) ==
    /\ review[v].pc = "confirmed"
    /\ Progress(v, [review[v] EXCEPT !.pc = "posting", !.rev = pr[review[v].pr].rev])
    /\ UNCHANGED <<posted, approval>>

\* ... the summary and then each finding ...
postComment(v) ==
    /\ review[v].pc = "posting" /\ review[v].n <= Cardinality(Findings)
    /\ posted' = posted \cup {[pr |-> review[v].pr, review |-> v, n |-> review[v].n,
                               rev |-> review[v].rev]}
    /\ Progress(v, [review[v] EXCEPT !.n = @ + 1])
    /\ UNCHANGED approval

\* ... and, in managed mode, the approval state. CodeCommit refuses that of
\* a revision that is not the current one; a refusal is logged.
approvalRevisionNow(v) == pr[review[v].pr].rev   \* mutant: the pull request is fetched again
approvalRevision(v) == review[v].rev

applyApprovalState(v) ==
    LET p == review[v].pr IN
    /\ review[v].pc = "posting" /\ review[v].n > Cardinality(Findings)
    /\ \/ /\ review[v].event # "COMMENT"
          /\ pr[p].open /\ approvalRevision(v) = pr[p].rev
          /\ approval' = [approval EXCEPT ![p] =
               IF review[v].event = "APPROVE" THEN [by |-> v, rev |-> approvalRevision(v)] ELSE None]
       \/ UNCHANGED approval
    /\ Progress(v, [review[v] EXCEPT !.pc = "done"])
    /\ UNCHANGED posted

\* A request of the run fails: what was posted before stays.
Abort(v) ==
    /\ review[v].pc \notin {"new", "done"}
    /\ Progress(v, [review[v] EXCEPT !.pc = "done"])
    /\ UNCHANGED <<posted, approval>>

(* A /feedback reply to a comment of the agent. The receiver answers the   *)
(* event with "recorded" and stores nothing.                               *)
Reply(c, a) ==
    /\ left.replies > 0
    /\ left' = [left EXCEPT !.replies = @ - 1]
    /\ \E t \in {0, 1} :
         replies' = replies \cup {[id |-> left.replies, pr |-> c.pr, parent |-> c.n,
                                   author |-> a, at |-> t]}
    /\ UNCHANGED <<receiver, reviewing, recovering>>

-----------------------------------------------------------------------------
(* recover feedback-history --platform codecommit.                         *)

Step(r, w) ==
    /\ walk' = [walk EXCEPT ![r] = w]
    /\ UNCHANGED <<left, receiver, reviewing, replies>>

Running == {r \in Recoveries : walk[r].pc \notin {"new", "done", "failed"}}

recoverFeedbackHistory(r) ==
    /\ walk[r].pc = "new" /\ r \in left.recoveries
    /\ walk' = [s \in Recoveries |->
                  IF s = r THEN [NoWalk EXCEPT !.pc = "listing", !.page = PRs, !.base = replies,
                                               !.during = Running]
                  ELSE walk[s]]
    /\ UNCHANGED <<left, receiver, reviewing, replies, history>>

closedFirst == <<"CLOSED", "OPEN">>   \* mutant
statuses == <<"OPEN", "CLOSED">>

\* One page of the list of pull requests with the pass's status.
listCodeCommitPullRequestIds(r) ==
    LET w == walk[r] IN
    /\ w.pc = "listing"
    /\ \/ \E p \in w.page :
             Step(r, [w EXCEPT !.page = @ \ {p},
                       !.ids = IF pr[p].open = (statuses[w.pass] = "OPEN") THEN @ \cup {p} ELSE @])
       \/ w.page = {} /\ w.pass = 1 /\ Step(r, [w EXCEPT !.pass = 2, !.page = PRs])
       \/ w.page = {} /\ w.pass = 2 /\ Step(r, [w EXCEPT !.pc = "walking", !.todo = w.ids])
    /\ UNCHANGED history

\* The reply's parent carries a fingerprint, its author is on the allowlist.
checkCodeCommitFeedbackAuthz(a) == a \in Allowlist
resolves(y) == y.parent # 0 /\ checkCodeCommitFeedbackAuthz(y.author)
factText(y) == <<y.parent, y.at>>   \* fingerprint and time, not the reply

scrapeCodeCommitFeedback(r) ==
    LET w == walk[r] IN
    /\ w.pc = "walking"
    /\ \/ \E p \in w.todo :
             Step(r, [w EXCEPT !.todo = @ \ {p},
                       !.found = @ \cup {y \in replies : y.pr = p /\ resolves(y)}])
       \/ w.todo = {} /\ Step(r, [w EXCEPT !.pc = "scraped"])
    /\ UNCHANGED history

\* The facts that the repository's rows do not have yet ...
selectExisting(r) ==
    LET w == walk[r]
        existing == {h.fact : h \in history}
        fresh == {y \in w.found : factText(y) \notin existing}
    IN  /\ w.pc = "scraped"
        /\ Step(r, [w EXCEPT !.pc = IF fresh = {} THEN "done" ELSE "inserting", !.fresh = fresh])
        /\ UNCHANGED history

\* ... are inserted in one statement.
insertFresh(r) ==
    LET w == walk[r] IN
    /\ w.pc = "inserting"
    /\ history' = history \cup {[fact |-> factText(y), by |-> r, reply |-> y.id] : y \in w.fresh}
    /\ Step(r, [w EXCEPT !.pc = "done"])

RecoveryFails(r) ==   \* a call of CodeCommit or of the database throws
    /\ r \in Running
    /\ Step(r, [walk[r] EXCEPT !.pc = "failed"])
    /\ UNCHANGED history

-----------------------------------------------------------------------------
Next ==
    \/ \E m \in Messages : Post(m)
    \/ \E q \in req : \/ verifySnsSignature(q) \/ idempotency(q) \/ forbidden(q)
                      \/ confirmSubscription(q) \/ handleNotification(q)
                      \/ handleCodecommitFeedbackCommand(q) \/ Fail(q)
    \/ \E p \in PRs : Push(p) \/ Close(p) \/ \E v \in Reviews : getPR(v, p)
    \/ \E v \in Reviews : \/ getDiff(v) \/ runReview(v) \/ postReview(v) \/ postComment(v)
                          \/ applyApprovalState(v) \/ Abort(v)
    \/ \E c \in posted, a \in Authors : Reply(c, a)
    \/ \E r \in Recoveries : \/ recoverFeedbackHistory(r) \/ listCodeCommitPullRequestIds(r)
                             \/ scrapeCodeCommitFeedback(r) \/ selectExisting(r)
                             \/ insertFresh(r) \/ RecoveryFails(r)

Spec == Init /\ [][Next]_vars

-----------------------------------------------------------------------------
(* A message that SNS was told is handled has had its effect. A control    *)
(* message has confirmed its subscription, however many requests failed    *)
(* before, unless the confirmation itself was answered with an error. A    *)
(* notification has its job on the queue, unless one of its requests       *)
(* failed after it had claimed the message or is still at work on it. What *)
(* is excused here is lost: SNS does not send it again.                    *)
AckedWasHandled ==
    \A m \in Messages \ Foreign : sns[m] = "acked" =>
        IF isSubscriptionControl(m) THEN m \in confirmed \cup refused
        ELSE \/ m \in enqueued \cup lost \/ ~buildCodecommitJobMessage(m)
             \/ \E q \in req : q.m = m /\ q.pc = "claimed"

(* Without that excuse: an event for which docs/deployment/aws.md promises *)
(* a job has it, once SNS was told that the event is handled. The row is   *)
(* inserted before the job is enqueued and stays when that fails.          *)
EventsEnqueue ==
    \A m \in Messages \ Foreign :
        sns[m] = "acked" /\ buildCodecommitJobMessage(m)
        => m \in enqueued \/ \E q \in req : q.m = m /\ q.pc = "claimed"

(* Whoever sees the agent's approval sees the review it rests on: all of   *)
(* the review's comments are there, on the approved revision, which is the *)
(* current one, and the diff the review read was not of a later revision.  *)
(* An approved revision that nobody reviewed was pushed between getDiff    *)
(* and postReview.                                                         *)
ApprovalBacked ==
    \A p \in PRs : approval[p] # None =>
        LET v == approval[p].by
            own == {c \in posted : c.review = v}
        IN  /\ approval[p].rev = pr[p].rev
            /\ {c.n : c \in own} = {0} \cup Findings
            /\ \A c \in own : c.pr = p /\ c.rev = approval[p].rev
            /\ review[v].read <= approval[p].rev

(* A recovery that ends without an error has restored every authorised     *)
(* reply that was there when it began, those on pull requests that were    *)
(* closed while it listed them included; and a fact has two rows only if   *)
(* two replies of one moment made it, or two recoveries overlapped.        *)
FeedbackRestored ==
    /\ \A r \in Recoveries : walk[r].pc = "done" =>
         \A y \in walk[r].base : resolves(y) => \E h \in history : h.fact = factText(y)
    /\ \A h, k \in history : h # k /\ h.fact = k.fact =>
         \/ h.by = k.by /\ h.reply # k.reply
         \/ h.by \in walk[k.by].during \/ k.by \in walk[h.by].during
=============================================================================
