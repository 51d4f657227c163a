------------------------------ MODULE ReviewRun ------------------------------
(***************************************************************************)
(* Reviews of one pull request in Action mode: runAction and postOrUpdate  *)
(* (action/src/run.ts), the retries (action/src/retry.ts,                  *)
(* core/src/retry.ts), the diff strategy (core/src/incremental.ts), the    *)
(* dedup and the state builder of the runner, and the hidden state comment *)
(* of the GitHub adapter (platform-github/src/adapter.ts).                 *)
(*                                                                         *)
(* Every call to GitHub is a step of its own: workflow runs of several     *)
(* pushes overlap, and between any two calls the PR may be pushed to, leave*)
(* draft state, or be commented on by another review bot. A                *)
(* write may fail without effect, fail after it took effect (a lost        *)
(* answer), or fail for good.                                              *)
(***************************************************************************)
EXTENDS Integers, Sequences, FiniteSets

CONSTANTS
    Runs,          \* workflow runs
    Faults,        \* GitHub calls may fail, runs may be cancelled
    Aborts,        \* the model's output may fail validation twice
    HeadRefs,      \* what `HEAD` in a compare call may name: the PR's head, or
                   \* the head of the default branch (resolved by GitHub)
    Drafts,        \* config: reviews.auto_review.drafts
    Defers,        \* config: coordination.other_bots is defer_if_present
    Attempts,      \* state-write-retries + 1
    MaxCommits,    \* bound on the commits of one line of history
    MaxLines       \* bound on the lines of history (1 + force pushes)

ASSUME FlagsAssumption ==
    /\ {Faults, Aborts, Drafts, Defers} \subseteq BOOLEAN
    /\ HeadRefs \subseteq {"pr", "default"} /\ HeadRefs # {}
ASSUME BoundsAssumption ==
    Attempts \in Nat \ {0} /\ MaxCommits \in Nat \ {0} /\ MaxLines \in Nat \ {0}

VARIABLES
    head,          \* the PR's head: commit n of history line e
    draft,         \* the PR is a draft
    others,        \* another review bot has commented on a line of the PR
    comments,      \* issue comments holding a state, oldest first
    run,           \* run[r]: the locals of workflow run r
    posted,        \* history: posted[f], how often finding f was posted
    lost,          \* history: lost[f], posts of f that no state write followed
    covered,       \* history: commits of diffs whose review was posted
    missed,        \* history: commits of diffs whose review was aborted, or
                   \* that a compare with the default branch left out
    overlapped     \* history: two runs were active at once

vars == <<head, draft, others, comments, run, posted, lost, covered, missed, overlapped>>

\* Commit n of history line e. A force push starts a new line; a commit's
\* finding keeps its fingerprint (path, line, rule) when it is rewritten.
Commit == [e : 1..MaxLines, n : 1..MaxCommits]
Fingerprints == 1..MaxCommits
UpTo(c) == {d \in Commit : d.e = c.e /\ d.n <= c.n}

State == [sha : Commit, fps : SUBSET Fingerprints]

Fresh == [pc |-> "queued", pr |-> [e |-> 1, n |-> 1], prev |-> {}, diff |-> {},
          kept |-> {}, left |-> Attempts, sent |-> FALSE, slot |-> 0]

End(pc) == [Fresh EXCEPT !.pc = pc]   \* the process exits, its locals are gone

\* A new PR, or one whose first commit was reviewed by an earlier run.
Init ==
    /\ head = [e |-> 1, n |-> 1]
    /\ run = [r \in Runs |-> Fresh]
    /\ lost = [f \in Fingerprints |-> 0]
    /\ missed = {}
    /\ overlapped = FALSE
    /\ draft \in BOOLEAN
    /\ others = FALSE
    /\ \/ /\ comments = <<>>
          /\ posted = [f \in Fingerprints |-> 0]
          /\ covered = {}
       \/ \E fps \in SUBSET {1} :
            /\ comments = <<[sha |-> head, fps |-> fps]>>
            /\ posted = [f \in Fingerprints |-> IF f \in fps THEN 1 ELSE 0]
            /\ covered = {head}

(* The author pushes a commit, or rewrites the branch.                     *)
Push ==
    /\ head.n < MaxCommits
    /\ head' = [head EXCEPT !.n = @ + 1]
    /\ UNCHANGED <<draft, others, comments, run, posted, lost, covered, missed, overlapped>>

ForcePush ==
    /\ head.e < MaxLines
    /\ \E n \in 1..MaxCommits : head' = [e |-> head.e + 1, n |-> n]
    /\ UNCHANGED <<draft, others, comments, run, posted, lost, covered, missed, overlapped>>

(* The author marks the PR as ready; another bot reviews it.               *)
MarkReady ==
    /\ draft
    /\ draft' = FALSE
    /\ UNCHANGED <<head, others, comments, run, posted, lost, covered, missed, overlapped>>

OtherBot ==
    /\ ~others
    /\ others' = TRUE
    /\ UNCHANGED <<head, draft, comments, run, posted, lost, covered, missed, overlapped>>

-----------------------------------------------------------------------------
Ended(r) == run[r].pc \in {"done", "deferred", "failed"}
Active(r) == run[r].pc # "queued" /\ ~Ended(r)

\* The PR as GitHub shows it; the texts that go into the prompt are left out.
getPR == [sha |-> head, draft |-> draft]

\* An author in ignore_authors ends every run of the PR here.
decideSkip(pr) == pr.draft /\ ~Drafts

GetPR(r) ==
    /\ run[r].pc = "queued"
    /\ run' = [run EXCEPT ![r] = IF decideSkip(getPR) THEN End("done")
                                ELSE [Fresh EXCEPT !.pc = "opened", !.pr = getPR.sha]]
    /\ overlapped' = (overlapped \/ \E q \in Runs : Active(q))
    /\ UNCHANGED <<head, draft, others, comments, posted, lost, covered, missed>>

\* Bots that have commented on a line of the PR; a bot that only writes
\* summaries is not among them.
getExistingComments == IF others THEN {"other-bot"} ELSE {"human"}

decideCoordination(authors) == IF Defers /\ "other-bot" \in authors THEN "defer" ELSE "proceed"

(* A run that defers posts a notice, outside of any retry, and ends.       *)
Coordinate(r) ==
    /\ run[r].pc = "opened"
    /\ run' = [run EXCEPT ![r] = IF decideCoordination(getExistingComments) = "defer"
                                THEN End("deferred") ELSE [run[r] EXCEPT !.pc = "clear"]]
    /\ UNCHANGED <<head, draft, others, comments, posted, lost, covered, missed, overlapped>>

\* findStateComment: the last comment that holds a state, if there is one.
StateComment == {comments[i] : i \in {Len(comments)} \ {0}}

GetState(r) ==
    /\ run[r].pc = "clear"
    /\ run' = [run EXCEPT ![r].pc = "loaded", ![r].prev = StateComment]
    /\ UNCHANGED <<head, draft, others, comments, posted, lost, covered, missed, overlapped>>

\* Incremental when the merge-base is unchanged and the last reviewed commit
\* is an ancestor of the head, which on one line of history means an older one.
Reachable(c, pr) == c.e = pr.e /\ c.n <= pr.n

\* The results computeDiffStrategy may give; a git failure gives 'full'.
Incremental(prev, pr) ==
    {FALSE} \cup {\E s \in prev : Reachable(s.sha, pr)}

\* getDiff reads the PR as it is now: all of it, or what `since...HEAD` adds.
Unseen(inc, prev) == UpTo(head) \ IF inc THEN UNION {UpTo(s.sha) : s \in prev} ELSE {}
getDiff(inc, prev, ref) == IF inc /\ ref = "default" THEN {} ELSE Unseen(inc, prev)

dedupComments(found, prev) == found \ UNION {s.fps : s \in prev}

(* computeDiffStrategy, getDiff and runReview. The model reports any of    *)
(* the findings of the diff; output that fails validation twice collapses  *)
(* to an empty review, which is posted like any other.                     *)
Review(r) ==
    /\ run[r].pc = "loaded"
    /\ \E inc \in Incremental(run[r].prev, run[r].pr), ref \in HeadRefs :
         LET diff == getDiff(inc, run[r].prev, ref) IN
         \/ /\ missed' = missed \cup (Unseen(inc, run[r].prev) \ diff)
            /\ \E found \in SUBSET {c.n : c \in diff} :
                 run' = [run EXCEPT ![r].pc = "posting", ![r].left = Attempts, ![r].diff = diff,
                                    ![r].kept = dedupComments(found, run[r].prev)]
         \/ /\ Aborts
            /\ run' = [run EXCEPT ![r].pc = "posting", ![r].left = Attempts]
            /\ missed' = missed \cup Unseen(inc, run[r].prev)
    /\ UNCHANGED <<head, draft, others, comments, posted, lost, covered, overlapped>>

-----------------------------------------------------------------------------
(* postOrUpdate: postReview, then upsertStateComment, each under withRetry.*)

Bump(count, S) == [f \in Fingerprints |-> count[f] + IF f \in S THEN 1 ELSE 0]

RetrySwallow(r) ==   \* mutant: the last error is swallowed and the run goes on
    IF run[r].left > 1 THEN [run[r] EXCEPT !.left = @ - 1]
    ELSE [run[r] EXCEPT !.pc = "finding", !.left = Attempts]

\* After a failed attempt: again, or the run fails when none is left.
Retried(r) ==
    IF run[r].left > 1 THEN [run[r] EXCEPT !.left = @ - 1]
    ELSE End("failed")

\* GitHub creates a review with the kept findings as its comments.
postReview(r) ==
    /\ posted' = Bump(posted, run[r].kept)
    /\ covered' = covered \cup run[r].diff

Post(r) ==
    /\ run[r].pc = "posting"
    /\ postReview(r)
    /\ run' = [run EXCEPT ![r].pc = "finding", ![r].left = Attempts, ![r].sent = TRUE]
    /\ UNCHANGED <<head, draft, others, comments, lost, missed, overlapped>>

(* A retriable error, before or after GitHub created the review.           *)
PostFails(r) ==
    /\ Faults
    /\ run[r].pc = "posting"
    /\ \/ /\ postReview(r)
          /\ lost' = Bump(lost, run[r].kept)
       \/ UNCHANGED <<posted, lost, covered>>
    /\ run' = [run EXCEPT ![r] = Retried(r)]
    /\ UNCHANGED <<head, draft, others, comments, missed, overlapped>>

FpsNew(r) == run[r].kept   \* mutant: the new fingerprints replace the old ones

Fps(r) == run[r].kept \cup UNION {s.fps : s \in run[r].prev}

buildReviewState(r) == [sha |-> run[r].pr, fps |-> Fps(r)]

(* upsertStateComment looks the comment up first ...                       *)
FindState(r) ==
    /\ run[r].pc = "finding"
    /\ run' = [run EXCEPT ![r].pc = "writing", ![r].slot = Len(comments)]
    /\ UNCHANGED <<head, draft, others, comments, posted, lost, covered, missed, overlapped>>

Written(r) ==
    IF run[r].slot = 0 THEN Append(comments, buildReviewState(r))
    ELSE [comments EXCEPT ![run[r].slot] = buildReviewState(r)]

(* ... and updates it, or creates one.                                     *)
WriteState(r) ==
    /\ run[r].pc = "writing"
    /\ comments' = Written(r)
    /\ run' = [run EXCEPT ![r] = End("done")]
    /\ UNCHANGED <<head, draft, others, posted, lost, covered, missed, overlapped>>

WriteFails(r) ==
    /\ Faults
    /\ run[r].pc \in {"finding", "writing"}
    /\ comments' \in {comments} \cup IF run[r].pc = "writing" THEN {Written(r)} ELSE {}
    /\ run' = [run EXCEPT ![r] = [Retried(r) EXCEPT !.pc = IF @ = "failed" THEN @ ELSE "finding"]]
    /\ lost' = IF run'[r].pc = "failed" THEN Bump(lost, run[r].kept) ELSE lost
    /\ UNCHANGED <<head, draft, others, posted, covered, missed, overlapped>>

(* A non-retriable error in any call, a reviewer error or a cancelled run. *)
Fail(r) ==
    /\ Faults
    /\ Active(r)
    /\ run' = [run EXCEPT ![r] = End("failed")]
    /\ lost' = IF run[r].sent THEN Bump(lost, run[r].kept) ELSE lost
    /\ UNCHANGED <<head, draft, others, comments, posted, covered, missed, overlapped>>

-----------------------------------------------------------------------------
Proceed(r) ==
    \/ Coordinate(r)
    \/ GetState(r)
    \/ Review(r)
    \/ Post(r) \/ PostFails(r)
    \/ FindState(r)
    \/ WriteState(r) \/ WriteFails(r)
    \/ Fail(r)

Finished == (\A r \in Runs : Ended(r)) /\ UNCHANGED vars

Next ==
    \/ Push
    \/ ForcePush
    \/ MarkReady
    \/ OtherBot
    \/ \E r \in Runs : GetPR(r) \/ Proceed(r)
    \/ Finished

Spec == Init /\ [][Next]_vars

-----------------------------------------------------------------------------
(* The variables hold what GitHub and the locals of runAction can hold.    *)
TypeOK ==
    /\ head \in Commit
    /\ {draft, others} \subseteq BOOLEAN
    /\ comments \in Seq(State)
    /\ run \in [Runs -> [pc : {"queued", "opened", "clear", "loaded", "posting", "finding", "writing",
                               "done", "deferred", "failed"},
                         pr : Commit, prev : SUBSET State, diff : SUBSET Commit,
                         kept : SUBSET Fingerprints, left : 1..Attempts,
                         sent : BOOLEAN, slot : Nat]]
    /\ posted \in [Fingerprints -> Nat]
    /\ lost \in [Fingerprints -> Nat]
    /\ covered \subseteq Commit
    /\ missed \subseteq Commit
    /\ overlapped \in BOOLEAN

(* With runs that do not overlap, a finding is posted again only when an   *)
(* earlier post of it was followed by no successful state write: a lost    *)
(* answer, an exhausted retry budget or a cancelled run. Force pushes and  *)
(* full re-reviews alone never repeat a comment.                           *)
RepeatsNeedALoss ==
    ~overlapped => \A f \in Fingerprints : posted[f] <= 1 + lost[f]

(* When the state comment names a commit of the PR's current history as    *)
(* last reviewed, every commit up to it was part of a posted review, so an *)
(* incremental review that starts there leaves nothing out.                *)
ReviewedIsCovered ==
    \A s \in StateComment : s.sha.e = head.e => UpTo(s.sha) \subseteq covered

(* The same, but for the commits of an aborted review or of a compare with *)
(* the default branch: nothing else makes a commit go unreviewed, with     *)
(* overlapping runs, pushes at any moment, force pushes, drafts, deferrals,*)
(* lost answers and failed writes.                                         *)
SkipsAreExplained ==
    \A s \in StateComment : s.sha.e = head.e => UpTo(s.sha) \subseteq covered \cup missed
=============================================================================
