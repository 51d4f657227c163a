--------------------------- MODULE ReviewRunProofs ---------------------------
(***************************************************************************)
(* Theorems about ReviewRun, for any number of workflow runs, pushes and   *)
(* attempts, and for every setting of the action: type correctness, that   *)
(* an unreviewed commit below the recorded head is always explained, and   *)
(* that runs that do not overlap repeat a finding only after a loss.       *)
(***************************************************************************)
EXTENDS ReviewRun, TLAPS

Pcs == {"queued", "opened", "clear", "loaded", "posting", "finding", "writing",
        "done", "deferred", "failed"}

\* What the locals of one run can hold.
Locals == [pc : Pcs, pr : Commit, prev : SUBSET State, diff : SUBSET Commit,
           kept : SUBSET Fingerprints, left : 1..Attempts, sent : BOOLEAN, slot : Nat]

-----------------------------------------------------------------------------
(* Type correctness.                                                       *)

(* A run that has not begun or has ended has locals.                       *)
LEMMA FreshType ==
    /\ Fresh \in Locals
    /\ \A pc \in Pcs : End(pc) \in Locals /\ End(pc).pc = pc
  <1>1. [e |-> 1, n |-> 1] \in Commit
    BY BoundsAssumption DEF Commit
  <1>2. Attempts \in 1..Attempts
    BY BoundsAssumption
  <1>3. Fresh \in Locals
    BY <1>1, <1>2 DEF Fresh, Locals, Pcs
  <1> QED
    BY <1>3 DEF End, Locals

(* A run that replaces its locals by good ones leaves all locals good.     *)
LEMMA OneRun ==
    ASSUME TypeOK, NEW r \in Runs, NEW p \in Locals, run' = [run EXCEPT ![r] = p]
    PROVE  /\ run' \in [Runs -> Locals]
           /\ \A q \in Runs : run'[q] = IF q = r THEN p ELSE run[q]
  BY DEF TypeOK, Locals, Pcs

(* The state comment, if any, is one of the comments.                      *)
LEMMA StateCommentType ==
    ASSUME comments \in Seq(State)
    PROVE  StateComment \subseteq State
           /\ \A s \in StateComment : \E i \in 1..Len(comments) : s = comments[i]
  <1>1. \A i \in {Len(comments)} \ {0} : i \in 1..Len(comments)
    OBVIOUS
  <1>2. \A i \in 1..Len(comments) : comments[i] \in State
    OBVIOUS
  <1> QED
    BY <1>1, <1>2 DEF StateComment

(* The state a run builds is one the comment can hold.                     *)
LEMMA StateBuilt ==
    ASSUME NEW r \in Runs, run[r] \in Locals
    PROVE  /\ buildReviewState(r) \in State
           /\ buildReviewState(r).sha = run[r].pr
           /\ buildReviewState(r).fps = Fps(r)
  <1>1. Fps(r) \in SUBSET Fingerprints
    BY DEF Fps, Locals, State
  <1> QED
    BY <1>1 DEF buildReviewState, State, Locals

(* Writing the state replaces one comment or adds one.                     *)
LEMMA WrittenType ==
    ASSUME NEW r \in Runs, run[r] \in Locals, comments \in Seq(State)
    PROVE  /\ Written(r) \in Seq(State)
           /\ \A i \in 1..Len(Written(r)) :
                \/ Written(r)[i] = buildReviewState(r)
                \/ i \in 1..Len(comments) /\ Written(r)[i] = comments[i]
  <1>1. buildReviewState(r) \in State
    BY StateBuilt
  <1>2. CASE run[r].slot = 0
    BY <1>1, <1>2 DEF Written
  <1>3. CASE run[r].slot # 0
    <2> DEFINE b == buildReviewState(r)
               w == [comments EXCEPT ![run[r].slot] = b]
    <2>1. Written(r) = w
      BY <1>3 DEF Written
    <2>2. Len(comments) \in Nat /\ comments \in [1..Len(comments) -> State]
      OBVIOUS
    <2>3. /\ w \in [1..Len(comments) -> State]
          /\ \A i \in 1..Len(comments) : w[i] = b \/ w[i] = comments[i]
      <3> HIDE DEF b
      <3>1. b \in State
        BY <1>1 DEF b
      <3> QED
        BY <2>2, <3>1
    <2>4. w \in Seq(State) /\ Len(w) = Len(comments)
      <3> HIDE DEF w
      <3> QED
        BY <2>2, <2>3
    <2> HIDE DEF w
    <2> QED
      BY <2>1, <2>3, <2>4
  <1> QED
    BY <1>2, <1>3

(* A diff holds commits of the PR's current history.                       *)
LEMMA UnseenType ==
    ASSUME NEW inc, NEW prev
    PROVE  Unseen(inc, prev) \subseteq UpTo(head) /\ Unseen(inc, prev) \subseteq Commit
  BY DEF Unseen, UpTo

(* A failed attempt leaves the run as it is with one attempt less, or      *)
(* ends it.                                                                *)
LEMMA RetriedType ==
    ASSUME NEW r \in Runs, run[r] \in Locals
    PROVE  /\ Retried(r) \in Locals
           /\ \/ /\ Retried(r).pc = run[r].pc /\ Retried(r).pr = run[r].pr
                 /\ Retried(r).prev = run[r].prev /\ Retried(r).diff = run[r].diff
                 /\ Retried(r).kept = run[r].kept /\ Retried(r).sent = run[r].sent
                 /\ Retried(r).slot = run[r].slot
              \/ Retried(r) = End("failed")
  <1>1. CASE run[r].left > 1
    <2>1. run[r].left - 1 \in 1..Attempts
      BY <1>1, BoundsAssumption DEF Locals
    <2> QED
      BY <1>1, <2>1 DEF Retried, Locals
  <1>2. CASE ~(run[r].left > 1)
    BY <1>2, FreshType DEF Retried, Pcs
  <1> QED
    BY <1>1, <1>2

(* Counting up the posts of some findings keeps the counters natural.      *)
LEMMA BumpType ==
    ASSUME NEW count \in [Fingerprints -> Nat], NEW S
    PROVE  /\ Bump(count, S) \in [Fingerprints -> Nat]
           /\ \A f \in Fingerprints : Bump(count, S)[f] = count[f] + IF f \in S THEN 1 ELSE 0
  BY DEF Bump
(* Every push, step of a run and failed call preserves TypeOK.             *)
LEMMA TypeStep == TypeOK /\ [Next]_vars => TypeOK'
  <1> SUFFICES ASSUME TypeOK, [Next]_vars
               PROVE  TypeOK'
    OBVIOUS
  <1>r. \A r \in Runs : run[r] \in Locals
    BY DEF TypeOK, Locals, Pcs
  <1>c. comments \in Seq(State) /\ head \in Commit
    BY DEF TypeOK
  <1>a. ASSUME NEW r \in Runs, NEW p \in Locals, run' = [run EXCEPT ![r] = p],
               UNCHANGED <<head, draft, others, posted, lost, covered>>,
               comments' \in Seq(State), missed' \subseteq Commit, overlapped' \in BOOLEAN
        PROVE  TypeOK'
    BY <1>a, OneRun DEF TypeOK, Locals, Pcs
  <1>b. missed \subseteq Commit /\ overlapped \in BOOLEAN /\ covered \subseteq Commit
        /\ posted \in [Fingerprints -> Nat] /\ lost \in [Fingerprints -> Nat]
    BY DEF TypeOK
  <1>1. CASE Push
    <2>1. head' \in Commit
      BY <1>1, <1>c, BoundsAssumption DEF Push, Commit
    <2> QED
      BY <1>1, <2>1 DEF Push, TypeOK
  <1>2. CASE ForcePush
    <2>1. head' \in Commit
      BY <1>2, <1>c, BoundsAssumption DEF ForcePush, Commit
    <2> QED
      BY <1>2, <2>1 DEF ForcePush, TypeOK
  <1>3. CASE MarkReady
    BY <1>3 DEF MarkReady, TypeOK
  <1>4. CASE OtherBot
    BY <1>4 DEF OtherBot, TypeOK
  <1>5. ASSUME NEW r \in Runs, GetPR(r)
        PROVE  TypeOK'
    <2> DEFINE p == IF decideSkip(getPR) THEN End("done")
                    ELSE [Fresh EXCEPT !.pc = "opened", !.pr = getPR.sha]
    <2>1. p \in Locals
      BY <1>c, FreshType DEF Locals, Pcs, getPR
    <2>2. overlapped' \in BOOLEAN /\ run' = [run EXCEPT ![r] = p]
      BY <1>5 DEF GetPR
    <2> HIDE DEF p
    <2> QED
      BY <1>5, <1>a, <1>b, <1>c, <2>1, <2>2 DEF GetPR
  <1>6. ASSUME NEW r \in Runs, Coordinate(r)
        PROVE  TypeOK'
    <2>1. End("deferred") \in Locals /\ [run[r] EXCEPT !.pc = "clear"] \in Locals
      BY <1>r, FreshType DEF Locals, Pcs
    <2> QED
      BY <1>6, <1>a, <1>b, <1>c, <2>1 DEF Coordinate
  <1>7. ASSUME NEW r \in Runs, GetState(r)
        PROVE  TypeOK'
    <2> DEFINE p == [run[r] EXCEPT !.pc = "loaded", !.prev = StateComment]
    <2>1. p \in Locals
      BY <1>r, <1>c, StateCommentType DEF Locals, Pcs
    <2>2. run' = [run EXCEPT ![r] = p]
      BY <1>7 DEF GetState
    <2> HIDE DEF p
    <2> QED
      BY <1>7, <1>a, <1>b, <1>c, <2>1, <2>2 DEF GetState
  <1>8. ASSUME NEW r \in Runs, Review(r)
        PROVE  TypeOK'
    <2>1. PICK inc \in Incremental(run[r].prev, run[r].pr), ref \in HeadRefs :
            \/ /\ missed' = missed \cup (Unseen(inc, run[r].prev) \ getDiff(inc, run[r].prev, ref))
               /\ \E found \in SUBSET {c.n : c \in getDiff(inc, run[r].prev, ref)} :
                    run' = [run EXCEPT ![r].pc = "posting", ![r].left = Attempts,
                              ![r].diff = getDiff(inc, run[r].prev, ref),
                              ![r].kept = dedupComments(found, run[r].prev)]
            \/ /\ run' = [run EXCEPT ![r].pc = "posting", ![r].left = Attempts]
               /\ missed' = missed \cup Unseen(inc, run[r].prev)
      BY <1>8 DEF Review
    <2> DEFINE diff == getDiff(inc, run[r].prev, ref)
    <2>2. diff \subseteq Commit /\ Unseen(inc, run[r].prev) \subseteq Commit
      BY UnseenType DEF getDiff
    <2>3. missed' \subseteq Commit
      BY <1>b, <2>1, <2>2
    <2>4. Attempts \in 1..Attempts
      BY BoundsAssumption
    <2>5. PICK p \in Locals : run' = [run EXCEPT ![r] = p]
      <3>1. ASSUME NEW found \in SUBSET {c.n : c \in diff},
                   run' = [run EXCEPT ![r].pc = "posting", ![r].left = Attempts, ![r].diff = diff,
                                      ![r].kept = dedupComments(found, run[r].prev)]
            PROVE  \E p \in Locals : run' = [run EXCEPT ![r] = p]
        <4> DEFINE p == [run[r] EXCEPT !.pc = "posting", !.left = Attempts, !.diff = diff,
                                       !.kept = dedupComments(found, run[r].prev)]
        <4>1. dedupComments(found, run[r].prev) \subseteq Fingerprints
          BY <2>2 DEF dedupComments, Commit, Fingerprints
        <4>2. p \in Locals
          <5> HIDE DEF diff
          <5> QED
            BY <1>r, <2>2, <2>4, <4>1 DEF Locals, Pcs
        <4>3. run' = [run EXCEPT ![r] = p]
          BY <3>1
        <4> QED
          BY <4>2, <4>3
      <3>2. CASE run' = [run EXCEPT ![r].pc = "posting", ![r].left = Attempts]
        <4> DEFINE p == [run[r] EXCEPT !.pc = "posting", !.left = Attempts]
        <4>1. p \in Locals
          BY <1>r, <2>4 DEF Locals, Pcs
        <4>2. run' = [run EXCEPT ![r] = p]
          BY <3>2
        <4> QED
          BY <4>1, <4>2
      <3> QED
        BY <2>1, <3>1, <3>2
    <2> QED
      BY <1>8, <1>a, <1>b, <1>c, <2>3, <2>5 DEF Review
  <1>9. ASSUME NEW r \in Runs, postReview(r)
        PROVE  posted' \in [Fingerprints -> Nat] /\ covered' \subseteq Commit
    BY <1>9, <1>b, <1>r, BumpType DEF postReview, Locals
  <1>10. ASSUME NEW r \in Runs, Post(r)
         PROVE  TypeOK'
    <2> DEFINE p == [run[r] EXCEPT !.pc = "finding", !.left = Attempts, !.sent = TRUE]
    <2>1. p \in Locals
      <3>1. "finding" \in Pcs /\ Attempts \in 1..Attempts
        BY BoundsAssumption DEF Pcs
      <3> QED
        BY <1>r, <3>1 DEF Locals
    <2>2. run' = [run EXCEPT ![r] = p]
      BY <1>10 DEF Post
    <2> HIDE DEF p
    <2>3. run' \in [Runs -> Locals]
      BY <2>1, <2>2, OneRun
    <2> QED
      BY <1>9, <1>10, <2>3 DEF Post, TypeOK, Locals, Pcs
  <1>11. ASSUME NEW r \in Runs, PostFails(r)
         PROVE  TypeOK'
    <2>1. run' \in [Runs -> Locals]
      BY <1>11, <1>r, RetriedType, OneRun DEF PostFails
    <2>2. lost' \in [Fingerprints -> Nat] /\ posted' \in [Fingerprints -> Nat] /\ covered' \subseteq Commit
      BY <1>9, <1>11, <1>b, BumpType DEF PostFails
    <2> QED
      BY <1>11, <2>1, <2>2 DEF PostFails, TypeOK, Locals, Pcs
  <1>12. ASSUME NEW r \in Runs, FindState(r)
         PROVE  TypeOK'
    <2> DEFINE p == [run[r] EXCEPT !.pc = "writing", !.slot = Len(comments)]
    <2>1. p \in Locals
      <3>1. "writing" \in Pcs /\ Len(comments) \in Nat
        BY <1>c DEF Pcs
      <3> QED
        BY <1>r, <3>1 DEF Locals
    <2>2. run' = [run EXCEPT ![r] = p]
      BY <1>12 DEF FindState
    <2> HIDE DEF p
    <2> QED
      BY <1>12, <1>a, <1>b, <1>c, <2>1, <2>2 DEF FindState
  <1>13. ASSUME NEW r \in Runs, WriteState(r)
         PROVE  TypeOK'
    BY <1>13, <1>a, <1>b, <1>c, <1>r, FreshType, WrittenType DEF WriteState, Pcs
  <1>14. ASSUME NEW r \in Runs, WriteFails(r)
         PROVE  TypeOK'
    <2> DEFINE p == [Retried(r) EXCEPT !.pc = IF @ = "failed" THEN @ ELSE "finding"]
    <2>1. p \in Locals
      BY <1>r, RetriedType DEF Locals, Pcs
    <2>2. run' = [run EXCEPT ![r] = p]
      BY <1>14 DEF WriteFails
    <2> HIDE DEF p
    <2>3. run' \in [Runs -> Locals]
      BY <2>1, <2>2, OneRun
    <2>4. comments' \in Seq(State)
      BY <1>14, <1>c, <1>r, WrittenType DEF WriteFails
    <2>5. lost' \in [Fingerprints -> Nat]
      BY <1>14, <1>b, BumpType DEF WriteFails
    <2> QED
      BY <1>14, <2>3, <2>4, <2>5 DEF WriteFails, TypeOK, Locals, Pcs
  <1>15. ASSUME NEW r \in Runs, Fail(r)
         PROVE  TypeOK'
    <2>1. run' \in [Runs -> Locals]
      BY <1>15, FreshType, OneRun DEF Fail, Pcs
    <2>2. lost' \in [Fingerprints -> Nat]
      BY <1>15, <1>b, BumpType DEF Fail
    <2> QED
      BY <1>15, <2>1, <2>2 DEF Fail, TypeOK, Locals, Pcs
  <1>16. CASE Finished \/ UNCHANGED vars
    BY <1>16 DEF Finished, vars, TypeOK
  <1> QED
    BY <1>1, <1>2, <1>3, <1>4, <1>5, <1>6, <1>7, <1>8, <1>10, <1>11, <1>12, <1>13, <1>14, <1>15,
       <1>16 DEF Next, Proceed

(* The PR a run finds is well typed, new or reviewed before.               *)
LEMMA TypeInit == Init => TypeOK
  <1> SUFFICES ASSUME Init
               PROVE  TypeOK
    OBVIOUS
  <1>1. head \in Commit
    BY BoundsAssumption DEF Init, Commit
  <1>2. 1 \in Fingerprints
    BY BoundsAssumption DEF Fingerprints
  <1>3. /\ comments \in Seq(State) /\ covered \subseteq Commit
        /\ posted \in [Fingerprints -> Nat]
    <2>1. CASE comments = <<>> /\ posted = [f \in Fingerprints |-> 0] /\ covered = {}
      BY <2>1
    <2>2. ASSUME NEW fps \in SUBSET {1}, comments = <<[sha |-> head, fps |-> fps]>>,
                 posted = [f \in Fingerprints |-> IF f \in fps THEN 1 ELSE 0], covered = {head}
          PROVE  /\ comments \in Seq(State) /\ covered \subseteq Commit
                 /\ posted \in [Fingerprints -> Nat]
      <3>1. [sha |-> head, fps |-> fps] \in State
        BY <1>1, <1>2 DEF State
      <3> QED
        BY <1>1, <2>2, <3>1
    <2> QED
      BY <2>1, <2>2 DEF Init
  <1>4. run \in [Runs -> Locals]
    BY FreshType DEF Init
  <1>5. {draft, others} \subseteq BOOLEAN /\ overlapped \in BOOLEAN
    BY DEF Init
  <1> QED
    BY <1>1, <1>3, <1>4, <1>5 DEF Init, TypeOK, Locals, Pcs

(* Type correctness of the run's locals, the state comment and GitHub's    *)
(* side, with overlapping runs, failed calls and force pushes.             *)
THEOREM TypeCorrect == Spec => []TypeOK
  BY TypeInit, TypeStep, PTL DEF Spec
-----------------------------------------------------------------------------
(* Unreviewed commits. SkipsAreExplained speaks of the state comment only. *)
(* The invariant says the same of every state a run has read or is about   *)
(* to write: of the whole list of comments, because a run may update one   *)
(* that another run found, of the previous state a run works from, and of  *)
(* a run's own head, whose commits are covered, missed or in the diff it   *)
(* is posting. No recorded head is on a later line of history than the PR. *)

Seen == covered \cup missed

\* Head h2 comes after head h: on a later line, or further on the same one.
Later(h, h2) == h.e < h2.e \/ (h.e = h2.e /\ h.n <= h2.n)

Explained(c, h, S) == c.e <= h.e /\ (c.e = h.e => UpTo(c) \subseteq S)

Begun(p) == p.pc \in {"opened", "clear", "loaded", "posting", "finding", "writing"}

Pending(p, h, S) ==
    /\ p.pc = "posting" /\ p.pr.e = h.e => UpTo(p.pr) \subseteq S \cup p.diff
    /\ p.pc \in {"finding", "writing"} => Explained(p.pr, h, S)

Sound(p, h, S) ==
    Begun(p) => Later(p.pr, h) /\ (\A s \in p.prev : Explained(s.sha, h, S)) /\ Pending(p, h, S)

SkipInv ==
    /\ \A i \in 1..Len(comments) : Explained(comments[i].sha, head, Seen)
    /\ \A r \in Runs : Sound(run[r], head, Seen)

(* What was explained stays explained when the PR moves on and more        *)
(* commits are covered or missed.                                          *)
LEMMA ExplainedStays ==
    ASSUME NEW c \in Commit, NEW h \in Commit, NEW h2 \in Commit, NEW S, NEW S2,
           Explained(c, h, S), Later(h, h2), S \subseteq S2
    PROVE  Explained(c, h2, S2)
  BY DEF Explained, Later, Commit

(* So does everything the invariant says of a run.                         *)
LEMMA SoundStays ==
    ASSUME NEW p \in Locals, NEW h \in Commit, NEW h2 \in Commit, NEW S, NEW S2,
           Sound(p, h, S), Later(h, h2), S \subseteq S2
    PROVE  Sound(p, h2, S2)
  <1> SUFFICES ASSUME Begun(p)
               PROVE  /\ Later(p.pr, h2)
                      /\ \A s \in p.prev : Explained(s.sha, h2, S2)
                      /\ Pending(p, h2, S2)
    BY DEF Sound
  <1>1. p.pr \in Commit /\ \A s \in p.prev : s.sha \in Commit
    BY DEF Locals, State
  <1>2. /\ Later(p.pr, h) /\ Pending(p, h, S)
        /\ \A s \in p.prev : Explained(s.sha, h, S)
    BY DEF Sound
  <1>3. Later(p.pr, h2)
    BY <1>1, <1>2 DEF Later, Commit
  <1>4. \A s \in p.prev : Explained(s.sha, h2, S2)
    BY <1>1, <1>2, ExplainedStays
  <1>5. p.pc \in {"finding", "writing"} => Explained(p.pr, h2, S2)
    BY <1>1, <1>2, ExplainedStays DEF Pending
  <1>6. p.pc = "posting" /\ p.pr.e = h2.e => UpTo(p.pr) \subseteq S2 \cup p.diff
    <2> SUFFICES ASSUME p.pc = "posting", p.pr.e = h2.e
                 PROVE  UpTo(p.pr) \subseteq S2 \cup p.diff
      OBVIOUS
    <2>1. p.pr.e = h.e
      BY <1>1, <1>2 DEF Later, Commit
    <2> QED
      BY <1>2, <2>1 DEF Pending
  <1> QED
    BY <1>3, <1>4, <1>5, <1>6 DEF Pending

(* Whatever the diff strategy chose, each commit up to the head a run was  *)
(* started for is in the diff it should read, or was explained by the      *)
(* previous state it starts from.                                          *)
LEMMA ReviewReaches ==
    ASSUME head \in Commit, NEW pr \in Commit, Later(pr, head), pr.e = head.e, NEW inc,
           NEW prev \in SUBSET State, \A s \in prev : Explained(s.sha, head, Seen)
    PROVE  UpTo(pr) \subseteq Seen \cup Unseen(inc, prev)
  <1> SUFFICES ASSUME NEW x \in UpTo(pr), x \notin Unseen(inc, prev)
               PROVE  x \in Seen
    OBVIOUS
  <1>1. x \in UpTo(head)
    BY DEF UpTo, Later, Commit
  <1>2. PICK s \in prev : x \in UpTo(s.sha)
    BY <1>1 DEF Unseen
  <1>3. s.sha.e = head.e
    BY <1>1, <1>2 DEF UpTo
  <1> QED
    BY <1>2, <1>3 DEF Explained

(* Every step preserves SkipInv, with any number of overlapping runs.      *)
LEMMA SkipStep == TypeOK /\ SkipInv /\ [Next]_vars => SkipInv'
  <1> SUFFICES ASSUME TypeOK, SkipInv, [Next]_vars
               PROVE  SkipInv'
    OBVIOUS
  <1>r. \A r \in Runs : run[r] \in Locals /\ Sound(run[r], head, Seen)
    BY DEF TypeOK, Locals, Pcs, SkipInv
  <1>p. \A r \in Runs : /\ run[r].pr \in Commit /\ run[r].prev \in SUBSET State
                        /\ run[r].diff \in SUBSET Commit
    BY <1>r DEF Locals
  <1>c. comments \in Seq(State) /\ head \in Commit /\ run \in [Runs -> Locals]
    BY DEF TypeOK, Locals, Pcs
  <1>s. \A i \in 1..Len(comments) :
          comments[i].sha \in Commit /\ Explained(comments[i].sha, head, Seen)
    <2>1. \A i \in 1..Len(comments) : comments[i] \in State
      BY <1>c
    <2> QED
      BY <2>1 DEF State, SkipInv
  <1>t. TypeOK'
    BY TypeStep
  <1>h. head' \in Commit /\ run' \in [Runs -> Locals]
    BY <1>t DEF TypeOK, Locals, Pcs
  <1>l. head' = head => Later(head, head')
    BY <1>c DEF Later, Commit
  \* The PR may move on, one run takes a step, other runs keep their locals.
  <1>a. ASSUME Later(head, head'), Seen \subseteq Seen',
               \A q \in Runs : run'[q] = run[q] \/ Sound(run'[q], head', Seen'),
               \/ comments' = comments
               \/ \E r \in Runs : comments' = Written(r) /\ Explained(run[r].pr, head', Seen')
        PROVE  SkipInv'
    <2>1. ASSUME NEW q \in Runs
          PROVE  Sound(run'[q], head', Seen')
      <3>1. Sound(run[q], head', Seen')
        BY <1>a, <1>r, <1>c, <1>h, SoundStays
      <3> QED
        BY <1>a, <3>1
    <2>2. \A i \in 1..Len(comments) : Explained(comments[i].sha, head', Seen')
      BY <1>a, <1>s, <1>c, <1>h, ExplainedStays
    <2>3. \A i \in 1..Len(comments') : Explained(comments'[i].sha, head', Seen')
      <3>1. CASE comments' = comments
        BY <2>2, <3>1
      <3>2. ASSUME NEW r \in Runs, comments' = Written(r), Explained(run[r].pr, head', Seen')
            PROVE  \A i \in 1..Len(comments') : Explained(comments'[i].sha, head', Seen')
        <4>1. buildReviewState(r).sha = run[r].pr
          BY <1>r, StateBuilt
        <4> QED
          BY <1>r, <1>c, <2>2, <3>2, <4>1, WrittenType
      <3> QED
        BY <1>a, <3>1, <3>2
    <2> QED
      BY <2>1, <2>3 DEF SkipInv
  \* A step of run r that leaves the rest alone.
  <1>b. ASSUME NEW r \in Runs, NEW p, run' = [run EXCEPT ![r] = p], Sound(p, head, Seen),
               UNCHANGED <<head, comments, covered, missed>>
        PROVE  SkipInv'
    <2>1. Seen' = Seen
      BY <1>b DEF Seen
    <2>2. \A q \in Runs : run'[q] = run[q] \/ Sound(run'[q], head', Seen')
      BY <1>b, <1>c, <2>1
    <2> QED
      BY <1>a, <1>b, <1>l, <2>1, <2>2
  <1>e. \A pc \in {"done", "deferred", "failed"} : \A h, S : Sound(End(pc), h, S)
    BY FreshType DEF Sound, Begun, Pcs
  <1>1. CASE Push \/ ForcePush
    <2>1. Later(head, head')
      BY <1>1, <1>c, <1>h DEF Push, ForcePush, Later, Commit
    <2>2. UNCHANGED <<run, comments, covered, missed>>
      BY <1>1 DEF Push, ForcePush
    <2>3. Seen' = Seen
      BY <2>2 DEF Seen
    <2> QED
      BY <1>a, <2>1, <2>2, <2>3
  <1>2. CASE MarkReady \/ OtherBot \/ Finished \/ UNCHANGED vars
    <2>1. UNCHANGED <<head, run, comments, covered, missed>>
      BY <1>2 DEF MarkReady, OtherBot, Finished, vars
    <2>2. Seen' = Seen
      BY <2>1 DEF Seen
    <2> QED
      BY <1>a, <1>l, <2>1, <2>2
  <1>3. ASSUME NEW r \in Runs, GetPR(r)
        PROVE  SkipInv'
    <2> DEFINE o == [Fresh EXCEPT !.pc = "opened", !.pr = getPR.sha]
    <2>1. Sound(o, head, Seen)
      <3>1. o.pc = "opened" /\ o.pr = head /\ o.prev = {}
        BY DEF Fresh, getPR
      <3>2. Later(head, head)
        BY <1>c DEF Later, Commit
      <3> HIDE DEF o
      <3> QED
        BY <3>1, <3>2 DEF Sound, Pending
    <2>2. PICK p \in {End("done"), o} : run' = [run EXCEPT ![r] = p]
      BY <1>3 DEF GetPR
    <2> HIDE DEF o
    <2>3. Sound(p, head, Seen)
      BY <1>e, <2>1
    <2> QED
      BY <1>3, <1>b, <2>2, <2>3 DEF GetPR
  <1>4. ASSUME NEW r \in Runs, Coordinate(r)
        PROVE  SkipInv'
    <2> DEFINE o == [run[r] EXCEPT !.pc = "clear"]
    <2>1. Sound(o, head, Seen)
      BY <1>4, <1>r DEF Coordinate, Locals, Sound, Begun, Pending
    <2>2. PICK p \in {End("deferred"), o} : run' = [run EXCEPT ![r] = p]
      BY <1>4 DEF Coordinate
    <2> HIDE DEF o
    <2>3. Sound(p, head, Seen)
      BY <1>e, <2>1
    <2> QED
      BY <1>4, <1>b, <2>2, <2>3 DEF Coordinate
  <1>5. ASSUME NEW r \in Runs, GetState(r)
        PROVE  SkipInv'
    <2> DEFINE p == [run[r] EXCEPT !.pc = "loaded", !.prev = StateComment]
    <2>1. p.pc = "loaded" /\ p.prev = StateComment /\ p.pr = run[r].pr
      BY <1>r DEF Locals
    <2>2. run' = [run EXCEPT ![r] = p] /\ run[r].pc = "clear"
      BY <1>5 DEF GetState
    <2>3. \A s \in StateComment : Explained(s.sha, head, Seen)
      BY <1>s, <1>c, StateCommentType
    <2>4. Later(run[r].pr, head)
      BY <1>r, <2>2 DEF Sound, Begun
    <2> HIDE DEF p
    <2>5. Sound(p, head, Seen)
      BY <2>1, <2>3, <2>4 DEF Sound, Pending
    <2> QED
      BY <1>5, <1>b, <2>2, <2>5 DEF GetState
  <1>6. ASSUME NEW r \in Runs, Review(r)
        PROVE  SkipInv'
    <2>1. PICK inc \in Incremental(run[r].prev, run[r].pr), ref \in HeadRefs :
            \/ /\ missed' = missed \cup (Unseen(inc, run[r].prev) \ getDiff(inc, run[r].prev, ref))
               /\ \E found \in SUBSET {c.n : c \in getDiff(inc, run[r].prev, ref)} :
                    run' = [run EXCEPT ![r].pc = "posting", ![r].left = Attempts,
                              ![r].diff = getDiff(inc, run[r].prev, ref),
                              ![r].kept = dedupComments(found, run[r].prev)]
            \/ /\ run' = [run EXCEPT ![r].pc = "posting", ![r].left = Attempts]
               /\ missed' = missed \cup Unseen(inc, run[r].prev)
      BY <1>6 DEF Review
    <2>2. UNCHANGED <<head, comments, covered>> /\ run[r].pc = "loaded"
      BY <1>6 DEF Review
    <2>3. /\ run'[r].pc = "posting" /\ run'[r].pr = run[r].pr /\ run'[r].prev = run[r].prev
          /\ \A q \in Runs \ {r} : run'[q] = run[q]
      BY <1>c, <1>r, <2>1 DEF Locals
    <2>4. Seen \subseteq Seen' /\ Seen \cup Unseen(inc, run[r].prev) \subseteq Seen' \cup run'[r].diff
      BY <1>c, <1>r, <2>1, <2>2 DEF Seen, Locals
    <2>5. /\ Later(run[r].pr, head)
          /\ \A s \in run[r].prev : Explained(s.sha, head, Seen)
      BY <1>r, <2>2 DEF Sound, Begun
    <2>6. \A s \in run[r].prev : Explained(s.sha, head, Seen')
      BY <2>4, <2>5 DEF Explained
    <2>7. run[r].pr.e = head.e => UpTo(run[r].pr) \subseteq Seen' \cup run'[r].diff
      <3>1. run[r].pr.e = head.e => UpTo(run[r].pr) \subseteq Seen \cup Unseen(inc, run[r].prev)
        BY <1>c, <1>p, <2>5, ReviewReaches
      <3> QED
        BY <2>4, <3>1
    <2>8. Sound(run'[r], head', Seen')
      BY <2>2, <2>3, <2>5, <2>6, <2>7 DEF Sound, Pending
    <2> QED
      BY <1>a, <1>l, <2>2, <2>3, <2>4, <2>8
  <1>7. ASSUME NEW r \in Runs, Post(r)
        PROVE  SkipInv'
    <2>1. UNCHANGED <<head, comments, missed>> /\ run[r].pc = "posting"
          /\ covered' = covered \cup run[r].diff
      BY <1>7 DEF Post, postReview
    <2>2. /\ run'[r].pc = "finding" /\ run'[r].pr = run[r].pr /\ run'[r].prev = run[r].prev
          /\ \A q \in Runs \ {r} : run'[q] = run[q]
      BY <1>7, <1>c, <1>r DEF Post, Locals
    <2>3. Seen' = Seen \cup run[r].diff
      BY <2>1 DEF Seen
    <2>4. /\ Later(run[r].pr, head)
          /\ \A s \in run[r].prev : Explained(s.sha, head, Seen)
          /\ run[r].pr.e = head.e => UpTo(run[r].pr) \subseteq Seen \cup run[r].diff
      BY <1>r, <2>1 DEF Sound, Begun, Pending
    <2>5. Explained(run[r].pr, head, Seen')
      BY <1>c, <1>p, <2>3, <2>4 DEF Explained, Later, Commit
    <2>6. \A s \in run[r].prev : Explained(s.sha, head, Seen')
      BY <2>3, <2>4 DEF Explained
    <2>7. Sound(run'[r], head', Seen')
      BY <2>1, <2>2, <2>4, <2>5, <2>6 DEF Sound, Pending
    <2> QED
      BY <1>a, <1>l, <2>1, <2>2, <2>3, <2>7
  <1>8. ASSUME NEW r \in Runs, PostFails(r)
        PROVE  SkipInv'
    <2>1. UNCHANGED <<head, comments, missed>> /\ run[r].pc = "posting"
          /\ covered \subseteq covered' /\ run' = [run EXCEPT ![r] = Retried(r)]
      BY <1>8 DEF PostFails, postReview
    <2>2. Sound(Retried(r), head, Seen)
      <3>1. CASE Retried(r) = End("failed")
        BY <3>1, <1>e
      <3>2. CASE Retried(r) # End("failed")
        BY <3>2, <1>r, RetriedType DEF Sound, Begun, Pending
      <3> QED
        BY <3>1, <3>2
    <2>3. Seen \subseteq Seen'
      BY <2>1 DEF Seen
    <2>4. Sound(Retried(r), head', Seen')
      BY <1>r, <1>c, <1>l, <2>1, <2>2, <2>3, RetriedType, SoundStays
    <2>5. \A q \in Runs : run'[q] = run[q] \/ Sound(run'[q], head', Seen')
      BY <1>c, <2>1, <2>4
    <2> QED
      BY <1>a, <1>l, <2>1, <2>3, <2>5
  <1>9. ASSUME NEW r \in Runs, FindState(r)
        PROVE  SkipInv'
    <2> DEFINE p == [run[r] EXCEPT !.pc = "writing", !.slot = Len(comments)]
    <2>1. run[r].pc = "finding" /\ run' = [run EXCEPT ![r] = p]
      BY <1>9 DEF FindState
    <2>2. p.pc = "writing" /\ p.pr = run[r].pr /\ p.prev = run[r].prev
      BY <1>r DEF Locals
    <2> HIDE DEF p
    <2>3. Sound(p, head, Seen)
      BY <1>r, <2>1, <2>2 DEF Sound, Begun, Pending
    <2> QED
      BY <1>9, <1>b, <2>1, <2>3 DEF FindState
  <1>10. ASSUME NEW r \in Runs, WriteState(r)
         PROVE  SkipInv'
    <2>1. /\ run[r].pc = "writing" /\ comments' = Written(r)
          /\ UNCHANGED <<head, covered, missed>> /\ run' = [run EXCEPT ![r] = End("done")]
      BY <1>10 DEF WriteState
    <2>2. Seen' = Seen /\ Explained(run[r].pr, head', Seen')
      BY <1>r, <2>1 DEF Seen, Sound, Begun, Pending
    <2>3. \A q \in Runs : run'[q] = run[q] \/ Sound(run'[q], head', Seen')
      BY <1>c, <1>e, <2>1
    <2> QED
      BY <1>a, <1>l, <2>1, <2>2, <2>3
  <1>11. ASSUME NEW r \in Runs, WriteFails(r)
         PROVE  SkipInv'
    <2> DEFINE p == [Retried(r) EXCEPT !.pc = IF @ = "failed" THEN @ ELSE "finding"]
    <2>1. /\ run[r].pc \in {"finding", "writing"}
          /\ UNCHANGED <<head, covered, missed>> /\ run' = [run EXCEPT ![r] = p]
          /\ comments' = comments \/ comments' = Written(r)
      BY <1>11 DEF WriteFails
    <2>2. Seen' = Seen /\ Explained(run[r].pr, head', Seen')
      BY <1>r, <2>1 DEF Seen, Sound, Begun, Pending
    <2>3. Sound(p, head', Seen')
      <3>1. CASE Retried(r) = End("failed")
        <4>1. p.pc = "failed"
          BY <3>1, FreshType DEF Pcs, Locals
        <4> QED
          BY <4>1 DEF Sound, Begun
      <3>2. CASE Retried(r) # End("failed")
        <4>1. p.pc = "finding" /\ p.pr = run[r].pr /\ p.prev = run[r].prev
          BY <3>2, <1>r, <2>1, RetriedType DEF Locals
        <4> HIDE DEF p
        <4> QED
          BY <1>r, <2>1, <2>2, <4>1 DEF Sound, Begun, Pending
      <3> QED
        BY <3>1, <3>2
    <2> HIDE DEF p
    <2>4. \A q \in Runs : run'[q] = run[q] \/ Sound(run'[q], head', Seen')
      BY <1>c, <2>1, <2>3
    <2> QED
      BY <1>a, <1>l, <2>1, <2>2, <2>4
  <1>12. ASSUME NEW r \in Runs, Fail(r)
         PROVE  SkipInv'
    BY <1>12, <1>b, <1>e DEF Fail
  <1> QED
    BY <1>1, <1>2, <1>3, <1>4, <1>5, <1>6, <1>7, <1>8, <1>9, <1>10, <1>11, <1>12 DEF Next, Proceed

(* A new PR and one reviewed before satisfy the invariant.                 *)
LEMMA SkipInit == Init => SkipInv
  <1> SUFFICES ASSUME Init
               PROVE  SkipInv
    OBVIOUS
  <1>1. \A r \in Runs : Sound(run[r], head, Seen)
    BY DEF Init, Fresh, Sound, Begun
  <1>2. \A i \in 1..Len(comments) : Explained(comments[i].sha, head, Seen)
    <2>1. CASE comments = <<>>
      BY <2>1
    <2>2. ASSUME NEW fps \in SUBSET {1}, comments = <<[sha |-> head, fps |-> fps]>>, covered = {head}
          PROVE  \A i \in 1..Len(comments) : Explained(comments[i].sha, head, Seen)
      <3>1. UpTo(head) \subseteq Seen /\ head.e <= head.e
        BY <2>2, BoundsAssumption DEF Init, UpTo, Commit, Seen
      <3>2. \A i \in 1..Len(comments) : comments[i].sha = head
        BY <2>2
      <3> QED
        BY <3>1, <3>2 DEF Explained
    <2> QED
      BY <2>1, <2>2 DEF Init
  <1> QED
    BY <1>1, <1>2 DEF SkipInv

(* With any number of overlapping runs, pushes and force pushes at any     *)
(* moment, lost answers and failed writes: a commit at or below the head   *)
(* the state comment records was part of a posted review, or of a review   *)
(* that was aborted or compared with the default branch.                   *)
THEOREM UnreviewedIsExplained == Spec => []SkipsAreExplained
  <1>1. TypeOK /\ SkipInv => SkipsAreExplained
    <2> SUFFICES ASSUME TypeOK, SkipInv, NEW s \in StateComment, s.sha.e = head.e
                 PROVE  UpTo(s.sha) \subseteq covered \cup missed
      BY DEF SkipsAreExplained
    <2>1. Explained(s.sha, head, Seen)
      BY StateCommentType DEF TypeOK, SkipInv
    <2> QED
      BY <2>1 DEF Explained, Seen
  <1> QED
    BY <1>1, TypeInit, TypeStep, SkipInit, SkipStep, PTL DEF Spec
-----------------------------------------------------------------------------
(* Repeated findings, for runs that do not overlap. A finding is charged   *)
(* to the posts that were lost, but for one post that is either recorded   *)
(* in the state comment or held by the run at work. A write whose answer   *)
(* was lost has recorded the run's findings while the run still holds      *)
(* them, so what the run started from is only a part of the record.        *)

FpsOf(S) == UNION {s.fps : s \in S}

Charged(S) == \A f \in Fingerprints : posted[f] <= lost[f] + IF f \in S THEN 1 ELSE 0

Working == {"loaded", "posting", "finding", "writing"}
Sent == {"finding", "writing"}

RunCharged(p) ==
    /\ p.pc \in Working => FpsOf(p.prev) \subseteq FpsOf(StateComment)
    /\ p.pc \in {"loaded", "posting"} => Charged(FpsOf(p.prev))
    /\ p.pc \in {"opened", "clear", "loaded"} => p.kept = {}
    /\ p.pc = "posting" => p.kept \cap FpsOf(p.prev) = {}
    /\ p.pc \in Sent => Charged(p.kept \cup FpsOf(p.prev))
    /\ p.pc = "writing" => p.slot = Len(comments)
    /\ p.sent => p.pc \in Sent
    /\ p.pc \in Sent => p.sent

OneActive == \A q, r \in Runs : Active(q) /\ Active(r) => q = r

LossInv ==
    /\ OneActive
    /\ \A r \in Runs : RunCharged(run[r])
    /\ (\A r \in Runs : run[r].pc \notin Sent) => Charged(FpsOf(StateComment))

(* After a write to the comment it found, or to the first one, the state   *)
(* comment is the one the run has built.                                   *)
LEMMA WrittenIsNewest ==
    ASSUME TypeOK, NEW r \in Runs, run[r].slot = Len(comments), comments' = Written(r)
    PROVE  StateComment' = {buildReviewState(r)}
  <1>1. comments \in Seq(State) /\ buildReviewState(r) \in State /\ Len(comments) \in Nat
    BY StateBuilt DEF TypeOK, Locals, Pcs
  <1>2. CASE run[r].slot = 0
    <2>1. comments' = Append(comments, buildReviewState(r)) /\ Len(comments) = 0
      BY <1>2 DEF Written
    <2>2. Len(comments') = 1 /\ comments'[1] = buildReviewState(r)
      BY <1>1, <2>1
    <2> QED
      BY <2>2 DEF StateComment
  <1>3. CASE run[r].slot # 0
    <2>1. comments' = [comments EXCEPT ![Len(comments)] = buildReviewState(r)] /\ Len(comments) # 0
      BY <1>3 DEF Written
    <2>2. Len(comments') = Len(comments) /\ comments'[Len(comments)] = buildReviewState(r)
      BY <1>1, <2>1
    <2> QED
      BY <2>1, <2>2 DEF StateComment
  <1> QED
    BY <1>2, <1>3

(* What a run has built records its findings and those it started from.    *)
LEMMA BuiltRecords ==
    ASSUME NEW r \in Runs, run[r] \in Locals
    PROVE  FpsOf({buildReviewState(r)}) = run[r].kept \cup FpsOf(run[r].prev)
  <1>1. buildReviewState(r).fps = run[r].kept \cup FpsOf(run[r].prev)
    BY StateBuilt DEF Fps, FpsOf
  <1> QED
    BY <1>1 DEF FpsOf

(* While runs do not overlap, every step preserves LossInv.                *)
LEMMA LossStep ==
    ASSUME TypeOK, LossInv, ~overlapped', [Next]_vars
    PROVE  LossInv'
  <1>r. run \in [Runs -> Locals] /\ \A r \in Runs : run[r] \in Locals /\ RunCharged(run[r])
    BY DEF TypeOK, Locals, Pcs, LossInv
  <1>n. posted \in [Fingerprints -> Nat] /\ lost \in [Fingerprints -> Nat]
    BY DEF TypeOK
  <1>t. TypeOK'
    BY TypeStep
  <1>u. run' \in [Runs -> Locals]
    BY <1>t DEF TypeOK, Locals, Pcs
  <1>i. \A q \in Runs : ~Active(q) => ~run[q].sent /\ run[q].pc \notin Working
                                       /\ run[q].pc \notin {"opened", "clear"}
    BY <1>r DEF Active, Ended, RunCharged, Sent, Working
  \* Run r is the one at work, before and after the step.
  <1>a. ASSUME NEW r \in Runs, \A q \in Runs \ {r} : run'[q] = run[q] /\ ~Active(q),
               RunCharged(run[r])',
               run'[r].pc \notin Sent => Charged(FpsOf(StateComment))'
        PROVE  LossInv'
    <2>1. \A q \in Runs \ {r} : ~Active(q)'
      BY <1>a DEF Active, Ended
    <2>2. OneActive'
      BY <2>1 DEF OneActive
    <2>3. \A q \in Runs \ {r} : RunCharged(run[q])'
      <3> SUFFICES ASSUME NEW q \in Runs \ {r}
                   PROVE  RunCharged(run[q])'
        OBVIOUS
      <3>1. /\ run'[q] = run[q] /\ ~run[q].sent
            /\ run[q].pc \notin Working /\ run[q].pc \notin {"opened", "clear"}
        BY <1>a, <1>i
      <3> QED
        BY <3>1 DEF RunCharged, Working, Sent
    <2>4. \A q \in Runs : RunCharged(run[q])'
      BY <1>a, <2>3
    <2>5. (\A q \in Runs : run'[q].pc \notin Sent) => Charged(FpsOf(StateComment))'
      BY <1>a
    <2> QED
      BY <2>2, <2>4, <2>5 DEF LossInv
  <1>o. ASSUME NEW r \in Runs, Active(r)
        PROVE  \A q \in Runs \ {r} : ~Active(q) /\ run[q].pc \notin Sent
    BY <1>o, <1>i DEF LossInv, OneActive, Working, Sent
  \* While no findings are sent and not recorded, the record accounts for all.
  <1>q. ASSUME NEW r \in Runs, Active(r), run[r].pc \notin Sent
        PROVE  Charged(FpsOf(StateComment))
    BY <1>q, <1>o DEF LossInv
  <1>1. CASE UNCHANGED <<comments, run, posted, lost>>
    BY <1>1 DEF LossInv, OneActive, Active, Ended, RunCharged, Charged, StateComment
  <1>2. ASSUME NEW r \in Runs, GetPR(r)
        PROVE  LossInv'
    <2>1. run[r].pc = "queued" /\ UNCHANGED <<comments, posted, lost>>
          /\ \A q \in Runs : ~Active(q)
      BY <1>2 DEF GetPR
    <2>2. run'[r].pc \in {"done", "opened"} /\ ~run'[r].sent /\ run'[r].kept = {}
          /\ \A q \in Runs \ {r} : run'[q] = run[q]
      BY <1>2, <1>r DEF GetPR, End, Fresh
    <2>3. Charged(FpsOf(StateComment))
      BY <1>i, <2>1 DEF LossInv, Working, Sent
    <2>4. Charged(FpsOf(StateComment))'
      BY <2>1, <2>3 DEF Charged, StateComment
    <2>5. RunCharged(run[r])'
      BY <2>2 DEF RunCharged, Working, Sent
    <2> QED
      BY <1>a, <2>1, <2>2, <2>4, <2>5
  <1>3. ASSUME NEW r \in Runs, Coordinate(r)
        PROVE  LossInv'
    <2>1. run[r].pc = "opened" /\ UNCHANGED <<comments, posted, lost>>
      BY <1>3 DEF Coordinate
    <2>2. run'[r].pc \in {"deferred", "clear"} /\ ~run'[r].sent /\ run'[r].kept = {}
          /\ \A q \in Runs \ {r} : run'[q] = run[q]
      BY <1>3, <1>r DEF Coordinate, End, Fresh, Locals, RunCharged, Sent
    <2>3. Active(r) /\ run[r].pc \notin Sent
      BY <2>1 DEF Active, Ended, Sent
    <2>4. Charged(FpsOf(StateComment))'
      BY <1>q, <2>1, <2>3 DEF Charged, StateComment
    <2>5. RunCharged(run[r])'
      BY <2>2 DEF RunCharged, Working, Sent
    <2> QED
      BY <1>a, <1>o, <2>2, <2>3, <2>4, <2>5
  <1>4. ASSUME NEW r \in Runs, GetState(r)
        PROVE  LossInv'
    <2>1. run[r].pc = "clear" /\ UNCHANGED <<comments, posted, lost>>
      BY <1>4 DEF GetState
    <2>2. /\ run'[r].pc = "loaded" /\ run'[r].prev = StateComment /\ ~run'[r].sent
          /\ run'[r].kept = {}
          /\ \A q \in Runs \ {r} : run'[q] = run[q]
      BY <1>4, <1>r DEF GetState, Locals, RunCharged, Sent
    <2>3. Active(r) /\ run[r].pc \notin Sent
      BY <2>1 DEF Active, Ended, Sent
    <2>4. StateComment' = StateComment
      BY <2>1 DEF StateComment
    <2>5. Charged(FpsOf(StateComment)) /\ Charged(FpsOf(StateComment))'
      BY <1>q, <2>1, <2>3, <2>4 DEF Charged
    <2>6. RunCharged(run[r])'
      <3>1. FpsOf(run'[r].prev) = FpsOf(StateComment)'
        BY <2>2, <2>4
      <3> QED
        BY <2>2, <2>5, <3>1 DEF RunCharged, Working, Sent, Charged
    <2> QED
      BY <1>a, <1>o, <2>2, <2>3, <2>5, <2>6
  <1>5. ASSUME NEW r \in Runs, Review(r)
        PROVE  LossInv'
    <2>1. run[r].pc = "loaded" /\ UNCHANGED <<comments, posted, lost>>
      BY <1>5 DEF Review
    <2>2. /\ run'[r].pc = "posting" /\ run'[r].prev = run[r].prev /\ run'[r].sent = run[r].sent
          /\ \A q \in Runs \ {r} : run'[q] = run[q]
      BY <1>5, <1>r DEF Review, Locals
    <2>3. run'[r].kept \cap FpsOf(run[r].prev) = {}
      <3>1. PICK inc \in Incremental(run[r].prev, run[r].pr), ref \in HeadRefs :
              \/ \E found \in SUBSET {c.n : c \in getDiff(inc, run[r].prev, ref)} :
                   run' = [run EXCEPT ![r].pc = "posting", ![r].left = Attempts,
                             ![r].diff = getDiff(inc, run[r].prev, ref),
                             ![r].kept = dedupComments(found, run[r].prev)]
              \/ run' = [run EXCEPT ![r].pc = "posting", ![r].left = Attempts]
        BY <1>5 DEF Review
      <3>2. ASSUME NEW found, run'[r].kept = dedupComments(found, run[r].prev)
            PROVE  run'[r].kept \cap FpsOf(run[r].prev) = {}
        BY <3>2 DEF dedupComments, FpsOf
      <3>3. CASE run' = [run EXCEPT ![r].pc = "posting", ![r].left = Attempts]
        BY <3>3, <1>r, <2>1 DEF Locals, RunCharged
      <3> QED
        BY <1>r, <3>1, <3>2, <3>3 DEF Locals
    <2>4. Active(r) /\ run[r].pc \notin Sent
      BY <2>1 DEF Active, Ended, Sent
    <2>5. StateComment' = StateComment /\ Charged(FpsOf(StateComment))'
      BY <1>q, <2>1, <2>4 DEF StateComment, Charged
    <2>6. FpsOf(run[r].prev) \subseteq FpsOf(StateComment) /\ Charged(FpsOf(run[r].prev))
          /\ ~run[r].sent
      BY <1>r, <2>1 DEF RunCharged, Working, Sent
    <2>7. RunCharged(run[r])'
      BY <2>1, <2>2, <2>3, <2>5, <2>6 DEF RunCharged, Working, Sent, Charged
    <2> QED
      BY <1>a, <1>o, <2>2, <2>4, <2>5, <2>7
  <1>6. ASSUME NEW r \in Runs, Post(r)
        PROVE  LossInv'
    <2>1. /\ run[r].pc = "posting" /\ UNCHANGED <<comments, lost>>
          /\ posted' = Bump(posted, run[r].kept)
      BY <1>6 DEF Post, postReview
    <2>2. /\ run'[r].pc = "finding" /\ run'[r].prev = run[r].prev /\ run'[r].sent
          /\ run'[r].kept = run[r].kept /\ \A q \in Runs \ {r} : run'[q] = run[q]
      BY <1>6, <1>r DEF Post, Locals
    <2>3. Active(r)
      BY <2>1 DEF Active, Ended
    <2>4. /\ FpsOf(run[r].prev) \subseteq FpsOf(StateComment) /\ Charged(FpsOf(run[r].prev))
          /\ run[r].kept \cap FpsOf(run[r].prev) = {}
      BY <1>r, <2>1 DEF RunCharged, Working
    <2>5. \A f \in Fingerprints :
            posted'[f] <= lost'[f] + IF f \in run[r].kept \cup FpsOf(run[r].prev) THEN 1 ELSE 0
      BY <1>n, <2>1, <2>4, BumpType DEF Charged
    <2>6. StateComment' = StateComment
      BY <2>1 DEF StateComment
    <2>7. RunCharged(run[r])'
      BY <2>2, <2>4, <2>5, <2>6 DEF RunCharged, Working, Sent, Charged
    <2> QED
      BY <1>a, <1>o, <2>2, <2>3, <2>7 DEF Sent
  \* A failed attempt at a post: what was posted is charged to the losses.
  <1>7. ASSUME NEW r \in Runs, PostFails(r)
        PROVE  LossInv'
    <2>1. /\ run[r].pc = "posting" /\ UNCHANGED comments /\ run' = [run EXCEPT ![r] = Retried(r)]
          /\ \/ posted' = Bump(posted, run[r].kept) /\ lost' = Bump(lost, run[r].kept)
             \/ UNCHANGED <<posted, lost>>
      BY <1>7 DEF PostFails, postReview
    <2>2. Active(r) /\ run[r].pc \notin Sent
      BY <2>1 DEF Active, Ended, Sent
    <2>3. \A q \in Runs \ {r} : run'[q] = run[q]
      BY <1>r, <2>1
    <2>4. \A S : Charged(S) => \A f \in Fingerprints :
            posted'[f] <= lost'[f] + IF f \in S THEN 1 ELSE 0
      <3>1. CASE UNCHANGED <<posted, lost>>
        BY <3>1 DEF Charged
      <3>2. CASE posted' = Bump(posted, run[r].kept) /\ lost' = Bump(lost, run[r].kept)
        <4>1. \A f \in Fingerprints : \E d \in Nat : posted'[f] = posted[f] + d /\ lost'[f] = lost[f] + d
          BY <3>2, <1>n, BumpType
        <4> QED
          BY <1>n, <4>1 DEF Charged
      <3> QED
        BY <2>1, <3>1, <3>2
    <2>5. StateComment' = StateComment
      BY <2>1 DEF StateComment
    <2>6. Charged(FpsOf(StateComment))'
      BY <1>q, <2>2, <2>4, <2>5 DEF Charged
    <2>7. RunCharged(run[r])'
      <3>1. run'[r] = Retried(r)
        BY <1>r, <2>1
      <3>2. CASE Retried(r) = End("failed")
        BY <3>1, <3>2 DEF End, Fresh, RunCharged, Working, Sent
      <3>3. CASE Retried(r) # End("failed")
        <4>1. /\ run'[r].pc = "posting" /\ run'[r].prev = run[r].prev
              /\ run'[r].kept = run[r].kept /\ run'[r].sent = run[r].sent
          BY <1>r, <2>1, <3>1, <3>3, RetriedType
        <4>2. /\ FpsOf(run[r].prev) \subseteq FpsOf(StateComment) /\ Charged(FpsOf(run[r].prev))
              /\ run[r].kept \cap FpsOf(run[r].prev) = {} /\ ~run[r].sent
          BY <1>r, <2>1 DEF RunCharged, Working, Sent
        <4>3. \A f \in Fingerprints :
                posted'[f] <= lost'[f] + IF f \in FpsOf(run[r].prev) THEN 1 ELSE 0
          BY <2>4, <4>2
        <4> QED
          BY <2>5, <4>1, <4>2, <4>3 DEF RunCharged, Working, Sent, Charged
      <3> QED
        BY <3>2, <3>3
    <2> QED
      BY <1>a, <1>o, <2>2, <2>3, <2>6, <2>7
  <1>8. ASSUME NEW r \in Runs, FindState(r)
        PROVE  LossInv'
    <2>1. run[r].pc = "finding" /\ UNCHANGED <<comments, posted, lost>>
      BY <1>8 DEF FindState
    <2>2. /\ run'[r].pc = "writing" /\ run'[r].prev = run[r].prev /\ run'[r].sent = run[r].sent
          /\ run'[r].kept = run[r].kept /\ run'[r].slot = Len(comments)
          /\ \A q \in Runs \ {r} : run'[q] = run[q]
      BY <1>8, <1>r DEF FindState, Locals
    <2>3. Active(r)
      BY <2>1 DEF Active, Ended
    <2>4. RunCharged(run[r])
      BY <1>r
    <2>5. StateComment' = StateComment /\ comments' = comments
      BY <2>1 DEF StateComment
    <2>6. RunCharged(run[r])'
      BY <2>1, <2>2, <2>4, <2>5 DEF RunCharged, Working, Sent, Charged
    <2> QED
      BY <1>a, <1>o, <2>2, <2>3, <2>6 DEF Sent
  \* What a run at work on the comment records and what it started from.
  <1>9. ASSUME NEW r \in Runs, run[r].pc \in Sent
        PROVE  /\ Active(r) /\ run[r].sent
               /\ FpsOf(run[r].prev) \subseteq FpsOf(StateComment)
               /\ Charged(run[r].kept \cup FpsOf(run[r].prev))
    BY <1>9, <1>r DEF RunCharged, Working, Sent, Active, Ended
  \* The comment as it was, or written by the run: the record still holds all
  \* that the run started from, and when written also what it posted.
  <1>10. ASSUME NEW r \in Runs, run[r].pc \in Sent,
                comments' = comments \/ (run[r].pc = "writing" /\ comments' = Written(r))
         PROVE  /\ FpsOf(run[r].prev) \subseteq FpsOf(StateComment')
                /\ \/ comments' = comments
                   \/ FpsOf(StateComment') = run[r].kept \cup FpsOf(run[r].prev)
    <2>1. CASE comments' = comments
      BY <1>9, <1>10, <2>1 DEF StateComment
    <2>2. CASE run[r].pc = "writing" /\ comments' = Written(r)
      <3>1. run[r].slot = Len(comments)
        BY <1>r, <2>2 DEF RunCharged
      <3>2. StateComment' = {buildReviewState(r)}
        BY <2>2, <3>1, WrittenIsNewest
      <3>3. FpsOf(StateComment') = run[r].kept \cup FpsOf(run[r].prev)
        BY <1>r, <3>2, BuiltRecords
      <3> QED
        BY <3>3
    <2> QED
      BY <1>10, <2>1, <2>2
  <1>11. ASSUME NEW r \in Runs, WriteState(r)
         PROVE  LossInv'
    <2>1. run[r].pc = "writing" /\ UNCHANGED <<posted, lost>> /\ comments' = Written(r)
      BY <1>11 DEF WriteState
    <2>2. /\ run'[r].pc = "done" /\ ~run'[r].sent
          /\ \A q \in Runs \ {r} : run'[q] = run[q]
      BY <1>11, <1>r DEF WriteState, End, Fresh
    <2>3. run[r].slot = Len(comments) /\ run[r].pc \in Sent
      BY <1>r, <2>1 DEF RunCharged, Sent
    <2>4. FpsOf(StateComment') = run[r].kept \cup FpsOf(run[r].prev)
      <3>1. StateComment' = {buildReviewState(r)}
        BY <2>1, <2>3, WrittenIsNewest
      <3> QED
        BY <1>r, <3>1, BuiltRecords
    <2>5. Charged(FpsOf(StateComment))'
      BY <1>9, <2>1, <2>3, <2>4 DEF Charged
    <2>6. RunCharged(run[r])'
      BY <2>2 DEF RunCharged, Working, Sent
    <2> QED
      BY <1>a, <1>9, <1>o, <2>2, <2>3, <2>5, <2>6
  \* A run that ends without a successful write: its posts are charged to the
  \* losses, all others to the record.
  <1>12. ASSUME NEW r \in Runs, run[r].pc \in Sent, UNCHANGED posted,
                lost' = Bump(lost, run[r].kept), FpsOf(run[r].prev) \subseteq FpsOf(StateComment')
         PROVE  Charged(FpsOf(StateComment))'
    <2>1. \A f \in Fingerprints :
            posted[f] <= lost[f] + IF f \in run[r].kept \cup FpsOf(run[r].prev) THEN 1 ELSE 0
      BY <1>9, <1>12 DEF Charged
    <2>2. \A f \in Fingerprints : lost'[f] = lost[f] + IF f \in run[r].kept THEN 1 ELSE 0
      BY <1>12, <1>n, BumpType
    <2>3. \A f \in Fingerprints :
            posted'[f] <= lost'[f] + IF f \in FpsOf(StateComment') THEN 1 ELSE 0
      BY <1>n, <1>12, <2>1, <2>2
    <2> QED
      BY <2>3 DEF Charged
  <1>13. ASSUME NEW r \in Runs, WriteFails(r)
         PROVE  LossInv'
    <2> DEFINE p == [Retried(r) EXCEPT !.pc = IF @ = "failed" THEN @ ELSE "finding"]
    <2>1. /\ run[r].pc \in Sent /\ UNCHANGED posted /\ run' = [run EXCEPT ![r] = p]
          /\ comments' = comments \/ (run[r].pc = "writing" /\ comments' = Written(r))
          /\ lost' = IF run'[r].pc = "failed" THEN Bump(lost, run[r].kept) ELSE lost
      BY <1>13 DEF WriteFails, Sent
    <2>2. FpsOf(run[r].prev) \subseteq FpsOf(StateComment')
      BY <1>10, <2>1
    <2>3. run'[r] = p /\ \A q \in Runs \ {r} : run'[q] = run[q]
      BY <1>r, <2>1
    <2>4. CASE Retried(r) = End("failed")
      <3>1. p.pc = "failed" /\ ~p.sent
        BY <2>4 DEF End, Fresh
      <3> HIDE DEF p
      <3>2. Charged(FpsOf(StateComment))'
        BY <1>12, <2>1, <2>2, <2>3, <3>1
      <3>3. RunCharged(run[r])'
        BY <2>3, <3>1 DEF RunCharged, Working, Sent
      <3> QED
        BY <1>a, <1>9, <1>o, <2>1, <2>3, <3>2, <3>3
    <2>5. CASE Retried(r) # End("failed")
      <3>1. /\ p.pc = "finding" /\ p.prev = run[r].prev /\ p.kept = run[r].kept /\ p.sent = run[r].sent
        BY <1>r, <2>1, <2>5, RetriedType DEF Locals, Sent
      <3> HIDE DEF p
      <3>2. lost' = lost
        BY <2>1, <2>3, <3>1
      <3>3. RunCharged(run[r])'
        <4>1. Charged(run[r].kept \cup FpsOf(run[r].prev)) /\ run[r].sent
          BY <1>9, <2>1
        <4> QED
          BY <2>1, <2>2, <2>3, <3>1, <3>2, <4>1 DEF RunCharged, Working, Sent, Charged
      <3> QED
        BY <1>a, <1>9, <1>o, <2>1, <2>3, <3>1, <3>3 DEF Sent
    <2> QED
      BY <2>4, <2>5
  <1>14. ASSUME NEW r \in Runs, Fail(r)
         PROVE  LossInv'
    <2>1. /\ Active(r) /\ UNCHANGED <<comments, posted>>
          /\ lost' = IF run[r].sent THEN Bump(lost, run[r].kept) ELSE lost
      BY <1>14 DEF Fail
    <2>2. /\ run'[r].pc = "failed" /\ ~run'[r].sent
          /\ \A q \in Runs \ {r} : run'[q] = run[q]
      BY <1>14, <1>r DEF Fail, End, Fresh
    <2>3. RunCharged(run[r])'
      BY <2>2 DEF RunCharged, Working, Sent
    <2>4. StateComment' = StateComment
      BY <2>1 DEF StateComment
    <2>5. Charged(FpsOf(StateComment))'
      <3>1. CASE run[r].pc \in Sent
        BY <1>9, <1>12, <2>1, <2>4, <3>1
      <3>2. CASE run[r].pc \notin Sent
        <4>1. ~run[r].sent
          BY <1>r, <3>2 DEF RunCharged
        <4> QED
          BY <1>q, <2>1, <2>4, <3>2, <4>1 DEF Charged
      <3> QED
        BY <3>1, <3>2
    <2> QED
      BY <1>a, <1>o, <2>1, <2>2, <2>3, <2>5
  <1>15. CASE Push \/ ForcePush \/ MarkReady \/ OtherBot \/ Finished \/ UNCHANGED vars
    BY <1>1, <1>15 DEF Push, ForcePush, MarkReady, OtherBot, Finished, vars
  <1> QED
    BY <1>2, <1>3, <1>4, <1>5, <1>6, <1>7, <1>8, <1>11, <1>13, <1>14, <1>15 DEF Next, Proceed

(* A new PR and one reviewed before satisfy the invariant.                 *)
LEMMA LossInit == Init => LossInv
  <1> SUFFICES ASSUME Init
               PROVE  LossInv
    OBVIOUS
  <1>1. \A r \in Runs : run[r].pc = "queued" /\ ~run[r].sent
    BY DEF Init, Fresh
  <1>2. OneActive /\ \A r \in Runs : RunCharged(run[r])
    BY <1>1 DEF OneActive, Active, RunCharged, Working, Sent
  <1>3. Charged(FpsOf(StateComment))
    <2>1. lost = [f \in Fingerprints |-> 0]
      BY DEF Init
    <2>2. CASE posted = [f \in Fingerprints |-> 0]
      BY <2>1, <2>2 DEF Charged
    <2>3. ASSUME NEW fps \in SUBSET {1}, comments = <<[sha |-> head, fps |-> fps]>>,
                 posted = [f \in Fingerprints |-> IF f \in fps THEN 1 ELSE 0]
          PROVE  Charged(FpsOf(StateComment))
      <3>1. StateComment = {[sha |-> head, fps |-> fps]}
        BY <2>3 DEF StateComment
      <3>2. FpsOf(StateComment) = fps
        BY <3>1 DEF FpsOf
      <3> QED
        BY <2>1, <2>3, <3>2 DEF Charged
    <2> QED
      BY <2>2, <2>3 DEF Init
  <1> QED
    BY <1>2, <1>3 DEF LossInv

(* The losses account for every repetition LossInv allows for.             *)
LEMMA LossSafe ==
    ASSUME TypeOK, LossInv
    PROVE  \A f \in Fingerprints : posted[f] <= 1 + lost[f]
  <1>1. PICK S : Charged(S)
    BY DEF LossInv, RunCharged
  <1>2. \A f \in Fingerprints : posted[f] \in Nat /\ lost[f] \in Nat
    BY DEF TypeOK
  <1>3. ASSUME NEW f \in Fingerprints
        PROVE  posted[f] <= 1 + lost[f]
    <2>1. posted[f] <= lost[f] + IF f \in S THEN 1 ELSE 0
      BY <1>1 DEF Charged
    <2> QED
      BY <1>2, <2>1
  <1> QED
    BY <1>3

(* Overlap is remembered.                                                  *)
LEMMA OverlapStays ==
    ASSUME TypeOK, [Next]_vars
    PROVE  overlapped => overlapped'
  BY DEF Next, Proceed, Push, ForcePush, MarkReady, OtherBot, GetPR, Coordinate, GetState, Review,
         Post, PostFails, FindState, WriteState, WriteFails, Fail, Finished, vars, TypeOK

(* Runs that did not overlap post a finding again only when an earlier     *)
(* post of it was followed by no successful state write, whatever was      *)
(* pushed, retried, cancelled or lost in between.                          *)
THEOREM RepeatsFollowLosses == Spec => []RepeatsNeedALoss
  <1> DEFINE Inv == ~overlapped => LossInv
  <1>1. Init => Inv
    BY LossInit
  <1>2. TypeOK /\ Inv /\ [Next]_vars => Inv'
    BY LossStep, OverlapStays
  <1>3. TypeOK /\ Inv => RepeatsNeedALoss
    BY LossSafe DEF RepeatsNeedALoss
  <1> HIDE DEF Inv
  <1> QED
    BY <1>1, <1>2, <1>3, TypeInit, TypeStep, PTL DEF Spec
=============================================================================
