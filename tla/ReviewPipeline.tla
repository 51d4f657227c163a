--------------------------- MODULE ReviewPipeline ---------------------------
(***************************************************************************)
(* One review inside the runner: the diff is split into files, filtered by *)
(* path and held against the size caps; companion files are fetched within *)
(* a budget; the model is called with the workspace tools, once more if    *)
(* its answer does not validate; and the comments it returns are held      *)
(* against earlier reviews, what was rejected or muted, a confidence floor *)
(* and the ruleset before they are posted.                                 *)
(*                                                                         *)
(* A line of the diff is known by its place <<n, k>>: line k of the patch  *)
(* of file n, or for k = 0 the header that the callers put before the      *)
(* file.  A patch line is added, removed or context.  A removed line whose *)
(* text starts with "-- " (a SQL, Lua or Haskell comment) reads "--- text",*)
(* the shape of a header, and an added one that starts with "++ " reads    *)
(* "+++ text"; they are kinds of their own, "dashes" and "pluses".  A glob *)
(* is the set of paths it matches.                                         *)
(***************************************************************************)
EXTENDS Naturals, Sequences, FiniteSets

CONSTANTS Paths,            \* paths of files, and texts of removed lines
          ReviewJobs,       \* the ReviewJobs that may be run, see IsReviewJob
          MaxFetchFiles,    \* AUTO_FETCH_MAX_FILES
          MaxBytesPerFile,  \* AUTO_FETCH_MAX_BYTES_PER_FILE
          MaxTotalBytes,    \* AUTO_FETCH_MAX_TOTAL_BYTES
          Marker,           \* length of the note a cut file ends with
          FileSizes,        \* lengths of the companions that can be read
          MaxCalls          \* bound: tool calls of one kind in one agent step

VARIABLES job,     \* the ReviewJob: diff, filters, caps, comment policy
          pc,      \* where runReview is
          fetch,   \* auto-fetch: candidates left, files, bytes, budget hit
          run,     \* the model calls: attempts, steps, tool calls, cost
          answer,  \* what the tool just called returned
          result   \* the RunnerResult

vars == <<job, pc, fetch, run, answer, result>>
-----------------------------------------------------------------------------
LineKinds == {"add", "ctx", "pluses", "dashes"}
Line(k, p) == [kind |-> k, path |-> p]

\* `--- ${f.path}` and the patch, for every file of the diff.
diffText(files) == UNION {{n} \X (0..Len(files[n].patch)) : n \in DOMAIN files}
LineAt(i) ==
    IF i[2] = 0 THEN Line("header", job.files[i[1]].path) ELSE job.files[i[1]].patch[i[2]]
Before(i, j) == i[1] < j[1] \/ (i[1] = j[1] /\ i[2] < j[2])

FILE_HEADER_LINE(l) == l.kind \in {"header", "dashes"}

\* Every header-like line opens a file that runs to the next one.
parseDiffByFile(text) ==
    LET heads == {i \in text : FILE_HEADER_LINE(LineAt(i))}
    IN  {[path |-> LineAt(h).path, head |-> h,
          body |-> {i \in text : Before(h, i) /\ \A g \in heads : Before(h, g) => Before(i, g)}] :
            h \in heads}

applyPathFilters(files, filters) == {f \in files : f.path \notin filters}

\* Lines of the text that a segment stands for, and that a round trip keeps.
LinesOf(f) == {f.head} \cup f.body
reassembleDiff(files) == UNION {LinesOf(f) : f \in files}

\* Additions and deletions; a line that looks like a header decoration is none.
countDiffLines(files) ==
    Cardinality({i \in UNION {f.body : f \in files} : LineAt(i).kind = "add"})

PathsOf(files) == {f.path : f \in files}
-----------------------------------------------------------------------------
\* Companions of a changed file, the most telling first; the index file is
\* shared by the files of a directory.
candidatesFor(path) == <<<<path, "test">>, <<path, "type">>, <<"dir", "index">>>>

NoResult == [kind |-> "none"]
NoAnswer == [tool |-> "none"]
NoneDropped == [duplicates |-> 0, feedback |-> 0, ruleset |-> 0, suppression |-> 0]

\* The workspace as a tool call meets it: directory d holding f, and file g.
Trees == [d : {"ok", "EACCES", "ENOENT", "EIO"},
          f : {"match", "none", "EACCES", "ENOENT", "EIO", "denied"},
          g : {"match", "none", "EACCES", "denied"}]

SEVERITY_RANK == [critical |-> 3, major |-> 2, minor |-> 1, info |-> 0]
CONFIDENCES == [high |-> 0, medium |-> 1, low |-> 2]   \* their places in the list

\* A ReviewJob.  autoFetch: the paths that an instruction with auto_fetch
\* matches; rounds: the tool rounds the model asks for, at most the step limit
\* of the configuration; returned: the comments of its answer, in order, each
\* with its place (path, line and whether it suggests a replacement); previous,
\* rejected and muted: the fingerprints of the state of the last review, of the
\* history's rejected findings and of the suppression rules.
IsReviewJob(j) ==
    /\ j.files \in Seq([path : Paths, patch : Seq([kind : LineKinds, path : Paths])])
    /\ j.filters \subseteq Paths /\ j.autoFetch \subseteq Paths
    /\ {j.maxFiles, j.maxDiffLines, j.rounds} \subseteq Nat
    /\ j.tree \in Trees
    /\ DOMAIN j.returned = 1..Len(j.returned) /\ Len(j.returned) \in Nat
    /\ \A n \in DOMAIN j.returned :
          /\ j.returned[n].severity \in DOMAIN SEVERITY_RANK
          /\ j.returned[n].confidence \in DOMAIN CONFIDENCES \cup {"unset"}
    /\ \A cat \in DOMAIN j.ruleset :
          j.ruleset[cat] \in [enabled : BOOLEAN, min : DOMAIN SEVERITY_RANK]
    /\ j.minConfidence \in DOMAIN CONFIDENCES
    /\ j.requestChangesOn \in {"critical", "major", "never"}

Init ==
    /\ job \in ReviewJobs
    /\ pc = "skills"
    /\ fetch = [queue |-> {}, files |-> <<>>, seen |-> {}, total |-> 0, hit |-> FALSE]
    /\ run = [attempt |-> 0, steps |-> 0, counter |-> 0, sdk |-> 0, asked |-> 0, paid |-> 0]
    /\ answer = NoAnswer
    /\ result = NoResult

\* Promise.all: one skill that cannot be read or parsed fails the run.
loadSkills ==
    /\ pc = "skills"
    /\ pc' \in {"history", "failed"}
    /\ UNCHANGED <<job, fetch, run, answer, result>>

\* The rejected findings and the muted fingerprints are read: no review is run
\* without them when a read fails.
historyReader ==
    /\ pc = "history"
    /\ pc' \in {"diff", "failed"}
    /\ UNCHANGED <<job, fetch, run, answer, result>>

Text    == diffText(job.files)
Parsed  == parseDiffByFile(Text)
Kept    == applyPathFilters(Parsed, job.filters)

pathFilterExclusions == PathsOf(Parsed) \ PathsOf(Kept)

CapOnlyExclusions(caps) == IF caps = {} THEN pathFilterExclusions ELSE PathsOf(Kept)

\* Files the report names: those a filter removed, and under a cap all others.
exclusionReport(caps) ==
    pathFilterExclusions \cup IF caps = {} THEN {} ELSE PathsOf(Kept)

CapsExceeded ==
    IF Cardinality(Kept) > job.maxFiles THEN {"max_files"}
    ELSE IF countDiffLines(Kept) > job.maxDiffLines THEN {"max_diff_lines"} ELSE {}

\* The caps come first: a review that is too large costs nothing.
buildCapSkipResult ==
    /\ pc = "diff" /\ CapsExceeded # {}
    /\ result' = [kind |-> "capped", excluded |-> exclusionReport(CapsExceeded), sent |-> {},
                  toolCalls |-> 0, cost |-> 0, posted |-> {}, dropped |-> NoneDropped,
                  event |-> "COMMENT"]
    /\ pc' = "record"
    /\ UNCHANGED <<job, fetch, run, answer>>

\* Within the caps the text goes on, and companions are looked up for the paths
\* that were kept, or for the paths of the diff when no filter matched.
EnterFetch ==
    LET changed == IF Kept = Parsed THEN {<<n, 0>> : n \in DOMAIN job.files}
                   ELSE {f.head : f \in Kept}
        matched == {h \in changed : LineAt(h).path \in job.autoFetch}
    IN  /\ pc = "diff" /\ CapsExceeded = {}
        /\ fetch' = [fetch EXCEPT !.queue = matched \X (1..3)]
        /\ pc' = "fetch"
        /\ UNCHANGED <<job, run, answer, result>>
-----------------------------------------------------------------------------
Cut(n) == IF n > MaxBytesPerFile THEN MaxBytesPerFile + Marker ELSE n

\* A file is cut to its own limit and then to what is left of the total; one
\* that cannot be read is skipped.
tryReadFile(path, left) ==
    \/ fetch' = [fetch EXCEPT !.queue = left, !.seen = @ \cup {path}]
    \/ \E n \in FileSizes :
         LET size      == Cut(n)
             remaining == MaxTotalBytes - fetch.total
             trimmed   == IF size > remaining THEN remaining ELSE size
         IN  fetch' = [queue |-> IF trimmed < size THEN {} ELSE left,
                       files |-> Append(fetch.files, [path |-> path, size |-> trimmed, of |-> size]),
                       seen  |-> fetch.seen \cup {path},
                       total |-> fetch.total + trimmed,
                       hit   |-> fetch.hit \/ trimmed < size]

\* One round of the loop, for the first candidate of the first changed line
\* that is left: one seen before is passed over; a budget that is used up ends
\* the loop and is noted.
collectAutoFetchContext ==
    /\ pc = "fetch"
    /\ \E q \in fetch.queue :
         /\ \A r \in fetch.queue \ {q} : Before(q[1], r[1]) \/ (q[1] = r[1] /\ q[2] < r[2])
         /\ LET path == candidatesFor(LineAt(q[1]).path)[q[2]]
                left == fetch.queue \ {q}
            IN  IF path \in fetch.seen THEN fetch' = [fetch EXCEPT !.queue = left]
                ELSE IF Len(fetch.files) >= MaxFetchFiles \/ fetch.total >= MaxTotalBytes
                THEN fetch' = [fetch EXCEPT !.queue = {}, !.hit = TRUE]
                ELSE tryReadFile(path, left)
    /\ UNCHANGED <<job, pc, run, answer, result>>

\* The model is called; the provider counts steps and tool calls afresh.
generateReview ==
    /\ \/ pc = "fetch" /\ fetch.queue = {}
       \/ pc = "retry"
    /\ pc' = "model"
    /\ run' = [run EXCEPT !.attempt = @ + 1, !.steps = 0, !.sdk = 0, !.paid = @ + 1]
    /\ answer' = NoAnswer
    /\ UNCHANGED <<job, fetch, result>>
-----------------------------------------------------------------------------
Reached(tree) == {"g"} \cup IF tree.d = "ok" THEN {"f"} ELSE {}

\* What vanished is skipped, what may not be read leaves a marker, any other
\* error fails the call; denied entries are left out in silence.
grepInDir(tree) ==
    [tool |-> "grep", tree |-> tree,
     failed |-> \E x \in {"d"} \cup Reached(tree) : tree[x] = "EIO",
     out |-> {x \in Reached(tree) : tree[x] = "match"}
               \cup {"marker" : x \in {y \in {"d"} \cup Reached(tree) : tree[y] = "EACCES"}}]

\* glob lists what it reaches; a directory it cannot read is empty to it.
walk(tree) ==
    [tool |-> "glob", tree |-> tree, failed |-> FALSE,
     out |-> {x \in Reached(tree) : tree[x] \notin {"denied", "ENOENT"}}]

\* read_file refuses or answers; a refusal is a failed call that was counted.
read_file(tree) ==
    [tool |-> "read_file", tree |-> tree, failed |-> tree.g # "match", out |-> {}]

\* One agent step: some calls are dispatched (onCall counts them), others have
\* arguments the SDK cannot parse, so only the SDK counts those.
createAiSdkToolset ==
    /\ pc = "model" /\ run.steps < job.rounds
    /\ \E ok \in 0..MaxCalls, bad \in 0..MaxCalls :
         /\ ok + bad > 0
         /\ run' = [run EXCEPT !.steps = @ + 1, !.counter = @ + ok, !.sdk = @ + ok + bad,
                               !.asked = @ + ok + bad]
         /\ answer' \in IF ok = 0 THEN {NoAnswer}
                        ELSE {grepInDir(job.tree), walk(job.tree), read_file(job.tree)}
    /\ UNCHANGED <<job, pc, fetch, result>>
-----------------------------------------------------------------------------
Aborted ==
    /\ pc' = "record"
    /\ result' = [kind |-> "aborted", excluded |-> exclusionReport({}), sent |-> reassembleDiff(Kept),
                  toolCalls |-> run.counter, cost |-> 0, posted |-> {}, dropped |-> NoneDropped,
                  event |-> "COMMENT"]

\* The answer fails validation: the first time the call is repeated with a
\* corrective prompt, the second time the review is given up, not thrown.
validateOutput ==
    /\ pc = "model"
    /\ IF run.attempt = 1 THEN pc' = "retry" /\ UNCHANGED result ELSE Aborted
    /\ answer' = NoAnswer
    /\ UNCHANGED <<job, fetch, run>>

\* A provider error, or a scan that stops the review, is thrown to the caller.
Throws ==
    /\ pc = "model"
    /\ pc' = "failed"
    /\ answer' = NoAnswer
    /\ UNCHANGED <<job, fetch, run, result>>

meetsConfidence(c, floor) ==
    LET declared == IF c.confidence = "unset" THEN "high" ELSE c.confidence
    IN  CONFIDENCES[declared] <= CONFIDENCES[floor]

\* An entry of the ruleset: is the category on, and from which severity.
Ruleset(cat) ==
    IF cat \in DOMAIN job.ruleset THEN job.ruleset[cat] ELSE [enabled |-> TRUE, min |-> "info"]

DEFAULT_RULESET_CATEGORY == "bug"
CategoryOf(c) == IF c.category = "unset" THEN DEFAULT_RULESET_CATEGORY ELSE c.category

applyRulesetFilter(c) ==
    LET entry == Ruleset(CategoryOf(c))
    IN  entry.enabled /\ SEVERITY_RANK[c.severity] >= SEVERITY_RANK[entry.min]

computeReviewEvent(comments) ==
    IF /\ job.requestChangesOn # "never"
       /\ \E c \in comments : SEVERITY_RANK[c.severity] >= SEVERITY_RANK[job.requestChangesOn]
    THEN "REQUEST_CHANGES" ELSE "COMMENT"

PreferProvider == IF run.sdk > 0 THEN run.sdk ELSE run.counter

toolCalls == IF run.sdk > run.counter THEN run.sdk ELSE run.counter

\* What makes two comments the same finding; the hash has no collisions.
ruleIdFor(c) == IF c.ruleId = "unset" THEN c.severity ELSE c.ruleId
fingerprint(c) == <<c.place, ruleIdFor(c)>>
FingerprintAt(n) == fingerprint(job.returned[n])

\* The comments, by number: those found before and rejected; of the others the
\* first mention of each finding that is not in the state of the last review;
\* and what the filters after that leave.
byFeedback == {n \in DOMAIN job.returned : FingerprintAt(n) \in job.rejected}
AgainstStateOnly ==   \* mutant: a finding is not held against the same answer
    {n \in DOMAIN job.returned \ byFeedback : FingerprintAt(n) \notin job.previous}
dedupComments ==
    {n \in DOMAIN job.returned \ byFeedback :
        /\ FingerprintAt(n) \notin job.previous
        /\ \A m \in 1..(n - 1) : FingerprintAt(m) # FingerprintAt(n)}
afterConfidence == {n \in dedupComments : meetsConfidence(job.returned[n], job.minConfidence)}
afterRuleset == {n \in afterConfidence : applyRulesetFilter(job.returned[n])}
afterSuppression == {n \in afterRuleset : FingerprintAt(n) \notin job.muted}

dropped ==
    [duplicates  |-> Cardinality((DOMAIN job.returned \ byFeedback) \ dedupComments),
     feedback    |-> Cardinality(byFeedback),
     ruleset     |-> Cardinality(afterConfidence \ afterRuleset),
     suppression |-> Cardinality(afterRuleset \ afterSuppression)]

\* The answer is good: it is filtered, counted, and the event is that of what is
\* left.  Only this call's cost is reported.  (Without a loader of suppression
\* rules the code leaves their count out; here it is 0.)
Publish ==
    /\ pc = "model"
    /\ result' = [kind |-> "reviewed", excluded |-> exclusionReport({}),
                  sent |-> reassembleDiff(Kept), toolCalls |-> toolCalls, cost |-> 1,
                  posted |-> afterSuppression, dropped |-> dropped,
                  event |-> computeReviewEvent({job.returned[n] : n \in afterSuppression})]
    /\ pc' = "record"
    /\ answer' = NoAnswer
    /\ UNCHANGED <<job, fetch, run>>

\* The evaluation row is written once, and a failure to write it is swallowed.
recordEvalEvent ==
    /\ pc = "record"
    /\ pc' = "done"
    /\ UNCHANGED <<job, fetch, run, answer, result>>

Next ==
    \/ loadSkills \/ historyReader \/ buildCapSkipResult \/ EnterFetch \/ collectAutoFetchContext
    \/ generateReview \/ createAiSdkToolset \/ validateOutput \/ Throws \/ Publish
    \/ recordEvalEvent

Spec == Init /\ [][Next]_vars
-----------------------------------------------------------------------------
\* The file of the pull request a line of the text really belongs to.
Owner(i) == job.files[i[1]]
Plain(file) == \A k \in DOMAIN file.patch : ~FILE_HEADER_LINE(file.patch[k])

\* Every line of the diff either reaches the model or lies in a part that the
\* exclusion report names, never both; for a file without header-like lines
\* that part is the file itself, filtered or capped as a whole; and a capped
\* review has called neither the model nor auto-fetch (parseDiffByFile,
\* applyPathFilters, countDiffLines and the caps of runReviewInner).
LinesAccounted ==
    pc = "done" =>
        /\ \A i \in Text :
             /\ \E f \in Parsed : i \in LinesOf(f)
             /\ \A f \in Parsed :
                  i \in LinesOf(f) => (i \in result.sent) # (f.path \in result.excluded)
             /\ Plain(Owner(i)) =>
                  ((i \in result.sent) <=>
                      (result.kind # "capped" /\ Owner(i).path \notin job.filters))
        /\ result.kind = "capped" => run.attempt = 0 /\ fetch.files = <<>>

\* What lies below a confidence or a severity.
LessConfident == [high |-> {"medium", "low"}, medium |-> {"low"}, low |-> {}]
LessSevere == [critical |-> {"major", "minor", "info"}, major |-> {"minor", "info"},
               minor |-> {"info"}, info |-> {}]

Below(c) == c.confidence \in LessConfident[job.minConfidence]
RuledOut(c) ==
    /\ CategoryOf(c) \in DOMAIN job.ruleset
    /\ LET entry == job.ruleset[CategoryOf(c)]
       IN  entry.enabled => c.severity \in LessSevere[entry.min]

\* A comment repeats a finding of the last review or an earlier one of its own
\* answer, also one that is not posted itself.
Repeats(n) ==
    \/ FingerprintAt(n) \in job.previous
    \/ \E m \in 1..(n - 1) : FingerprintAt(m) = FingerprintAt(n)

\* The comments of an answer and the event of the review: a comment is missing
\* exactly if its finding was rejected or muted or is a repetition, or the
\* comment lies below the confidence floor or is excluded by the ruleset; the
\* counts of the result cover every comment that is missing but those that only
\* the floor keeps back, so each is counted once; and changes are requested
\* exactly for a posted comment that is severe enough (dedupComments and the
\* filters of runReviewInner).
CommentsExplained ==
    /\ result.kind = "reviewed" =>
         /\ result.posted =
              {n \in DOMAIN job.returned :
                 LET c == job.returned[n]
                 IN  ~(\/ fingerprint(c) \in job.rejected \cup job.muted
                       \/ Repeats(n) \/ Below(c) \/ RuledOut(c))}
         /\ Cardinality({n \in DOMAIN job.returned :
                           FingerprintAt(n) \in job.rejected \/ Repeats(n)
                             \/ ~Below(job.returned[n])})
              = Cardinality(result.posted) + result.dropped.duplicates + result.dropped.feedback
                  + result.dropped.ruleset + result.dropped.suppression
    /\ result.event = "REQUEST_CHANGES" <=>
         \E n \in result.posted :
            /\ job.requestChangesOn # "never"
            /\ job.returned[n].severity \in {"critical", job.requestChangesOn}

\* The companions: they stay within the budget, and unless the budget was hit
\* every companion of a file that no filter matches was tried and none was cut
\* by the total.
CompanionsExplained ==
    /\ fetch.total <= MaxTotalBytes /\ Len(fetch.files) <= MaxFetchFiles
    /\ pc \in {"model", "done"} /\ run.attempt > 0 /\ ~fetch.hit =>
         /\ \A n \in DOMAIN job.files :
              LET path == job.files[n].path
              IN  path \in job.autoFetch \ job.filters =>
                     \A c \in 1..3 : candidatesFor(path)[c] \in fetch.seen
         /\ \A n \in DOMAIN fetch.files : fetch.files[n].size = fetch.files[n].of

\* A search that neither fails nor marks anything has looked at every file that
\* was there and allowed.
SearchExplained ==
    answer.tool = "grep" /\ ~answer.failed /\ "marker" \notin answer.out =>
        /\ answer.tree.g = "match" => "g" \in answer.out
        /\ answer.tree.f = "match" /\ answer.tree.d # "ENOENT" => "f" \in answer.out

\* The work of a review is reported: the tool calls in the result cover every
\* call that was dispatched and invent none, the cost leaves out exactly the
\* answers that were rejected, and companions and searches are explained
\* (runReviewInner, collectAutoFetchContext, grepInDir).
WorkReported ==
    /\ pc = "done" =>
         /\ run.counter <= result.toolCalls /\ result.toolCalls <= run.asked
         /\ result.cost + Cardinality({k \in 1..run.attempt :
                                         k < run.attempt \/ result.kind = "aborted"}) = run.paid
         /\ run.attempt <= 2
    /\ CompanionsExplained
    /\ SearchExplained

\* What the comment on the abort path of runReviewInner promises: the cost that
\* is reported covers both attempts.  It does not hold: the cost guard sees the
\* answer that passed, and of an aborted review none.
AttemptsPaid == pc = "done" => result.cost = run.paid

\* What the comment on FILE_HEADER_LINE promises of a removed line that reads
\* like a header: it makes a review skip more eagerly, never less, so a review
\* that is run has no more added lines in the files no filter matches than
\* max_diff_lines allows.  It does not hold: the lines after the false header
\* are filtered with the path it names.
NeverLessEager ==
    pc = "done" /\ result.kind # "capped" =>
        Cardinality({i \in Text : /\ Owner(i).path \notin job.filters
                                 /\ LineAt(i).kind = "add"}) <= job.maxDiffLines
=============================================================================
