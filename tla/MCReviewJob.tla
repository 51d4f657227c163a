----------------------------- MODULE MCReviewJob -----------------------------
(***************************************************************************)
(* The four steps of a review job that share no state, each explored on    *)
(* its own: resolving the configuration, provisioning the workspace,       *)
(* running the agent pipeline, and one provider call under the retry       *)
(* policy.  The variables of the steps that are not explored keep a fixed  *)
(* value.                                                                  *)
(***************************************************************************)
EXTENDS Integers, Sequences, FiniteSets

CONSTANTS Resolvers, TTL, FetchLimit, Horizon, MaxEdits,  \* ConfigResolution; Resolvers: its Jobs
          Files, Dir, Denied, MaxDirs, MaxCommits,        \* Workspace
          RetryAfters, StepLists,                         \* LlmRetry
          Paths, ReviewJobs, MaxFetchFiles,               \* ReviewPipeline
          MaxBytesPerFile, MaxTotalBytes, Marker, FileSizes, MaxCalls

ASSUME ResolutionAssumption ==
    IsFiniteSet(Resolvers) /\ {TTL, FetchLimit, Horizon, MaxEdits} \subseteq Nat
ASSUME RetryAssumption ==
    /\ RetryAfters \subseteq Nat
    /\ StepLists \subseteq Seq(Nat \cup {-1}) \ {<<>>}

VARIABLES step,                                             \* the step explored
          scene, now, org, entries, resolving, cfg, log,    \* ConfigResolution
          fetched, seen,
          job, at, fetch, run, answer, result,              \* ReviewPipeline
          driver, call, errors, last, slept, used, output,  \* LlmRetry
          trees, input, prov, todo, target, dir, written,   \* Workspace
          cleaned, thrown, stuck

Config == INSTANCE ConfigResolution WITH pc <- resolving, Jobs <- Resolvers
Pipeline == INSTANCE ReviewPipeline WITH pc <- at
Retry == INSTANCE LlmRetry WITH pc <- call
Space == INSTANCE Workspace WITH pc <- prov

ASSUME PipelineAssumption ==
    /\ {MaxFetchFiles, MaxBytesPerFile, MaxTotalBytes, Marker, MaxCalls} \subseteq Nat
    /\ FileSizes \subseteq Nat
    /\ \A j \in ReviewJobs : Pipeline!IsReviewJob(j)
-----------------------------------------------------------------------------
(* The values of the constants of Workspace, LlmRetry and ReviewPipeline   *)
(* that TLC explores.                                                      *)
RepoFiles == {"a", "b", "env"}
RepoDirs == [a |-> "src", b |-> "/", env |-> "src"]
ToolSteps == {<<-1>>, <<1, 2, -1>>}

\* A review of two plain files that fits its caps; each family of jobs varies
\* one side of it.  "x" is only ever the text of a removed line.
ReviewPaths == {"a.ts", "b.sql", "x"}
DiffLine(k, p) == [kind |-> k, path |-> p]
Add == DiffLine("add", "x")
ReviewJob ==
    [files |-> <<[path |-> "a.ts", patch |-> <<Add>>], [path |-> "b.sql", patch |-> <<Add>>]>>,
     filters |-> {}, maxFiles |-> 2, maxDiffLines |-> 3, autoFetch |-> {}, rounds |-> 0,
     tree |-> [d |-> "ok", f |-> "none", g |-> "match"], returned |-> <<>>,
     previous |-> {}, rejected |-> {}, muted |-> {},
     ruleset |-> [c \in {} |-> {}], minConfidence |-> "low", requestChangesOn |-> "critical"]

DiffJobs ==
    LET PatchLines == {DiffLine(k, "x") : k \in {"add", "ctx", "pluses", "dashes"}}
                        \cup {DiffLine("dashes", "a.ts")}
        Patches == {<<>>} \cup {<<l>> : l \in PatchLines} \cup {<<Add, Add>>}
                     \cup {<<DiffLine("dashes", "x"), l>> : l \in PatchLines}
        File(p) == [path : {p}, patch : Patches]
    IN  {[ReviewJob EXCEPT !.files = fs, !.filters = D, !.maxFiles = m, !.maxDiffLines = n] :
            fs \in {<<f>> : f \in File("a.ts")} \cup {<<f, g>> : f \in File("a.ts"), g \in File("b.sql")},
            D \in SUBSET ReviewPaths, m \in {1, 2}, n \in {1, 3}}
FetchJobs ==
    {[ReviewJob EXCEPT !.autoFetch = A, !.filters = D] :
        A \in {ReviewPaths, {"b.sql"}}, D \in SUBSET ReviewPaths}
ToolJobs ==
    LET Matches == {"match", "none", "EACCES", "denied"}
        Trees == [d : {"ok", "EACCES", "ENOENT", "EIO"},
                  f : Matches \cup {"ENOENT", "EIO"}, g : Matches]
    IN  {[ReviewJob EXCEPT !.tree = t, !.rounds = 2] : t \in Trees}
Comment(place, rule, severity, confidence, category) ==
    [place |-> place, ruleId |-> rule, severity |-> severity, confidence |-> confidence,
     category |-> category]
UpTo(n, S) == UNION {[1..k -> S] : k \in 0..n}
PolicyJobs ==
    LET Findings ==
            {Comment(1, "unset", s, c, "style") : s \in {"critical", "minor"}, c \in {"high", "low"}}
              \cup {Comment(2, "rule", s, "unset", "unset") : s \in {"major", "minor"}}
        Rulesets ==
            {[c \in {} |-> {}], [c \in {"bug"} |-> [enabled |-> TRUE, min |-> "major"]],
             [c \in {"style"} |-> [enabled |-> FALSE, min |-> "info"]]}
    IN  {[ReviewJob EXCEPT !.returned = R, !.ruleset = r, !.minConfidence = c, !.requestChangesOn = q] :
            R \in UpTo(2, Findings), r \in Rulesets, c \in {"low", "high"},
            q \in {"critical", "major", "never"}}
MemoryJobs ==
    LET One == <<1, "rule">>
        Two == <<2, "major">>
        Findings == {Comment(1, "rule", s, c, "bug") : s \in {"critical", "minor"}, c \in {"high", "low"}}
                      \cup {Comment(2, "unset", "major", "high", "bug")}
        Rules == [c \in {"bug"} |-> [enabled |-> TRUE, min |-> "major"]]
    IN  {[ReviewJob EXCEPT !.returned = R, !.ruleset = Rules, !.minConfidence = "high",
                           !.previous = P, !.rejected = J, !.muted = M] :
            R \in UpTo(3, Findings),
            P \in {{}, {One}}, J \in {{}, {One}, {Two}}, M \in {{}, {One}, {One, Two}}}
ExploredJobs == DiffJobs \cup FetchJobs \cup ToolJobs \cup PolicyJobs \cup MemoryJobs
-----------------------------------------------------------------------------
configVars == <<scene, now, org, entries, resolving, cfg, log, fetched, seen>>
pipelineVars == <<job, at, fetch, run, answer, result>>
retryVars == <<driver, call, errors, last, slept, used, output>>
spaceVars == <<trees, input, prov, todo, target, dir, written, cleaned, thrown, stuck>>

Off == 0
ConfigOff ==
    /\ scene = Off /\ now = Off /\ org = Off /\ entries = Off /\ resolving = Off
    /\ cfg = Off /\ log = Off /\ fetched = Off /\ seen = Off
PipelineOff ==
    /\ job = Off /\ at = Off /\ fetch = Off /\ run = Off /\ answer = Off /\ result = Off
RetryOff ==
    /\ driver = Off /\ call = Off /\ errors = Off /\ last = Off /\ slept = Off
    /\ used = Off /\ output = Off

SpaceOff ==
    /\ trees = Off /\ input = Off /\ prov = Off /\ todo = Off /\ target = Off /\ dir = Off
    /\ written = Off /\ cleaned = Off /\ thrown = Off /\ stuck = Off

JobInit ==
    \/ step = "config"    /\ Config!Init /\ PipelineOff /\ RetryOff /\ SpaceOff
    \/ step = "workspace" /\ Space!Init /\ ConfigOff /\ PipelineOff /\ RetryOff
    \/ step = "pipeline"  /\ Pipeline!Init /\ ConfigOff /\ RetryOff /\ SpaceOff
    \/ step = "call"      /\ Retry!Init /\ ConfigOff /\ PipelineOff /\ SpaceOff

JobNext ==
    /\ UNCHANGED step
    /\ \/ step = "config"    /\ Config!Next /\ UNCHANGED <<pipelineVars, retryVars, spaceVars>>
       \/ step = "workspace" /\ Space!Next /\ UNCHANGED <<configVars, pipelineVars, retryVars>>
       \/ step = "pipeline"  /\ Pipeline!Next /\ UNCHANGED <<configVars, retryVars, spaceVars>>
       \/ step = "call"      /\ Retry!Next /\ UNCHANGED <<configVars, pipelineVars, spaceVars>>

JobSpec == JobInit /\ [][JobNext]_<<step, configVars, pipelineVars, retryVars, spaceVars>>

\* Workspaces are removed and of one commit, or the reason is known
\* (Workspace).
WorkspaceIsExplained == step = "workspace" => Space!WorkspaceExplained

\* Every configuration a job runs with is the one its layers explain
\* (ConfigResolution).
ConfigIsExplained == step = "config" => Config!ConfigExplained

\* Every line of the diff is sent to the model or named as excluded
\* (ReviewPipeline).
LinesAreAccounted == step = "pipeline" => Pipeline!LinesAccounted

\* Comments, counts and event of a review are explained (ReviewPipeline).
CommentsAreExplained == step = "pipeline" /\ at = "done" => Pipeline!CommentsExplained

\* What a review did is what its result reports (ReviewPipeline).
WorkIsReported == step = "pipeline" => Pipeline!WorkReported

\* The cost of a review covers what was paid (ReviewPipeline); it does not hold.
AttemptsArePaid == step = "pipeline" => Pipeline!AttemptsPaid

\* A line like a header never lets a review run that is too large
\* (ReviewPipeline); it does not hold.
HeadersOnlySkip == step = "pipeline" => Pipeline!NeverLessEager

\* Attempts, delays and figures of a provider call are those the policy
\* explains (LlmRetry).
RetriesAreExplained == step = "call" => Retry!RetriesExplained
=============================================================================
