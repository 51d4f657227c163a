# A TLA+ model of review-agent

This directory holds TLA+ specifications of review-agent: the webhook receivers
of GitHub and CodeCommit, the job queue and its workers, a review run from its
configuration and workspace to its hidden state comment, the agent pipeline and
the retry policy of its model calls, the feedback loop over `review_history`,
the cost ledger with the calls and replies it bounds, the tamper-evident audit
log, the store of LLM keys behind its API, and the dashboard with its query
cache. TLC checks them on small instances, and TLAPS proves most of the safety
properties, and one refinement, for every value of the constants. `PROJECT.json`
lists the components, the runs, the source lines behind every definition, the
mutants that show each property can fail, the findings, the hazards and the
theorems.

Paths below are relative to `packages/` unless they start with `docs/` or
`examples/`.

## The system

review-agent reviews pull requests with a language model. It runs in three
ways: as a GitHub Action (`action/`), as a CLI (`cli/`) and as a server
(`server/`) that receives webhooks, puts jobs on an SQS queue and runs them in
workers. `runner/` runs one review, `platform-github/` and
`platform-codecommit/` talk to the forge, `db/` keeps the server's Postgres
tables, `core/` holds the shared types and algorithms, `llm/` the providers,
`config/` the configuration and `web/` the dashboard.

| Component | State it keeps | Operations | What makes it correct |
|---|---|---|---|
| Webhook receiver (`server/src/handlers/webhook.ts`, `middleware/idempotency.ts`) | `webhook_deliveries` rows, the `review_state` row of a PR | claim a delivery, suppress or route an event, `/skip`, `/resume`, `/review`, enqueue | a delivery yields one job however often it is posted; a paused PR is left alone; an event that must lead to a job does |
| Periodic sweeps (`server/src/worker.ts`) | the same rows and `review_history`, two advisory locks | elect a worker, delete expired rows | the sweep never makes a delivery count twice within the retention; workers do not sweep at once and do not keep each other out |
| Job queue and workers (`server/src/queue/sqs.ts`, `worker.ts`, `lambda-worker.ts`) | messages with a visibility timeout and a receive count; a worker's batch | send, receive, debounce, run, delete, stop | no job is lost, none runs twice at once unless it outlasts the visibility timeout, none circulates forever, the newest head is reviewed |
| Review run (`action/src/run.ts`, `core/src/incremental.ts`, `runner/src/middleware/dedup.ts`, `platform-github/src/adapter.ts`) | the hidden state comment of a PR | check draft and other bots, read the state, choose the diff, review, deduplicate, post, write the state | no finding is posted twice, no commit is skipped by an incremental review |
| Audit log (`db/src/audit-log.ts`, `db/src/audit-retention.ts`, `core/src/audit.ts`) | `audit_log` rows linked by hashes | append, prune, verify, export | one chain, no break without tampering, retention respected |
| Cost guard and ledger (`runner/src/middleware/cost-guard.ts`, `core/src/cost.ts`, `db/src/cost-ledger.ts`) | `cost_ledger`, `installation_cost_daily` | estimate, read the totals, admit or refuse, record | the caps are passed by no more than the calls under way; a refused job is not run again that day |
| BYOK keys and their API (`server/src/api/llm-keys.ts`, `db/src/byok-store.ts`) | one encrypted secret per provider, pooled connections | upsert, rotate, delete, list, audit | a request takes effect once; an acknowledged change is audited; requests are answered |
| Conversation replies (`runner/src/conversation-runner.ts`, `db/src/conversation-state.ts`) | turn counts per thread | count, answer, post | the turn limit is passed by no more than the replies under way |
| Feedback and suppression (`runner/src/feedback-writer.ts`, `db/src/review-history.ts`, `cli/src/commands/feedback-backfill.ts`, `recover.ts`, `suppression-remove.ts`) | `review_history`, suppression rules, the backfill's state file | record, count, suppress, backfill, recover, remove, expire, read | enough rejections mute a finding; a review posts nothing that stayed rejected or muted |
| Agent pipeline (`runner/src/agent.ts`, `diff-filter.ts`, `auto-fetch.ts`, `tools.ts`) | locals of one review | split and filter the diff, cap it, fetch companions, call the model with tools, filter comments | every line is sent or reported, the result accounts for the work |
| LLM providers (`llm/src`), retry (`core/src/retry.ts`) | attempts of one call | classify, back off, try again, convert the answer | attempts, delays and figures follow the policy |
| Configuration (`config/src`) | the organisation file's cache | presets, defaults, environment, flags, merge | each value comes from the layer that should win; the cache is not too old |
| Workspace (`server/src/workspace.ts`, `platform-github/src/clone.ts`) | a temporary directory | provision in one of three ways, clean up | one commit, all allowed files, nothing left behind |
| CodeCommit (`server/src/handlers/codecommit-webhook.ts`, `platform-codecommit/src/adapter.ts`, `cli/src/commands/recover*.ts`) | SNS messages, comments, approval states, `review_history` | receive, review and approve, recover feedback | acknowledged means handled; an approval has its review; feedback is restored once |
| GitHub App onboarding (`server/src/github-setup.ts`, `api/github-repos.ts`, `platform-github/src/app-auth.ts`) | `github_installations`, `repos`, cached tokens | events, setup redirect, registration | the rows agree with GitHub; a repository is registered once |
| Dashboard (`server/src/api`, `web/src`) | the `repos` rows, `review_eval_event`, the query cache, drafts | read, change, page through the history | own changes are shown, drafts kept, no row missed |
| Comment commands (`handlers/parse-command.ts` and its callers) | none | read a comment | the three readers agree |
| Telemetry, signature checks | none of their own | | outside this model |

How they interact: GitHub posts to the receiver, which claims the delivery,
reads and writes `review_state` and sends a message; a worker receives the
message, may drop it as stale, runs the review and upserts `review_state`, which
the receiver reads for the next event. A review reads and writes comments of the
pull request, which other runs do as well. The API and the workers append to
the audit log; the CLI prunes and exports it. Reactions to posted comments become
rows of `review_history`, which the next review reads. The dashboard reads and
changes the tables through the API, next to other operators who do the same.

The hard behaviours: no lock covers any read that a later write depends on (the
newest hash, the paused flag, the state comment); every delivery path is
at-least-once; any process may die between two awaits; and time is compared
between clock readings taken by different steps.

## Modules

`X.tla` is the specification, `MCX.tla` the module TLC runs with the
`MCX_*.cfg` files, `XProofs.tla` the theorems. Five MC modules explore several
specifications that share no state, one at a time (a variable picks the part,
the others keep a fixed value), so that one TLC run answers for all of them:

| MC module | Parts |
|---|---|
| `MCReviewJob` | ConfigResolution, Workspace, ReviewPipeline, LlmRetry: the steps of one job |
| `MCJobs` | those of `MCReviewJob` and CostControl, the calls and replies the ledger bounds |
| `MCTables` | AuditLog, FeedbackLoop |
| `MCHostEvents` | RepoOnboarding, CodeCommit, WebhookIntake with commands, CommentCommands, SweepElection |
| `MCDashboard` | RepoConsole, HistoryPages, KeysPage |

`MCCostControl` has the instance of the one violation run about the ledger. A
definition marked `mutant` is a plausible bug of the definition next to it;
nothing in a specification uses it. Specifications with many inputs take them
from `Scenes`, a set of records that say which actors and how many of their
actions take part, so that each scene stays small and all interleavings within
it are explored.

### AuditLog

Each statement of an append (`SelectLast`, `BuildRow`, `InsertRow`, `Commit`)
and of a prune (`PruneSelect`, `PruneDelete`, `PruneVerify`) is an action,
because Postgres runs them at READ COMMITTED and nothing is locked in between.
Ids come from a sequence that a rollback does not turn back. A hash is modelled
as the sequence of payloads it commits to, so equal hashes mean equal histories:
SHA-256 is taken as collision free, and `AUDIT_GENESIS_HASH` is the empty
sequence. A payload keeps a timestamp and an installation, the two fields the
pruner and the exporter tell rows apart by. `scoped`, chosen in the initial
state and never changed, says whether the appender's SELECT runs under the
row-level security policy; both deployments exist in the docs. `raced` is
history: two appends have overlapped. The properties named `Serial...` say what
holds as long as they have not; `NoDangling` holds in any case. `SerialArchive`
is about what the CLI does with the chain: exports verify and nothing younger
than the retention is deleted. The pruner and the exporter run under the CLI's
role, which bypasses row-level security.

### WebhookIntake

One pull request and any number of deliveries. The steps of a request are the
ones its awaits separate: `Claim` (the insert of the idempotency middleware),
`Route` (the early returns, with the reads of `review_state`), `SetPaused`
(`/skip`, `/resume`), `Enqueue`. `Fail` ends a request at any of them and leaves
what was committed. `Sweep` deletes expired delivery rows and `ReviewDone` is
the worker's upsert of `review_state`. All early returns that depend on the
payload alone are one event kind, `ignored`. `DbErrors` lets a read of
`review_state` fail, which the handler treats as "no row". `lastDone` is history,
the time of the worker's last upsert, and so are `skip` and `seen` in a request
and in a job: whether the PR was skipped when the request was claimed, and the
finished review that the row it was routed by shows (`Shown`: none if the read
failed or a slow `/skip` has moved the row's time back before that review).
`MCHostEvents` instantiates the module a second time with the commands, on pull
requests that were reviewed before and on new ones.

### JobQueue

`Send`, `Receive` and `Ack` are the calls of the SQS client; `Take`, `Check`,
`HandlerDone`, `HandlerFail` and `EndBatch` are the loop of `dequeue` and of the
Lambda handler, which the workers in `Lambda` run; `Stop` and `Halt` are the abort
signal. SQS is external and modelled from its use: a visibility timeout, a
receive count, a dead-letter queue, deletes that may fail. A `DeleteMessage`
with an outdated receipt may or may not delete. `Tick` moves every timer at
once; `MaxRun` is the longest a worker stays with a message (or an invocation)
before it ends or is killed, a bound of the model only: the code has none, so it
reaches `Visibility` in every run. `idFor` and `stateId` are the two ids under which
the mirror writes and the worker looks up a pull request.

### ReviewRun

Runs of `runAction` on one pull request. Every call to GitHub is a step:
`getPR` and `decideSkip` (drafts), `getExistingComments` and
`decideCoordination` (another review bot has commented), `GetState`, `Review`
(diff strategy, diff, model and dedup), `Post`, `FindState`, `WriteState`;
`PostFails` and `WriteFails` are attempts that fail before or after they took
effect, `Fail` is an error that is not retried or a cancelled run. `MarkReady`
and `OtherBot` are what others do to the pull request meanwhile. History is a
set of lines: commit `n` of line `e`, and a force push opens a new line and never
returns to an old one. A finding's fingerprint belongs to its position `n` and so
survives a rewrite. `HeadRefs` lists what `HEAD` may mean in GitHub's compare
call; GitHub is external, so the run allows the PR's head and the default branch.
`Aborts` lets the model's output fail validation. The initial state may hold the
state comment of an earlier review. `posted`, `lost`, `covered`, `missed` and
`overlapped` are history: how often a finding was posted, how often no state
write followed, which commits were in the diff of a posted review, which were
left to an aborted review or a compare with the default branch, and whether two
runs overlapped.

### FeedbackLoop

The `review_history` table of one repository, as the set `facts`. `RecordFact`, `Count`, `CheckRule` and
`createSuppressionRule` are the awaits of `createFeedbackWriter(...).record`,
with its rate limit and the errors it throws or swallows; `WritesOfJob` says
whether an event belongs to the job of the last one or to a new job and writer. `BackfillStart`, `BackfillReaction`, `BackfillPr` and
`BackfillEnd` walk the PRs with the state file, and `BackfillStops` interrupts
them; `RecoverRead` and `RecoverInsert` are the snapshot and the insert of
`recover feedback-history`. `deleteSuppressionRule`, `Expire` and
`pruneExpiredReviewHistory` take rows away. A review is `ReviewStart`,
`ReadHistory` (the newest `MaxFacts` rows of every type), `ReadRules` and
`Publish`, which drops what the two reads returned from an arbitrary set of
findings; the PR has no earlier review, so nothing else is dropped. A row's text is
abstracted to the reaction it is about and who worded it, which is what the
recovery compares; its fingerprint is the finding. Which process calls the
writer is left to the deployment, so `React` gives a reaction to an idle worker
or to none. `quiet` (what the table said throughout the review) and `due` (the
findings that reached the threshold) are history.

### CostControl

The model calls of one installation. A process runs a review or a reply, and
every database statement, call and post is a step. A review is `Preflight` (the
early returns of `runReviewInner`, the estimate), `ReadRunning` and `ReadDaily`
(the two SELECTs of `createCostTotalsReader`, then `decideCostAction`),
`Generate` (one model call, repeated once when its output is not valid),
`RecordSuccess`, `Refuse` (the `cost_exceeded` row of either check) and
`Finish`. A reply is `ReadTurn` and `AddTurn` (the SELECT and the upsert of
`incrementConversationTurn`), the same check with no estimate and no daily cap,
`Generate`, `RecordSuccess` and `PostReply`. `Start` delivers a job, also again
or twice at once; `Throw` ends a process at any step; `NewDay` is midnight, also
between the moment the totals are asked for (`AskTotals` fixes the date) and
the statements that read and record. `wired` says whether the guard or the reply was given the
ledger: `docs/cost/index.md` shows how, but `runReview` itself builds a guard
that knows only the review's own total, so both are modelled. Costs are natural
numbers and the ratios 0.8 and 1.5 are cleared of fractions; the fallback hint
changes nothing in this code. `charged`, `reviewed`, `refused`, `admitted` and
`replies`, and `capped` and `late` in a process, are history.

### KeyRegister, KeyStore and ApiGate

KeyRegister is the abstract specification of the key API for one provider of one
installation: a request takes effect at one moment between its call and its
answer; a rotation writes back a value the key had since it was called; a request
answered with an error may or may not have taken effect. KeyStore is the code: a
request passes the checks of ApiGate (CORS, token, mounted routes, multi-tenant
guard, body), takes a pooled connection, opens a transaction, reads, encrypts,
writes (waiting for the row lock) and, before it commits, appends to the audit
log on a second connection. `Register` maps it to KeyRegister with `secret <- row`,
the committed row, and `RegisterSpec` is the refinement. `lost` is history: whose
audit append failed, which the code swallows.

### RepoConsole, HistoryPages, KeysPage

RepoConsole is one registered repository: the handlers of `api/repos.ts`, each of
two or three statements without a transaction (`selectLive`, `update`,
`refetch`), the query cache of the browser (entries with data, staleness, a fetch
under way, observers; react-query is external), the list, detail and prompt
pages with draft, dialogs and navigation guard, the mock mode, and `Operator`,
another client. HistoryPages is the review history: jobs record their cost and
event, the recovery looks for missing events and inserts them, and the page walks
the table with a cursor; the cursor keeps milliseconds of a microsecond column,
and one filter is applied after the query. A page is a set of rows, ordered by
`Later`. KeysPage is the page for LLM keys with two mutation hooks per action,
switching installations, retyping and leaving while calls are in flight.

### RepoOnboarding

The life of one App installation at GitHub, its events (which may be lost or
overtake each other), the setup redirect that reads GitHub and upserts later, the
installation token's cache, the registration page and `POST /repos/bulk`, in
which every name is inserted on its own after one read of the existing names,
next to `POST /repos`, which does not look.

### CodeCommit

Requests of SNS with their retries (`verifySnsSignature`, the bypass of the
idempotency check for control messages, `idempotency`, `confirmSubscription`,
`handleNotification`); a review through the adapter (`getPR`, `getDiff`,
`runReview`, `postReview`, `postComment`, `applyApprovalState`) while the pull
request is pushed to and closed; replies with `/feedback`; and the recovery
(listing open, then closed pull requests, scraping replies, `selectExisting`,
`insertFresh`). AWS drops an approval when a new revision is pushed.

### CommentCommands

A comment is a sequence of words, a word a stem with what is glued before and
after it. `parseFeedbackCommand`, `parseSlashCommand` and `parseCommand` are read
in the order of `handleWebhook` and of the CodeCommit handler, with the author's
permission and with a conversation handler wired or not; `parseFeedbackKind` is
the recovery's own parser.

### SweepElection

Timers of two workers for two sweeps. A lock of PostgreSQL belongs to a session;
`tryAcquireLock` and `releaseLock` run on any session of the worker's pool.
`CloseSession` and `Crash` are the faults, `leaked` (locks an unlock missed) and
`dropped` (sweeps whose lock went with a session) are history.

### ConfigResolution, Workspace, ReviewPipeline, LlmRetry

ConfigResolution flattens the YAML to one key for each way the code treats a
field; layers are partial functions. It has the Action's and the CLI's
resolution, and the server's `loadConfigWithOrgFallback` with its TTL cache and
an organisation file that is edited meanwhile. Workspace has the three
strategies of `provisionWorkspace` with failures of every call, the cleanup and a
kill. ReviewPipeline knows a line of the diff by its place, file and line of the
patch, with the kinds that look like headers, and a segment by the places it
covers; it has the path filters, the caps, auto-fetch with its budget, the tools
over a small tree and the second attempt. `historyReader` reads what was rejected
and what is muted. `Publish` takes the comments through the filters in the code's
order, each on what the one before it left: `dedupComments` (against the rejected
findings, against those of the previous state, and within the answer), the
confidence floor, the ruleset, and the suppression rules; then it counts what
each dropped and computes the event from what is left. A comment is a
place, rule, severity, confidence and category; its fingerprint is its place and
its rule (its severity if it names none), so a finding may be mentioned twice at
different confidence. What a review may
be asked (`IsReviewJob`) is a parameter; the jobs TLC explores are five families
in `MCReviewJob`, each around one side of it: diffs, companions, trees, the
policy for comments, and what earlier reviews left.
LlmRetry has the three classifiers, the budgets and delays with jitter (in units
of 200 ms), and the figures taken from the answer. `loadConfigWithOrgFallback`
with its cache, the LLM `withRetry` with `classifyError`, and `provisionWorkspace`
are exported and tested, but nothing in the repository calls them yet.

## Runs

Passing runs:

| Run | Instance | Shows |
|---|---|---|
| `tables_all` | AuditLog: 2 appenders, 2 tenants, 3 rows, 1 tick, with and without row-level security. FeedbackLoop: 2 workers, 3 reactions on 2 findings and 2 PRs, threshold 2, a history of 2 rows, 1 review, 1 command, expiry or failure | racing appends fork but never dangle; appends that did not overlap keep one linear chain that verifies, exports that verify, and the retention; a prune keeps the tip; a review posts nothing that stayed rejected or muted; reaching the threshold mutes |
| `webhook_intake` | 2 deliveries of any kind but `/resume`, 2 posts each, 2 requests, retention 1 and window 2 of 2 ticks, read errors | at most one job per delivery within the retention; `/review` soon after a review is dropped; every conversion leads to its job |
| `queue_workers` | 2 jobs of any kind, one poller and one Lambda worker with batches of 2, 2 receives, runs as long as the visibility timeout | no loss, two handlers of a job only after the first has outlasted the timeout, newest head reviewed, every job settles |
| `review_runs` | 2 runs, overlapping or not, 2 attempts, pushes, a force push, drafts, another bot, an earlier review or none, every fault | without overlap a finding is repeated only after a post or a write of the state was lost; what is recorded as reviewed was reviewed, aborted, or left out by a compare with the default branch |
| `byok_keys` | 3 requests of any kind, a pool of 2 | KeyStore implements KeyRegister; acknowledged changes are audited or their append failed; requests are answered unless the pool is exhausted by requests that wait for it |
| `dashboard_pages` | the scenes of `MCDashboard`: up to 3 calls, 3 jobs with pages of one row and 2 microsecond steps per millisecond, 2 installations | own changes are shown, overwrites, missed rows, double events and dropped text have their listed causes only, deletions are final |
| `host_events` | the scenes of `MCHostEvents`: 3 events and 2 requests of an installation; 4 SNS messages, 2 reviews, 2 recoveries; 3 commands and pushes; texts of up to 3 words; 2 workers with 2 sessions and 2 ticks each | rows follow the host unless an event was lost, overtaken or raced; acknowledged means handled; approvals have their review; feedback is restored once; an acknowledged `/skip` holds; readers of a comment agree; sweeps overlap or stop for listed reasons |
| `jobs_all` | the scenes of `MCReviewJob`: 3 jobs on one cache with lifetime 2 of 3 ticks and 1 edit; 3 files in 2 directories and a sparse limit of 1; diffs of 2 files; answers of 3 comments that repeat, were rejected or are muted; 6 failures of any kind. CostControl: 2 processes, 2 jobs, caps, cost of a call and turn limit 1, 2 days, 4 tasks | configurations, workspaces, lines, comments, counts, reports and retries are the ones the code's rules explain; the per-PR cap, the daily cap and the turn limit are passed by no more than the calls under way; a job refused for its cap is not run again that day |

Most properties of the last three runs have the form "what went wrong has one of
these causes": the code does not promise more, and the list of causes is the
claim. A cause is history that only the code's own steps set, and each property
has a mutant that breaks it.

Violation runs, each the counterexample of a finding in `PROJECT.json`:

* `webhook_lostretry`: a request fails after its delivery row was inserted, and
  every retry is answered `deduped`; the event is lost.
* `queue_overlap`: a review outlasts the fixed visibility timeout of 60 seconds
  and is given to a second worker while it runs; the Helm example says the timeout
  exceeds a review's runtime.
* `review_aborted`: an aborted review is recorded as a review of its commits.
* `cost_nextday`: a refused job is refused on the next day too, since the running
  total sums the job's rows of all days; `docs/cost/index.md` says it is blocked
  until the next day.

Nine more statements of the documentation or of comments are written down as
definitions that the code does not keep. They belong to no run; added as an
INVARIANT (the fifth as a PROPERTY) to the configuration named here, each is
refuted by TLC:

* `ChainLinear` (`MCTables_all.cfg`): two appenders read the newest hash before
  either inserts, and the chain forks, although `docs/security/audit-log.md:44`
  says the transaction serializes them.
* `RetentionKept` (`MCTables_all.cfg`): overlapping appends draw their ids in the
  other order than their timestamps, and the pruner, which selects by time and
  deletes by id, removes a row younger than its boundary
  (`docs/security/audit-log.md:86`).
* `SnsEventsEnqueue` (`MCHostEvents_events.cfg`): the delivery row of an SNS message
  outlives the failure of its request; the retry is acknowledged as a duplicate
  and the event has no job (`docs/deployment/aws.md:509`).
* `SkipPauses` (`MCWebhookIntake_intake.cfg`): `/skip` on a pull request never
  reviewed updates no row and is acknowledged; the next push is enqueued
  (`docs/configuration/trigger-control.md:98`).
* `DebouncesCommands` (`MCWebhookIntake_intake.cfg`): a `/skip` claimed before a
  review ended writes its older time after it, and a `/review` passes that
  `docs/configuration/trigger-control.md:117` says is dropped.
* `TurnLimitKept` (`MCJobs_all.cfg`): two replies read the same turn count and both
  pass the limit, although `db/src/conversation-state.ts:21` calls the two
  statements atomic.
* `RecoveryReadsAlike` (`MCHostEvents_events.cfg`): `/feedback accept thanks` is
  malformed to the receiver and accepted by the recovery, whose comment
  (`cli/src/commands/recover-codecommit-feedback.ts:94`) says it matches the
  receiver's parser.
* `AttemptsArePaid` (`MCJobs_all.cfg`): the cost of an attempt whose output is
  discarded is in no report, although the comment at `runner/src/agent.ts:519`
  says it is.
* `HeadersOnlySkip` (`MCJobs_all.cfg`): a removed line that starts with `-- ` splits
  its file at the wrong place, so lines are filtered by another path and a review
  over `max_diff_lines` runs; `runner/src/diff-filter.ts:62` says "never less".

Next to each of these a passing run checks what the code does keep: the chain of
appends that do not overlap, `/skip` on a reviewed pull request, the debounce of a
`/review` by the row it has read, two workers only after the timeout, the refusal
within a day, a turn limit passed by no more than the replies under way, and the
listed causes of the parts of a job.

Disagreements between the code and its documentation met while modelling that
no definition states:

* Audit log. With several tenants' chains the re-check of `audit prune` walks all
  of them as one and reports a break; the verifier that starts from genesis,
  which the retention page recommends, reports a break after every prune.
* Receiver. Two quick `/review` commands both pass, because the window starts when
  a review ends; a `/review` right after `/skip` is dropped, because `/skip` moves
  `updated_at`.
* Queue. The worker's debounce looks `review_state` up by an id that the mirror
  never writes (`server/src/worker.ts:55`, `db/src/review-state.ts:52`), so it
  drops nothing, although `server/README.md:73` describes it.
* Review run. The incremental diff ends at `HEAD`
  (`platform-github/src/adapter.ts:207`), which for GitHub is the default branch;
  the commits it leaves out are in `missed`. Two overlapping runs post the same
  finding, and so does one run that retries a `createReview` whose answer was lost
  (`RepeatsNeedALoss` counts these). Every deferred run posts another notice,
  though `coordination.ts` calls it the single skip-summary comment.
* Feedback. The backfill writes its state file once per completed PR, so an
  interrupted run records the reactions of that PR twice, although
  `docs/operations/feedback-backfill.md` says a re-run "refuses to double-write";
  `suppression remove` prints that the finding will reappear on the next review,
  but the rejections behind the rule still drop it while they are among the newest
  rows, and a duplicate rule made by a second worker still mutes it.
* Comments. With a conversation handler wired, every GitHub reply without a
  mention is ignored, so `/feedback` replies are dropped (`webhook.ts:368`,
  against `docs/architecture/feedback-loop.md:111`); `/feedback` on CodeCommit is
  answered as recorded and stored only by a later recovery;
  `parse-command.ts:168` says trailing tokens are tolerated, but
  `/feedback accept thanks` is malformed to the receivers; the path of `/review <path>` is
  lower-cased and read by nobody.
* Cost. The conversation page promises a single limit note, but of several
  handlers at once each, one or none may post it; a refused call is recorded with
  its estimate as cost although nothing was spent, so one large estimate can use
  up a day's cap (`RefusedForTheDay` depends on that row); a reply does not look at
  the daily cap.
* Pipeline. The deduplication runs before the confidence floor, so a first
  mention of a finding that lies below the floor also takes away a later, more
  confident one, and neither is posted; a delay may end up to a fifth earlier than
  the provider's Retry-After, because jitter applies to it too.
* Configuration. With `extends: org` the repository's defaults hide the
  organisation's scalars, and some fields fall to the schema's default in any case
  (`org-config.ts:119`), against the comment there; the log of sections is
  computed before the environment is applied.
* Workspace. When `rm` fails during the cleanup its error replaces the original
  one, which the comment at `workspace.ts:97` says is re-thrown; the flag that
  says the directory is gone is set before it is; more than 100 directories give a
  full checkout.
* Sweeps. A lock released on another session of the pool stays held until that
  session is closed, and other workers do not sweep meanwhile (`worker.ts:79`); a
  sweep that throws is an unhandled rejection.

Why the bounds are enough: each property relates at most two jobs, rows, runs or
requests, so two of each actor make every pair of steps interleave, and a third
run or delivery makes the after-effects visible. The clocks reach past the
windows they are compared with (`MaxTime` > `Retention`, `Debounce`), receives
reach `MaxReceive`, retries reach `Attempts`, and the commits and lines allow a
push and a force push between any two calls. In `queue_workers` a worker may stay
with a message for as long as the timeout (`MaxRun = Visibility`), so that the
message is given to the other worker before it is done. In FeedbackLoop one writer writes once per job
(`MaxWrites = 1`), so the rate limit is met, two rejections reach the threshold,
and `MaxOps = 1` puts one command, expiry or failed call anywhere between them.
In CostControl every cap is one call's cost, so one call reaches it and the
second process passes it, and four starts allow a refusal, its redelivery and two
tasks beside them, on the same day or across midnight. In `byok_keys` two requests exhaust the pool and the third
waits behind them. A page of one row makes every row the last of its page; two
microsecond steps per millisecond make rows that differ only in what the cursor
drops. Six failures are one more than the largest retry budget. Texts of three
words are the longest command and a word beside it. `MaxRows`, `MaxTime`,
`MaxPosts`, `MaxReceive`, `MaxRun`, `MaxCommits`, `MaxLines`, `MaxReviews`,
`MaxOps`, `MaxDays`, `MaxStarts`, `MaxEdits`, `Horizon`, `MaxTicks`, `MaxWords` and the scenes
are the only artificial bounds.

Runs without a liveness property use the symmetry of the names of runs,
appenders, processes and jobs, where no definition tells them apart. Deadlock
checking is off where the system may stop: a server that waits for a request
that never comes, a page nobody uses, a job that has ended, a pool that is
exhausted, and runs that end when their bounds are used up. In the other modules
something can always happen (`Tick`, a prune, or `Finished`).

Fairness: `WebhookIntake!Fairness` says a started request takes its next step,
as Node's event loop does for a settled promise; posts, failures, sweeps and the
worker are not fair. `JobQueue!Fairness` adds that time passes, that SQS applies
its redrive policy and that a polling worker gets a message that stays
available; sends, crashes and stop signals are not fair. `KeyStore!FairSpec` is
strongly fair to the steps of a request: connections and row locks are granted in
the order of waiting, so a request that can get one again and again gets it; new
requests are not fair. No progress depends on a call succeeding: a failed attempt
is a step as well.

## Proofs

The theorems hold for every value of the constants under the named assumptions
of the modules (naturals for bounds, Booleans for flags, non-empty sets where an
element is chosen, finite sets where one is put in a sequence). Two theorems
have a hypothesis of their own, stated below. `HostEventsProofs` and the second
halves of `DashboardProofs` and `JobProofs` are about the specifications the runs
`host_events` and `dashboard_pages` check, and about `JobSpec`, which is what
`jobs_all` checks apart from CostControl: the constants of their parts are
parameters of `MCHostEvents`, `MCDashboard` and `MCReviewJob`, and a step of these
is a step of one part.

* **AuditLogProofs.** `TypeCorrect` proves `TypeOK` by way of `TypeInv`, which
  adds that an id drawn by an inserting appender is positive. `NeverDangles`
  proves `NoDangling` from `DanglingInv`: the hash an appender has read is
  genesis or the hash of a row committed by then, and once it has an id that row
  has a smaller one; surviving rows are logged rows, and ids below `nextId` are
  the only ones used. `SerialAppendsLinear` and `SerialAppendsVerify` prove
  `SerialChain` and `SerialSegment` from `SerialInv`: as long as no two appends
  overlapped, one append is under way at most and has read the newest hash of
  the whole log, ids and hashes grow together, and the surviving rows are an end
  segment that keeps the newest row. That segment is what the anchor rule of the
  pruner preserves, which is why `>=` there matters, and why a prune between the
  SELECT and the INSERT of an append does no harm. `PrunesKeepTheTip` proves the
  action property `PruneKeepsTip` without that condition, from `TipInv`: ids are
  unique, those drawn but not committed included, and the anchor a pruner has
  chosen is still in the table, so the newest row is never older than it.
  `SerialAppendsArchive` proves `SerialArchive` from `ArchiveInv`: appends that do
  not overlap commit in the order of their timestamps, deleted rows are older
  than the cut-off, and on installations' own chains each row names the one
  before it in its chain.
* **WebhookIntakeProofs.** `TypeCorrect` proves `TypeOK`; `AtMostOneJob` proves
  `DedupWithinRetention` from `DedupInv`: two claims of one delivery, in a
  request or in a job, are more than the retention apart, or the row of the
  younger claim is still there. The sweep may only remove a row once every claim
  behind it is older than the retention. `ReviewsAreDebounced` proves
  `DebouncesAfterReview`, with the claim time and the review its row showed carried
  along to the enqueue: a finished review counts only when the row is not older
  than it. `SkipHolds` proves `SkipSuppressesPushes` assuming
  `DbErrors = FALSE`: when the read of `review_state` fails the handler goes on as
  if nothing were paused, so a failing database can undo a `/skip`; the runs
  check the property where reads do not fail.
* **JobProofs.** About `JobQueue`: `TypeCorrect` proves `TypeOK`; `JobsNeverLost` proves
  `NothingLost` from `AckInv`: every receipt a worker is about to delete belongs
  to a job whose callback returned, for pollers and Lambda workers alike.
  `NewestPushReviewed` proves `NewestHeadReviewed` from that and `ReviewInv`: the
  mirror never writes the row the worker's debounce looks up, so a finished job
  was reviewed. `ReviewsOverlapLate` proves `OverlapsAreLate`, whatever
  `MaxRun` and `Visibility` are, from `Exclusive`: for every message of a batch the
  time it stays hidden plus the time its worker has been busy reaches the
  visibility timeout, and two batches share a message only if the worker of the
  earlier one has been busy for that long.

  About `Workspace`, `WorkspaceIsSafe` proves `SpaceInv`, from which
  `WorkspaceHolds` proves `WorkspaceIsExplained` for every repository, deny list,
  set of limits and number of pushes. `CommitsInv` orders the commits a job has
  read: the head it was made for, the diff, and for a clone the head that was
  checked out. `DirInv` says at which stages there is a directory, and that after
  the job's end one is left only when `rm` failed and its error replaced the first.
  `FilesInv` says what the directory holds while files are still being fetched:
  of the files of the diff those already looked at, minus the removed and the
  denied ones, which at the end is what the property asks for.

  About `ConfigResolution`, `OrgFilesAreFresh` proves `OrgIsFresh`, the half of
  `ConfigIsExplained` about the shared cache, from `OrgInv` and assuming
  `TTL + FetchLimit > 0`. An answer in flight is as new as the file was when the
  request was sent; its entry expires one lifetime after it was stored, which is at
  most one fetch later; so an edit the entry does not have is younger than its
  expiry less a lifetime and a fetch (`CacheInv`), and so is what a job has taken
  from it (`JobInv`). An entry is never older than the last `invalidate` that found
  no answer on its way. With neither a lifetime nor a fetch that takes time, an edit
  at the very instant of the resolution would count as missed.

  About `LlmRetry`, `RetriesHold` proves `RetriesAreExplained` for any delays that
  providers ask for and any tool calls of an answer. `CallInv` says that every
  failure but one that ended the call had a budget left when it came, and relates
  the time slept to the sum of what was asked for; `EndsInv` is about how the call
  ended. The sums are the library's, which are recursive functions: `SumRecursion`
  shows that the recursion has a solution on every finite set, `SumSplits` that the
  order does not matter, `StepsCounted` that a step without a list of tool calls
  counts like one without calls. They are inductions over data, which
  `SubsetInduction` carries out with sets in place of predicates, from the
  least-element principle of `WellFoundedInduction`.

  About `ReviewPipeline`, `ReviewIsSafe` proves `PipelineInv`, from which
  `LinesHold` proves `LinesAreAccounted`, `CommentsHold` proves
  `CommentsAreExplained` and `WorkHolds` proves `WorkIsReported`, for any diff, filters, caps, comments, ruleset and budget of companions
  (`PipelineAssumption`). `LinesHold` rests on facts about the split of a diff:
  `PartsCover` (the last header-like line up to a line opens its segment, found as
  the least distance back to one), `PartsDisjoint`, and `PlainPart` (a file
  without such lines is one segment of its own name), so the report can name by
  path what was left out by place. `CommentsHold` compares the filters, which work on what the
  one before them left, with the reasons the property lists for each comment
  alone: `PostedExplained` shows that the order does not matter for what is posted,
  `DroppedCounted` that the counts belong to disjoint sets, and `EventExplained`
  that the event follows from what is left. `RunInv` counts the calls: what was dispatched
  and what the SDK saw of the current attempt are each at most what was asked for,
  which makes their maximum right across two attempts. `FetchInv` says that unless
  the budget was hit every companion of a file that no filter matches is still
  queued or was tried, and no file was cut by the total; `ResultInv` carries what
  the result says to the end of the review.
* **ReviewRunProofs.** `TypeCorrect` proves `TypeOK`. `UnreviewedIsExplained`
  proves `SkipsAreExplained` from `SkipInv`: every state comment, and everything a
  run has read, computed or is about to write, only claims commits that were
  covered by a review or missed for a listed reason, and the pull request moving on
  leaves such a claim explained. `RepeatsFollowLosses` proves `RepeatsNeedALoss`
  from `LossInv`: while runs do not overlap one is active at most, and
  what was posted and not charged to a lost write is in the state comment or in
  the state the active run is about to write.
* **DashboardProofs.** About `KeyStore`: `TypeCorrect` proves `TypeOK`.
  `TrailIsComplete` proves `AuditTrail` from `TrailInv`: nobody has seen a change
  whose audit append was not tried. `ImplementsRegister` proves the refinement
  `RegisterSpec` on top of `KeyInv`, which says what each stage of a request has
  locked and witnessed. A write takes effect at its commit, a read at its
  statement, a 404 where the row was absent; all other steps stutter.

  About `RepoConsole`, `ConsoleIsSafe` proves `ConsoleInv`, from which the next
  four follow. Every action is first shown to be a step of one of a dozen kinds (a
  call is sent, served, heard of; a query is asked for, read, loaded, fails; the
  page is entered, edited), and each part of the invariant is then shown to be
  kept by each kind. `CallsInv` says that after an acknowledged delete only calls
  sent before it can succeed, which is `ConsoleDeletesAreFinal`: the check and the
  update of a handler are two statements, and what saves it is that nothing sets
  `deleted_at` back. `QueriesInv` strengthens `ConsoleShowsChanges` by data still
  on their way: what a running fetch has read contains every reported change, or
  the fetch is marked late. `SavesInv`, for `ConsoleOverwrites`, ties the prompt a
  save is based on to the changes its author had seen, while at most one save of a
  page is pending, because the button is disabled. `DraftInv`, for the action
  property of `ConsoleKeepsDraft`, which no run checks, says that a page that still
  waits for its first data has no draft unless the load had failed. `NoDataAssumption` keeps the value
  for "no data" apart from data.

  About `KeysPage`, `KeysAreSafe` proves `KeysInv` along the same lines, and
  `KeysArePresented` follows. `ServedInv` relates what the server did to what the
  browser heard. `TellsInv` says of every listing, shown or still being loaded,
  that it differs from the server only in slots for which a call took effect that
  the listing does not contain; `ListsInv` that a reported change is in it, or it
  is stale, late or being fetched; both must hold of data in flight because a
  load installs them without another look. `FormInv` says that while a save is
  pending the form holds its text or none, or the operator typed meanwhile, so
  clearing the form after the save drops nothing else.

  About `HistoryPages`, `HistoryIsSafe` proves `HistoryInv`, from which
  `HistoryComplete` follows. `TableInv` is about the table: ids grow, a job has at
  most one event of its own and one recovered one, and a job that a recovery is
  about to insert has no recovered event and either had not ended when the
  recovery looked or will never have an event of its own. `PagesInv` follows the
  rows on their way. What a request has read is a beginning of the rows it asked for
  (`RowsRead`): whatever of the table it was read from is not in it comes after
  all of it. A page with a cursor ends at the cursor's row (`EndsAt`). `Covered`
  says of every row in the table of each page read so far that it was shown,
  shares a millisecond with the end of a page, or comes after the cursor; the
  next page continues there, although rows arrive, repositories come and go and
  the window of 24 hours moves on meanwhile, because ids only grow and the window
  only drops rows. `MissesExplained` is about the smallest table a page of the walk
  was read from, which for a page taken from the cache may be older than the walk.
  `HistoryAssumption` asks for finitely many jobs, which keep the table finite, and
  for a value for "no cursor" that is none.
* **FeedbackLoopProofs.** `TypeCorrect` proves `TypeOK`. `QuietFindings` proves
  `QuietStaysQuiet` from `QuietInv`: while a review runs, what is still quiet is
  what the table says now, and after each read it is contained in what was read,
  because `quiet` only shrinks. `ThresholdIsKept` proves `ThresholdMutes` from
  `DueInv`: a finding that is due has at least `SuppressAfter` live rejections,
  so the worker that counts for it cannot give up, and it hands over only to a
  rule. The count follows from the insert in the same worker, which is the order
  the argument rests on.

* **CostControlProofs.** `TypeCorrect` proves `TypeOK`. `RefusalHoldsForTheDay` proves
  `RefusedForTheDay` from `RefusalInv`: the rows of a refused job add up to
  more than the cap, because the refusal's row carries the estimate that was too
  much, and what a process has read of them is a lower bound. The three bounds
  count processes between a check and the write it allows. `TurnsAreBounded`
  rests on `TurnInv`: admitted turns plus handlers that have read a count below
  the limit stay under the limit plus the handlers. `PrCapHolds` and
  `DailyCapHolds` rest on `CapInv`: what was charged, plus the highest cost of
  every call that has passed its check or will be checked against another day,
  stays within the cap plus one call for each process. The charged part is
  bounded by the ledger when a call is admitted, and midnight resets the sum of
  a day to zero while at most all processes are under way.
* **HostEventsProofs.** `SweepsElectOne` proves `SweepsAreExplained` from
  `SweepInv`: a worker that deletes has the lock on a session of its own unless
  that session was closed under it, and a lock held without a user, or more than
  once, was missed by an unlock. `AcksFollowEffects` proves `SnsAckedWasHandled`
  from `AckInv`: a message with a delivery row has had its effect, lost it to a
  failure, or a request that claimed it is still at work. `ApprovalsRestOnReviews`
  proves `CodeCommitApprovalBacked` from `BackInv`: a review posts its summary and
  findings in order on the revision it read last, and approves after the last of
  them. `RecoveriesRestore` proves `CodeCommitFeedbackRestored` from `RestInv`: a
  pull request that leaves the listing of open ones is found in the later
  listing of closed ones, and two recoveries that overlap know it of each other.
  `OnboardingHolds` proves `OnboardingExplained` from `OnboardingInv`, whose parts
  are `HookInv` (as long as nothing was lost or reordered, every event after the
  applied one is on its way and the newest leads to GitHub's state), `RegInv` (a
  name a bulk request has yet to insert has only rows of requests that overlap it
  or of `POST /repos`; what it has passed without an error is registered) and
  `PageInv` (the page is done only on an answer without errors).

Where a module here has a `TypeOK` it is proved; the runs check only what goes beyond it.

Only model-checked: the liveness properties (`ConversionsEnqueued`, `JobsSettle`
and `Answered`), which are outside TLAPS's reach; `CommandsAreObeyed`, half of
which is about a parser defined by recursion over texts, so that a proof for
every text is an induction over data (its other half, an acknowledged `/skip`, is
`SkipHolds`); and the layers of `ConfigIsExplained`, which are about folds over
the layers' values. What is proved about searches is about the tree of three
entries that stands for a workspace, not about every tree.

## Not modelled

* Signature checks are cryptography at the boundary; telemetry observes and
  changes nothing.
* Of the dashboard: layout, texts, the read-only pages and the reads that keep no
  state (overview, metrics, detail, integrations).
* The language model, the prompts, redaction, secret scanning and the parsing of
  skills: arbitrary outputs stand for them. Evaluation scripts (`eval/`) are
  tools for developers.
* Of the audit log, the archive's file format and the cost ledger's own prune;
  of the feedback loop, redaction and dry runs; of GitHub App authentication, the
  signing of tokens and the loading of keys; of the CLI, argument parsing and
  output.
* `loadReviewState`, the reconciliation of the mirror with the hidden comment.
* `tickOnce` of a sweep called by hand while the timer's own tick runs.

## Plan

1. A composition of WebhookIntake and JobQueue over one queue, and an abstract
   specification ("an event leads to at least one review of the newest head")
   that it implements.
2. `loadReviewState`, and the reaction path of the receiver into FeedbackLoop.
