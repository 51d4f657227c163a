---------------------------- MODULE MCHostEvents ----------------------------
(***************************************************************************)
(* What the server does with the events of the code hosts, in five parts   *)
(* that share no state, each explored on its own: the installations of the *)
(* GitHub App and the repositories registered from them, CodeCommit, the   *)
(* /skip and /resume commands on GitHub, the texts of comments, and the    *)
(* periodic deletion of old deliveries and reviews.  The variables of the  *)
(* parts that are not explored keep a fixed value.                         *)
(***************************************************************************)
EXTENDS RepoOnboarding

CONSTANTS Messages, Kind, Foreign, PRs, Reviews, Findings, Recoveries,   \* CodeCommit
          Authors, Allowlist, AwsScenes,
          Workers, Tasks, PoolSize, MaxTicks                             \* SweepElection

\* The findings of a review are numbered from 1.
ASSUME FindingsAssumption == IsFiniteSet(Findings) /\ Findings = 1..Cardinality(Findings)

VARIABLES part,                                                      \* the part explored
          left, sns, snsReq, delivered, enqueued, confirmed, lost,   \* CodeCommit
          refused, pr, review, posted, approval, replies, walk, history,
          clock, kind, posts, row, req, reviewState, queue,          \* WebhookIntake
          lastDone, skipped, answer, failed,
          comment, wired, heard, codecommit, recovery,               \* CommentCommands
          tick, ticks, stopped, lock, leaked, dropped                \* SweepElection

OneBatch == {<<"a", "a">>}

\* The installation's life with one request; its creation with two requests for
\* one name or one request for two names; two requests without it.
OnboardingScenes ==
    {[events |-> 3, calls |-> {1}, names |-> {"a"}],
     [events |-> 1, calls |-> {1, 2}, names |-> {"a"}],
     [events |-> 1, calls |-> {1}, names |-> {"a", "b"}],
     [events |-> 0, calls |-> {1, 2}, names |-> {"a", "b"}]}

SnsKind == [m1 |-> "control", m2 |-> "sync", m3 |-> "feedback", m4 |-> "control"]
Quiet == [messages |-> {}, posts |-> 0, reviews |-> {}, pushes |-> 0, closes |-> 0,
          replies |-> 0, recoveries |-> {}]

(* Deliveries alone; two reviews and pushes; a review, replies to it and   *)
(* a recovery while a pull request is closed; overlapping recoveries.      *)
CodeCommitScenes ==
    {[Quiet EXCEPT !.messages = {"m1", "m2", "m3", "m4"}, !.posts = 4],
     [Quiet EXCEPT !.reviews = {"v1", "v2"}, !.pushes = 2, !.closes = 1],
     [Quiet EXCEPT !.reviews = {"v1"}, !.replies = 2, !.closes = 1, !.recoveries = {"r1"}],
     [Quiet EXCEPT !.reviews = {"v1"}, !.replies = 1, !.recoveries = {"r1", "r2"}]}

Aws == INSTANCE CodeCommit WITH req <- snsReq, Scenes <- AwsScenes

\* The /skip, /resume and pushes of a pull request that was reviewed before;
\* one that was not differs only in how it starts.
Hooks == INSTANCE WebhookIntake
    WITH review <- reviewState, Deliveries <- {"d1", "d2", "d3"}, Requests <- {"q1", "q2"},
         Kinds <- {"push", "skip", "resume", "ignored"}, Reviewed <- TRUE, DbErrors <- FALSE,
         Debounce <- 1, Retention <- 3, MaxTime <- 1, MaxPosts <- 1

NewPr == INSTANCE WebhookIntake
    WITH review <- reviewState, Deliveries <- {"d1", "d2", "d3"}, Requests <- {"q1", "q2"},
         Kinds <- {"push", "skip", "resume", "ignored"}, Reviewed <- FALSE, DbErrors <- FALSE,
         Debounce <- 1, Retention <- 3, MaxTime <- 1, MaxPosts <- 1

Stems == {"/feedback", "accept", "dismiss", "0123abcd", "/review", "/skip", "src/app",
          "@review-agent", "review", "thanks"}
Words == {[pre |-> "", stem |-> stem, post |-> ""] : stem \in Stems}
         \cup {[pre |-> "x", stem |-> stem, post |-> ""] : stem \in {"/feedback", "/skip", "review"}}
         \cup {[pre |-> "(", stem |-> "/feedback", post |-> ""],
               [pre |-> "", stem |-> "/feedback", post |-> "accept"],
               [pre |-> "", stem |-> "review", post |-> "."]}

Texts == INSTANCE CommentCommands
    WITH github <- heard, Vocabulary <- Words, MaxWords <- 3, Places <- {"issue", "reply"}

Sweep == INSTANCE SweepElection
-----------------------------------------------------------------------------
awsVars == <<left, sns, snsReq, delivered, enqueued, confirmed, lost, refused, pr, review,
             posted, approval, replies, walk, history>>
hookVars == <<clock, kind, posts, row, req, reviewState, queue, lastDone, skipped, answer,
              failed>>
textVars == <<comment, wired, heard, codecommit, recovery>>
sweepVars == <<tick, ticks, stopped, lock, leaked, dropped>>

Off == 0
OnboardingOff ==
    /\ scene = Off /\ github = Off /\ events = Off /\ hooks = Off /\ inst = Off /\ setup = Off
    /\ token = Off /\ rows = Off /\ call = Off /\ listing = Off /\ page = Off /\ applied = Off
    /\ excuse = Off
AwsOff ==
    /\ left = Off /\ sns = Off /\ snsReq = Off /\ delivered = Off /\ enqueued = Off
    /\ confirmed = Off /\ lost = Off /\ refused = Off /\ pr = Off /\ review = Off /\ posted = Off
    /\ approval = Off /\ replies = Off /\ walk = Off /\ history = Off
HooksOff ==
    /\ clock = Off /\ kind = Off /\ posts = Off /\ row = Off /\ req = Off /\ reviewState = Off
    /\ queue = Off /\ lastDone = Off /\ skipped = Off /\ answer = Off /\ failed = Off
TextsOff ==
    /\ comment = Off /\ wired = Off /\ heard = Off /\ codecommit = Off /\ recovery = Off
SweepOff ==
    /\ tick = Off /\ ticks = Off /\ stopped = Off /\ lock = Off /\ leaked = Off /\ dropped = Off

HostInit ==
    \/ part = "onboarding" /\ Init /\ AwsOff /\ HooksOff /\ TextsOff /\ SweepOff
    \/ part = "codecommit" /\ Aws!Init /\ OnboardingOff /\ HooksOff /\ TextsOff /\ SweepOff
    \/ part = "commands"   /\ (Hooks!Init \/ NewPr!Init) /\ OnboardingOff /\ AwsOff /\ TextsOff /\ SweepOff
    \/ part = "texts"      /\ Texts!Init /\ OnboardingOff /\ AwsOff /\ HooksOff /\ SweepOff
    \/ part = "sweep"      /\ Sweep!Init /\ OnboardingOff /\ AwsOff /\ HooksOff /\ TextsOff

HostNext ==
    /\ UNCHANGED part
    /\ \/ part = "onboarding" /\ Next /\ UNCHANGED <<awsVars, hookVars, textVars, sweepVars>>
       \/ part = "codecommit" /\ Aws!Next /\ UNCHANGED <<vars, hookVars, textVars, sweepVars>>
       \/ part = "commands"   /\ Hooks!Next /\ UNCHANGED <<vars, awsVars, textVars, sweepVars>>
       \/ part = "texts"      /\ Texts!Next /\ UNCHANGED <<vars, awsVars, hookVars, sweepVars>>
       \/ part = "sweep"      /\ Sweep!Next /\ UNCHANGED <<vars, awsVars, hookVars, textVars>>

HostSpec == HostInit /\ [][HostNext]_<<part, vars, awsVars, hookVars, textVars, sweepVars>>

\* Why a repository may be registered twice; the installation's row agrees
\* with GitHub; the registration page is done only when what it sent is
\* registered (RepoOnboarding).
OnboardingExplained ==
    part = "onboarding" => DuplicatesExplained /\ InstallationAgrees /\ SubmittedRegistered

\* A message SNS was told is handled has had its effect (CodeCommit).
SnsAckedWasHandled == part = "codecommit" => Aws!AckedWasHandled

\* An event SNS was told is handled has its job on the queue (CodeCommit).
SnsEventsEnqueue == part = "codecommit" => Aws!EventsEnqueue

\* The agent's approval rests on its review (CodeCommit).
CodeCommitApprovalBacked == part = "codecommit" => Aws!ApprovalBacked

\* A recovery restores the feedback that was there (CodeCommit).
CodeCommitFeedbackRestored == part = "codecommit" => Aws!FeedbackRestored

\* After an acknowledged /skip no later push is enqueued (WebhookIntake), and
\* the three readers of a comment make of it what it says (CommentCommands).
CommandsAreObeyed ==
    /\ part = "commands" => Hooks!SkipSuppressesPushes
    /\ part = "texts" => Texts!RecoveryAgrees /\ Texts!PlatformsAgree /\ Texts!FirstSlashObeyed

\* The recovery reads feedback as the receiver does (CommentCommands).
RecoveryReadsAlike == part = "texts" => Texts!RecoveryMatches

\* Two workers never sweep at once, and a lock never stays behind, without a
\* listed reason (SweepElection).
SweepsAreExplained == part = "sweep" => Sweep!ElectionExplained
=============================================================================
