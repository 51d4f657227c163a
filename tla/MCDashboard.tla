----------------------------- MODULE MCDashboard -----------------------------
(***************************************************************************)
(* Three parts of the dashboard that share no state, each explored on its  *)
(* own: a repository's pages, the review history, and the page for LLM     *)
(* keys.  The variables of the parts that are not explored keep a fixed    *)
(* value.                                                                  *)
(***************************************************************************)
EXTENDS Naturals, FiniteSets, ApiGate

CONSTANTS
    NoData,                              \* no data, no call, no row
    Changes, Prompts, Blanks, ApiServer,    \* RepoConsole: Calls, Texts, Blanks, Env,
    PageScenes,                          \* and its Scenes
    Jobs, JobRepo, Aborted, Platforms,   \* HistoryPages
    PerMs, MaxTime, Limit, Window, WalkScenes,
    Installations, Providers, KeyCalls,  \* KeysPage; KeyCalls: its Calls
    KeyScenes

ASSUME ChangesAssumption == Changes \subseteq Nat /\ NoData \notin Changes
ASSUME PromptsAssumption == Blanks \subseteq Prompts /\ Prompts \subseteq STRING
ASSUME NoDataAssumption == NoData \notin [prompt : Prompts \cup {""}, seen : SUBSET Changes]
                              \cup [live : BOOLEAN, enabled : BOOLEAN, seen : SUBSET Changes]
ASSUME HistoryAssumption ==
    /\ IsFiniteSet(Jobs) /\ JobRepo \in [Jobs -> DOMAIN Platforms]
    /\ PerMs \in Nat \ {0} /\ Limit \in Nat \ {0} /\ Window \in Nat
    /\ NoData \notin [t : Nat, id : Nat]
ASSUME ServerAssumption == ApiServer \in ApiEnv
ASSUME PageScenesAssumption ==
    PageScenes \subseteq [pages : SUBSET {"repos", "repo", "prompt"}, start : {"repos", "repo"},
                          keys : SUBSET {"repos", "repo", "repo-prompt"},
                          ops : SUBSET {"patch", "delete", "put"}, calls : SUBSET Changes]
ASSUME KeyCallsAssumption == KeyCalls \subseteq Nat \ {0}
ASSUME InstallationsAssumption == 0 \notin Installations /\ Providers # {}
ASSUME KeyScenesAssumption ==
    KeyScenes \subseteq [installations : SUBSET Installations, providers : SUBSET Providers,
                         texts : SUBSET STRING, leaves : BOOLEAN, operator : BOOLEAN]

VARIABLES part,                                                  \* the part explored
          scene, mock, repo, call, cache, page, done,            \* RepoConsole
          left, now, job, events, live, recover, raced, request, \* HistoryPages
          answers, shown, walk,
          keyScene, store, lists, form, keyCall, keysDone, wiped \* KeysPage

Console == INSTANCE RepoConsole
    WITH row <- repo, Calls <- Changes, Texts <- Prompts, None <- NoData, Env <- ApiServer,
         Scenes <- PageScenes
History == INSTANCE HistoryPages
    WITH cache <- answers, page <- shown, None <- NoData, Scenes <- WalkScenes
Byok == INSTANCE KeysPage
    WITH scene <- keyScene, cache <- lists, page <- form, call <- keyCall, done <- keysDone,
         Calls <- KeyCalls, Scenes <- KeyScenes
-----------------------------------------------------------------------------
(* The values of the constants that TLC explores.                          *)
Production == [cors |-> FALSE, token |-> TRUE, requireAuth |-> TRUE,
               multiTenant |-> FALSE, kms |-> TRUE, appAuth |-> TRUE]

(* Switching and deleting as the list and as the detail page show it;      *)
(* editing the prompt; operators without the dashboard.                    *)
ConsoleUses ==
    {[pages |-> {"repos", "repo"}, start |-> "repos", keys |-> {k},
      ops |-> {"delete"}, calls |-> {1, 2}] : k \in {"repos", "repo"}}
    \cup
    {[pages |-> {"repo", "prompt"}, start |-> "repo", keys |-> {"repo-prompt"},
      ops |-> {"put", "delete"}, calls |-> {1, 2}],
     [pages |-> {}, start |-> "repos", keys |-> {},
      ops |-> {"patch", "put", "delete"}, calls |-> {1, 2, 3}]}

ReviewJobs == {"j1", "j2", "j3"}
JobRepos == [j \in ReviewJobs |-> IF j = "j1" THEN "a" ELSE "b"]
TwoPlatforms == [a |-> "github", b |-> "codecommit"]

KeyInstallations == {1, 2}
KeyProviders == {"anthropic", "openai"}

All == [kind |-> "reviews", platform |-> "all", outcome |-> "all", since |-> "all", name |-> "all"]
Github == [All EXCEPT !.platform = "github"]
Recent == [All EXCEPT !.since = "24h", !.outcome = "failed"]
OfB == [All EXCEPT !.kind = "repo", !.name = "b"]

\* A walk while jobs end, changing filters and repositories, recoveries.
Walks ==
    {[jobs |-> ReviewJobs, recoveries |-> 0, changes |-> 0, filters |-> {All}, fetches |-> 2],
     [jobs |-> {"j1", "j2"}, recoveries |-> 0, changes |-> 1, filters |-> {Github, OfB},
      fetches |-> 1],
     [jobs |-> {"j1", "j2"}, recoveries |-> 1, changes |-> 0, filters |-> {All}, fetches |-> 0],
     [jobs |-> {"j1", "j3"}, recoveries |-> 2, changes |-> 0, filters |-> {Recent}, fetches |-> 0]}

\* Two installations; retyping; leaving and coming back; another operator, and
\* blank text; a second provider.
KeyScene == [installations |-> {1}, providers |-> {"anthropic"}, texts |-> {"key"},
             leaves |-> FALSE, operator |-> FALSE]
KeyUses ==
    {[KeyScene EXCEPT !.installations = {1, 2}],
     [KeyScene EXCEPT !.texts = {"key", "other"}],
     [KeyScene EXCEPT !.leaves = TRUE],
     [KeyScene EXCEPT !.texts = {"", " ", "key"}, !.operator = TRUE],
     [KeyScene EXCEPT !.providers = {"anthropic", "openai"}]}
-----------------------------------------------------------------------------
consoleVars == <<scene, mock, repo, call, cache, page, done>>
historyVars == <<left, now, job, events, live, recover, raced, request, answers, shown, walk>>
keyVars == <<keyScene, store, lists, form, keyCall, keysDone, wiped>>

Off == 0
ConsoleOff ==
    /\ scene = Off /\ mock = Off /\ repo = Off /\ call = Off /\ cache = Off /\ page = Off /\ done = Off
HistoryOff ==
    /\ left = Off /\ now = Off /\ job = Off /\ events = Off /\ live = Off /\ recover = Off
    /\ raced = Off /\ request = Off /\ answers = Off /\ shown = Off /\ walk = Off
KeysOff ==
    /\ keyScene = Off /\ store = Off /\ lists = Off /\ form = Off /\ keyCall = Off
    /\ keysDone = Off /\ wiped = Off

DashboardInit ==
    \/ part = "console" /\ Console!Init /\ HistoryOff /\ KeysOff
    \/ part = "history" /\ History!Init /\ ConsoleOff /\ KeysOff
    \/ part = "keys"    /\ Byok!Init /\ ConsoleOff /\ HistoryOff

DashboardNext ==
    /\ UNCHANGED part
    /\ \/ part = "console" /\ Console!Next /\ UNCHANGED <<historyVars, keyVars>>
       \/ part = "history" /\ History!Next /\ UNCHANGED <<consoleVars, keyVars>>
       \/ part = "keys"    /\ Byok!Next /\ UNCHANGED <<consoleVars, historyVars>>

DashboardSpec == DashboardInit /\ [][DashboardNext]_<<part, consoleVars, historyVars, keyVars>>

\* A change the browser was told of is in the data it takes for fresh
\* (RepoConsole).
ConsoleShowsOwnChanges == part = "console" => Console!OwnChangesShown

\* What a saved prompt replaces without its author having seen it
\* (RepoConsole).
ConsoleOverwritesExplained == part = "console" => Console!OverwritesExplained

\* An acknowledged delete is final (RepoConsole).
ConsoleDeletesFinal == part = "console" => Console!DeletesFinal

\* Loaded data never replaces typed text (RepoConsole).
ConsoleDraftKept == [][part = "console" => Console!KeepsDraft]_consoleVars

\* A walk through the history shows no row twice and misses none without a
\* reason; a job has one event unless a recovery raced it (HistoryPages).
HistoryIsComplete ==
    part = "history" => History!NoRepeats /\ History!MissesExplained /\ History!OneEventPerJob

\* The key lists show what the dashboard reported, and typed text is not
\* dropped without a reason (KeysPage).
KeysAreShown == part = "keys" => Byok!KeysShown
=============================================================================
