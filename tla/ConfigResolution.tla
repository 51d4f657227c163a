-------------------------- MODULE ConfigResolution --------------------------
(***************************************************************************)
(* How a job arrives at the configuration it runs with.  The CLI, its dry  *)
(* run and the Action read .review-agent.yml, resolve preset inheritance,  *)
(* fill in the schema's defaults and then apply environment variables and  *)
(* flags; a job with an organisation layer instead asks a TTL cache for    *)
(* the organisation's file and merges it into the repository's.            *)
(*                                                                         *)
(* A layer is a partial function from keys to values: the keys it does not *)
(* mention are outside its domain.  The nested YAML objects are flattened, *)
(* one key standing for each way the code treats a field.  YAML syntax and *)
(* the schema's checks are one verdict, "broken".                          *)
(***************************************************************************)
EXTENDS Naturals, Sequences, FiniteSets, Functions, SequencesExt

CONSTANTS Jobs,        \* jobs that resolve a configuration
          TTL,         \* lifetime of a cached organisation file
          FetchLimit,  \* longest time a fetch of that file takes
          Horizon,     \* bound on the clock
          MaxEdits     \* bound on edits of the organisation file

VARIABLES scene,   \* the documents, variables and flags the jobs meet
          now,     \* clock
          org,     \* version of the organisation's file; 0: there is none
          entries, \* cached file: <<>> or <<[text, expires]>>
          pc,      \* jobs: where each one is
          cfg,     \* jobs: the configuration resolved so far
          log,     \* jobs: the resolution log
          fetched, \* jobs: what the fetch in flight has read
          seen     \* history: edits, and what each job started from

vars == <<scene, now, org, entries, pc, cfg, log, fetched, seen>>
-----------------------------------------------------------------------------
ConfigSchema ==
    [language |-> "en-US", profile |-> "chill", max_files |-> 50,
     max_steps |-> 20, max_usd_per_pr |-> 1, min_confidence |-> "low",
     path_filters |-> <<>>]

Optional == {"provider", "style"}   \* no default: provider, a ruleset category
Lists    == {"path_filters"}
Keys     == DOMAIN ConfigSchema \cup Optional

RECOMMENDED_YAML ==
    [max_files |-> 50, max_steps |-> 20, max_usd_per_pr |-> 1,
     min_confidence |-> "low", path_filters |-> <<"build">>, style |-> "minor"]

STRICT_YAML ==
    [max_files |-> 100, max_steps |-> 30, max_usd_per_pr |-> 2,
     min_confidence |-> "low", path_filters |-> <<"build">>, style |-> "minor"]

SECURITY_FOCUSED_YAML ==
    [max_files |-> 100, max_steps |-> 30, max_usd_per_pr |-> 2,
     min_confidence |-> "low", path_filters |-> <<"build">>, style |-> "disabled"]

BUNDLED_PRESETS ==
    "recommended" :> RECOMMENDED_YAML @@ "strict" :> STRICT_YAML
        @@ "security-focused" :> SECURITY_FOCUSED_YAML

\* What the two files may say.  The repository's max_steps is the default,
\* written out; one path filter stands in both files.
RepoSays ==
    [language |-> "ja-JP", profile |-> "assertive", provider |-> "repo",
     max_files |-> 10, max_steps |-> 20, max_usd_per_pr |-> 4,
     min_confidence |-> "high", path_filters |-> <<"build", "repo">>,
     style |-> "major"]

OrgSays ==
    [language |-> "de-DE", profile |-> "assertive", provider |-> "org",
     max_files |-> 70, max_steps |-> 40, max_usd_per_pr |-> 7,
     min_confidence |-> "medium", path_filters |-> <<"org", "build">>,
     style |-> "disabled"]

Says(all) == {Restrict(all, D) : D \in {{}, Keys} \cup {{k} : k \in Keys}}

\* A document that is there and well formed; extends is a list of presets, or
\* the scalar org.
Document(say, ext, o) == [kind |-> "yaml", says |-> say, extends |-> ext, org |-> o]
Absent == [kind |-> "missing"]
Broken == [kind |-> "broken"]
Extends == {<<>>, <<"recommended">>, <<"strict", "recommended">>,
            <<"security-focused">>, <<"strict", "strict">>, <<"org">>}
RepoDocs == {Absent, Broken}
              \cup {Document(s, e, FALSE) : s \in Says(RepoSays), e \in Extends}
OrgDocs  == {Broken} \cup {Document(s, e, FALSE) : s \in Says(OrgSays),
                                                   e \in {<<>>, <<"strict">>}}

\* REVIEW_AGENT_* variables: any subset of usable ones, or one refused value.
EnvVars == [language |-> "fr-FR", provider |-> "env", model |-> "env",
            max_usd_per_pr |-> 5, max_steps |-> 45]
BadVars == [language |-> "xx", max_usd_per_pr |-> 0, max_steps |-> 99]
Envs  == {Restrict(EnvVars, D) : D \in SUBSET DOMAIN EnvVars}
           \cup {Restrict(BadVars, {k}) : k \in DOMAIN BadVars}
Flags == {<<>>, [language |-> "it-IT"], [language |-> "xx"],
          [profile |-> "assertive"], [profile |-> "loud"]}
-----------------------------------------------------------------------------
deepMerge(target, source) == source @@ target

\* An unknown name, org in a list and a name met twice all stop the load.
ExtendsRefused(names) ==
    \/ \E i \in DOMAIN names : names[i] \notin DOMAIN BUNDLED_PRESETS
    \/ ~IsInjective(names)

resolveExtendsPresets(names, repoRaw) ==
    deepMerge(FoldLeft(LAMBDA base, n : deepMerge(base, BUNDLED_PRESETS[n]),
                       <<>>, names), repoRaw)

LoadFails(doc) == doc.kind = "broken" \/ ExtendsRefused(doc.extends)

\* Schema defaults fill what neither the document nor a preset mentions.
loadConfigFromYaml(doc) ==
    deepMerge(ConfigSchema, resolveExtendsPresets(doc.extends, doc.says))

AfterPresetsHasMaxSteps(doc) ==
    "max_steps" \in DOMAIN resolveExtendsPresets(doc.extends, doc.says)

\* Only the text of the document itself counts, not what a preset added.
rawYamlHasMaxSteps(doc) == "max_steps" \in DOMAIN doc.says

Has(layer, k) == k \in DOMAIN layer

EnvRefused(env) ==
    \/ Has(env, "language") /\ env["language"] = "xx"
    \/ Has(env, "provider") # Has(env, "model")
    \/ Has(env, "max_usd_per_pr") /\ env["max_usd_per_pr"] = 0

mergeWithEnv(config, env) ==
    Restrict(env, {"language", "provider", "max_usd_per_pr"} \cap DOMAIN env) @@ config

applyMaxStepsEnv(config, env) == [config EXCEPT !["max_steps"] = env["max_steps"]]

\* 'default' for a section the document left at its default, before env.
buildSectionSources(config, primarySource) ==
    [k \in Keys |->
        IF k \notin DOMAIN config \/ (k \in DOMAIN ConfigSchema /\ config[k] = ConfigSchema[k])
        THEN "default" ELSE primarySource]

\* repo wins on scalars, already filled with its defaults; provider and ruleset
\* entries fall back to the organisation; lists are joined; a field the merge
\* does not name is parsed again to its default.
mergeOrgIntoRepo(orgConfig, repoConfig) ==
    Restrict(repoConfig, {"language", "profile", "max_files", "max_steps", "max_usd_per_pr"})
      @@ [k \in Lists |->
            FoldLeft(LAMBDA acc, e : IF Contains(acc, e) THEN acc ELSE Append(acc, e),
                     <<>>, orgConfig[k] \o repoConfig[k])]
      @@ Restrict(repoConfig, Optional \cap DOMAIN repoConfig)
      @@ Restrict(orgConfig, Optional \cap DOMAIN orgConfig)
      @@ ConfigSchema
-----------------------------------------------------------------------------
\* One job against every combination of layers, or all jobs against an
\* organisation file that is edited while they run.
LocalScenes ==
    [via : {"review", "dry-run"}, repo : RepoDocs, org : {Absent}, env : Envs, flags : Flags]
    \cup [via : {"action"}, repo : RepoDocs, org : {Absent}, env : Envs, flags : {<<>>}]
ServerScenes ==
    [via : {"server"}, env : {<<>>}, flags : {<<>>}, org : OrgDocs,
     repo : RepoDocs \cup {Document(s, <<>>, TRUE) : s \in Says(RepoSays)}]
BusyScenes ==
    [via : {"busy server"}, env : {<<>>}, flags : {<<>>}, org : {Document(OrgSays, <<>>, FALSE)},
     repo : {Document(RepoSays, <<>>, TRUE)}]

Busy   == scene.via = "busy server"
Server == scene.via \in {"server", "busy server"}
Solo   == CHOOSE j \in Jobs : TRUE

Init ==
    /\ scene \in LocalScenes \cup ServerScenes \cup BusyScenes
    /\ now = 0
    /\ org \in IF Server THEN {0, 1} ELSE {0}
    /\ entries = <<>>
    /\ pc = [j \in Jobs |-> IF Busy \/ j = Solo THEN "idle" ELSE "off"]
    /\ cfg = [j \in Jobs |-> ConfigSchema]
    /\ log = [j \in Jobs |-> <<>>]
    /\ fetched = [j \in Jobs |-> [text |-> 0, sent |-> 0]]
    /\ seen = [edited |-> IF org = 1 THEN <<0>> ELSE <<>>, floor |-> 0,
               job |-> [j \in Jobs |-> [at |-> 0, floor |-> 0, used |-> 0]]]

Goto(j, l) == pc' = [pc EXCEPT ![j] = l]
Resolves(j, l, config) == Goto(j, l) /\ cfg' = [cfg EXCEPT ![j] = config]
OrgVars == <<scene, now, org, entries, fetched, seen>>

\* The file is read; a missing or unreadable one is a null.
readYamlText(j) ==
    /\ pc[j] = "idle" /\ ~Server
    /\ Goto(j, "read")
    /\ UNCHANGED <<cfg, log, OrgVars>>

\* The base is the document's configuration, or the defaults; env goes on top,
\* except that max_steps yields to a value written in the document.
resolveEffectiveConfig(j) ==
    LET doc      == scene.repo
        there    == doc.kind # "missing"
        base     == IF there THEN loadConfigFromYaml(doc) ELSE ConfigSchema
        explicit == there /\ rawYamlHasMaxSteps(doc)
        steps    == Has(scene.env, "max_steps") /\ ~explicit
    IN  /\ pc[j] = "read"
        /\ IF \/ there /\ LoadFails(doc)
              \/ EnvRefused(scene.env)
              \/ steps /\ scene.env["max_steps"] \notin 1..50
           THEN Goto(j, "failed") /\ UNCHANGED <<cfg, log>>
           ELSE /\ LET merged == mergeWithEnv(base, scene.env)
                   IN  Resolves(j, "flags", IF steps THEN applyMaxStepsEnv(merged, scene.env)
                                                     ELSE merged)
                /\ log' = [log EXCEPT ![j] =
                     [env |-> scene.env # <<>>,
                      sections |-> buildSectionSources(base,
                                     IF there THEN "repo-yaml" ELSE "default")]]
        /\ UNCHANGED OrgVars

\* --lang goes through mergeWithEnv, which refuses an unknown code; an unknown
\* --profile is ignored.
applyCliOverrides(j) ==
    /\ pc[j] = "flags"
    /\ IF EnvRefused(Restrict(scene.flags, {"language"} \cap DOMAIN scene.flags))
       THEN Goto(j, "failed") /\ UNCHANGED cfg
       ELSE Resolves(j, IF scene.via = "dry-run" THEN "print" ELSE "done",
                     Restrict(scene.flags, {k \in DOMAIN scene.flags : scene.flags[k] # "loud"})
                       @@ cfg[j])
    /\ UNCHANGED <<log, OrgVars>>

\* The dry run prints the resolution, and without --pr that is all it does.
runDryRunCommand(j) ==
    /\ pc[j] = "print"
    /\ \E outcome \in {"done", "auth_failed", "parse_error"} : Goto(j, outcome)
    /\ UNCHANGED <<cfg, log, OrgVars>>
-----------------------------------------------------------------------------
\* The job goes on with version v of the organisation's file, 0 for none.
WithOrgText(j, v) ==
    LET repo  == scene.repo
        there == repo.kind # "missing"
    IN  IF (v = 0 /\ there) \/ (v # 0 /\ LoadFails(scene.org))
        THEN Goto(j, "failed") /\ UNCHANGED cfg
        ELSE Resolves(j, "done",
               CASE v = 0  -> ConfigSchema
                 [] ~there -> loadConfigFromYaml(scene.org)
                 [] OTHER  -> mergeOrgIntoRepo(loadConfigFromYaml(scene.org),
                                               loadConfigFromYaml(repo)))

Used(j, v) == seen' = [seen EXCEPT !.job[j].used = v]
Started(j) == [at |-> now, floor |-> seen.floor, used |-> 0]

Cached == entries # <<>> /\ entries[1].expires > now

\* A cached text that has not expired answers at once.
CacheHit(j) ==
    /\ Cached
    /\ seen' = [seen EXCEPT !.job[j] = [Started(j) EXCEPT !.used = entries[1].text]]
    /\ WithOrgText(j, entries[1].text)
    /\ UNCHANGED <<entries, fetched>>

CacheMiss(j) ==
    /\ ~Cached
    /\ Goto(j, "asking")
    /\ seen' = [seen EXCEPT !.job[j] = Started(j)]
    /\ fetched' = [fetched EXCEPT ![j].sent = now]
    /\ UNCHANGED <<entries, cfg>>

\* The repository's own file decides alone unless it is missing or says
\* extends: org.
loadConfigWithOrgFallback(j) ==
    LET repo == scene.repo
    IN  /\ pc[j] = "idle" /\ Server
        /\ IF repo.kind # "missing" /\ (LoadFails(repo) \/ ~repo.org)
           THEN /\ IF LoadFails(repo) THEN Goto(j, "failed") /\ UNCHANGED cfg
                   ELSE Resolves(j, "done", loadConfigFromYaml(repo))
                /\ UNCHANGED <<entries, fetched, seen>>
           ELSE CacheHit(j) \/ CacheMiss(j)
        /\ UNCHANGED <<scene, now, org, log>>

\* The host reads the file at some instant of the fetch, or the fetch fails.
Fetch(j) ==
    /\ pc[j] = "asking"
    /\ \/ Goto(j, "answered") /\ fetched' = [fetched EXCEPT ![j].text = org]
       \/ Goto(j, "failed") /\ UNCHANGED fetched
    /\ UNCHANGED <<scene, now, org, entries, cfg, log, seen>>

\* The answer replaces whatever the cache holds by now; its lifetime starts here.
get(j) ==
    /\ pc[j] = "answered"
    /\ entries' = <<[text |-> fetched[j].text, expires |-> now + TTL]>>
    /\ Used(j, fetched[j].text)
    /\ WithOrgText(j, fetched[j].text)
    /\ UNCHANGED <<scene, now, org, log, fetched>>

InFlight(j) == pc[j] \in {"asking", "answered"}

\* Entries are dropped; a fetch in flight is not told.
invalidate ==
    /\ Busy /\ entries # <<>>
    /\ entries' = <<>>
    /\ seen' = [seen EXCEPT !.floor = IF \E j \in Jobs : pc[j] = "answered" THEN @ ELSE org]
    /\ UNCHANGED <<scene, now, org, pc, cfg, log, fetched>>
-----------------------------------------------------------------------------
EditOrg ==
    /\ Busy /\ org <= MaxEdits
    /\ org' = org + 1
    /\ seen' = [seen EXCEPT !.edited = Append(@, now)]
    /\ UNCHANGED <<scene, now, entries, pc, cfg, log, fetched>>

Tick ==
    /\ Busy /\ now < Horizon
    /\ \A j \in Jobs : InFlight(j) => now < fetched[j].sent + FetchLimit
    /\ now' = now + 1
    /\ UNCHANGED <<scene, org, entries, pc, cfg, log, fetched, seen>>

Next ==
    \/ \E j \in Jobs :
          \/ readYamlText(j) \/ resolveEffectiveConfig(j) \/ applyCliOverrides(j)
          \/ runDryRunCommand(j)
          \/ loadConfigWithOrgFallback(j) \/ Fetch(j) \/ get(j)
    \/ invalidate \/ EditOrg \/ Tick

Spec == Init /\ [][Next]_vars
-----------------------------------------------------------------------------
\* The value of key k: that of the first layer that has it.
First(layers, k) ==
    layers[CHOOSE i \in DOMAIN layers :
              Has(layers[i], k) /\ \A h \in 1..(i - 1) : ~Has(layers[h], k)][k]
Explains(layers, config) ==
    /\ DOMAIN config = UNION {DOMAIN layers[i] : i \in DOMAIN layers} \cap Keys
    /\ \A k \in DOMAIN config : config[k] = First(layers, k)

\* A document's layers, the document itself first, then its presets from the
\* last one named to the first, then the schema.
LayersOf(doc) ==
    IF doc.kind = "missing" THEN <<ConfigSchema>>
    ELSE <<doc.says>> \o [i \in DOMAIN doc.extends |-> BUNDLED_PRESETS[Reverse(doc.extends)[i]]]
           \o <<ConfigSchema>>

EnvFirst(k) == k # "max_steps"
Valid(flags) == RestrictDomain(flags, LAMBDA k : flags[k] # "loud")

LocalExplained(j) ==
    LET below == LayersOf(scene.repo)
        above == <<Valid(scene.flags), RestrictDomain(scene.env, EnvFirst)>>
        steps == IF scene.repo.kind = "missing" THEN <<scene.env>> \o below
                 ELSE <<below[1], scene.env>> \o Tail(below)
    IN  /\ Explains(<<[max_steps |-> First(steps, "max_steps")]>> \o above \o below, cfg[j])
        /\ \A k \in Keys :
             log[j].sections[k] = "default" /\ Has(cfg[j], k) /\ ~log[j].env /\ scene.flags = <<>>
               => Has(ConfigSchema, k) /\ cfg[j][k] = ConfigSchema[k]

\* With both files, the organisation's reaches the job through the lists, the
\* provider and the ruleset; elsewhere the repository's defaults hide it, and
\* min_confidence is neither's.
ServerExplained(j) ==
    LET v       == seen.job[j].used
        repo    == LayersOf(scene.repo)
        central == LayersOf(scene.org)
    IN  CASE v = 0 -> Explains(repo, cfg[j])
          [] v # 0 /\ scene.repo.kind = "missing" -> Explains(central, cfg[j])
          [] OTHER ->
               /\ \A k \in DOMAIN ConfigSchema \ (Lists \cup {"min_confidence"}) :
                    cfg[j][k] = First(repo, k)
               /\ cfg[j]["min_confidence"] = ConfigSchema["min_confidence"]
               /\ \A k \in Optional \cap DOMAIN cfg[j] : cfg[j][k] = First(repo \o central, k)
               /\ \A k \in Lists :
                    /\ IsInjective(cfg[j][k])
                    /\ Range(cfg[j][k]) = Range(First(repo, k)) \cup Range(First(central, k))

\* The organisation's file that a job saw is out of date by less than one
\* cache lifetime and one fetch, and not older than the last invalidate unless
\* an answer was on its way then (createOrgConfigCache).
OrgIsFresh ==
    \A j \in Jobs : Busy /\ pc[j] = "done" =>
        LET job == seen.job[j]
        IN  /\ job.used >= job.floor
            /\ \A v \in DOMAIN seen.edited :
                 v > job.used => job.at < seen.edited[v] + TTL + FetchLimit

\* Every configuration a job runs with is the one its layers explain, key by
\* key: flags, then environment, then the document, its presets and the schema's
\* defaults, with max_steps taken from the document before the environment
\* (resolveEffectiveConfig, applyCliOverrides, mergeOrgIntoRepo); and the
\* organisation's file it saw is fresh.
ConfigExplained ==
    /\ \A j \in Jobs : pc[j] = "done" => IF Server THEN ServerExplained(j) ELSE LocalExplained(j)
    /\ OrgIsFresh
=============================================================================
