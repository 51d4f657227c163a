----------------------------- MODULE HistoryPages -----------------------------
(***************************************************************************)
(* The review history: the runner records one row of review_eval_event per *)
(* job, `recover review-eval-events` adds the missing ones, and the        *)
(* history page walks the table page by page with a cursor                 *)
(* (server/src/api/reviews.ts, GET /repos/:id/reviews, cursor.ts,          *)
(* web/src/pages/history.tsx). Rows carry PostgreSQL's microseconds, the   *)
(* cursor what is left of them in a JavaScript Date.                       *)
(***************************************************************************)
EXTENDS Integers, FiniteSets, Functions

CONSTANTS
    Jobs,           \* review jobs
    JobRepo,        \* JobRepo[j]: the repository the job reviews
    Aborted,        \* jobs that end with an abort reason
    Platforms,      \* Platforms[name]: the platform a repository is registered for
    PerMs,          \* microseconds per millisecond
    MaxTime,        \* bound: the database's clock
    Limit,          \* rows per page
    Window,         \* the "24h" of the since filter
    Scenes,         \* bound: jobs, recoveries, changes of repos, filters and requests
    None

Names == DOMAIN Platforms

VARIABLES
    left,           \* the member of Scenes in force, counted down
    now,            \* the database's clock, in microseconds
    job,            \* job[j]: how far the job is
    events,         \* review_eval_event: [id, at, job, repo, failed, recovered]
    live,           \* names with a live row in repos
    recover,        \* the recover command: [pc, candidates, fresh, repo]
    raced,          \* history: jobs still running when a recovery looked for their events
    request,        \* GET requests under way: [key, pc, rows, fetched, base]
    cache,          \* answers by key: [key, items, next, total, cut, dropped, base]
    page,           \* the key the page shows
    walk            \* history: [prev, ends, base] of the pages before this one

vars == <<left, now, job, events, live, recover, raced, request, cache, page, walk>>
unchangedTable == UNCHANGED <<now, job, events, live, recover, raced>>
unchangedPage == UNCHANGED <<request, cache, page, walk>>

NoRecover == [pc |-> "idle", candidates |-> {}, fresh |-> {}, repo |-> None]
Asked(key) == [key |-> key, pc |-> "asked", rows |-> {}, fetched |-> {}, base |-> 0]
NoWalk == [prev |-> {}, ends |-> {}, base |-> 0]

Init ==
    /\ left \in Scenes
    /\ now = 0 /\ job = [j \in Jobs |-> "new"] /\ events = {}
    /\ live = Names /\ recover = NoRecover /\ raced = {}
    /\ page \in {[filter |-> f, cursor |-> None] : f \in left.filters}
    /\ request = {Asked(page)} /\ cache = {} /\ walk = NoWalk

-----------------------------------------------------------------------------
(* Writers. created_at is the time at which the statement began, which may *)
(* lie before the moment its row becomes visible.                          *)

Tick ==
    /\ now < MaxTime /\ now' = now + 1
    /\ UNCHANGED <<left, job, events, live, recover, raced>> /\ unchangedPage

\* A recovered row has no pull request number.
row(n, at, j, repo, failed, recovered) ==
    [id |-> n, at |-> at, job |-> j, repo |-> repo, failed |-> failed, recovered |-> recovered]
nextIds(js) ==
    LET n == Cardinality(events) IN Injection(js, n + 1 .. n + Cardinality(js))
Began == {t \in {now - 1, now} : t >= 0}

\* The model call's cost row, the same for every attempt of the job.
recordCost(j) ==
    /\ job[j] = "new" /\ j \in left.jobs
    /\ job' = [job EXCEPT ![j] = "costed"]
    /\ UNCHANGED <<left, now, events, live, recover, raced>> /\ unchangedPage

\* The end of runReview; a failed insert is reported and forgotten.
recordEvalEvent(j) ==
    /\ job[j] = "costed"
    /\ job' = [job EXCEPT ![j] = "recorded"]
    /\ \/ \E t \in Began : events' = events \cup
              {row(Cardinality(events) + 1, t, j, JobRepo[j], j \in Aborted, FALSE)}
       \/ UNCHANGED events
    /\ UNCHANGED <<left, now, live, recover, raced>> /\ unchangedPage

\* The jobs of the installation that have a cost row.
selectCandidates(name) ==
    /\ recover.pc = "idle" /\ left.recoveries > 0
    /\ left' = [left EXCEPT !.recoveries = @ - 1]
    /\ LET jobs == {j \in Jobs : job[j] # "new"} IN
         /\ jobs # {}
         /\ recover' = [NoRecover EXCEPT !.pc = "candidates", !.candidates = jobs, !.repo = name]
    /\ UNCHANGED <<now, job, events, live, raced>> /\ unchangedPage

selectExistingRepo ==   \* mutant: looks for the jobs among the repository's rows only
    /\ recover.pc = "candidates"
    /\ LET existing == {e.job : e \in {x \in events : x.repo = recover.repo}}
           fresh == recover.candidates \ existing
       IN  recover' = [recover EXCEPT !.pc = IF fresh = {} THEN "done" ELSE "fresh",
                                      !.fresh = fresh]
    /\ raced' = raced \cup {j \in Jobs : job[j] = "costed"}
    /\ UNCHANGED <<left, now, job, events, live>> /\ unchangedPage

\* Those without an event; nothing more to do if there is none, or in a dry run.
selectExisting ==
    /\ recover.pc = "candidates"
    /\ LET fresh == recover.candidates \ {e.job : e \in events}
       IN  recover' = [recover EXCEPT !.pc = IF fresh = {} THEN "done" ELSE "fresh",
                                      !.fresh = fresh]
    /\ raced' = raced \cup {j \in Jobs : job[j] = "costed"}
    /\ UNCHANGED <<left, now, job, events, live>> /\ unchangedPage

(* One statement with a row per job, all with one created_at, all for the  *)
(* repository of the command line and none of them failed.                 *)
insertFresh ==
    /\ recover.pc = "fresh"
    /\ \E t \in Began, ids \in nextIds(recover.fresh) :
         events' = events \cup
           {row(ids[j], t, j, recover.repo, FALSE, TRUE) : j \in recover.fresh}
    /\ recover' = [recover EXCEPT !.pc = "done"]
    /\ UNCHANGED <<left, now, job, live, raced>> /\ unchangedPage

recoverAgain ==   \* the command ends, or is killed
    /\ recover.pc # "idle"
    /\ recover' = NoRecover
    /\ UNCHANGED <<left, now, job, events, live, raced>> /\ unchangedPage

\* Repositories are registered and deleted on other pages.
changeRepos(name) ==
    /\ left.changes > 0
    /\ left' = [left EXCEPT !.changes = @ - 1]
    /\ live' = IF name \in live THEN live \ {name} ELSE live \cup {name}
    /\ UNCHANGED <<now, job, events, recover, raced>> /\ unchangedPage

-----------------------------------------------------------------------------
(* The cursor: the row's created_at in whole milliseconds, and its id.     *)
encodeCursor(e) == [t |-> e.at \div PerMs, id |-> e.id]

afterCursor(e, c) ==
    c = None \/ e.at < c.t * PerMs \/ (e.at = c.t * PerMs /\ e.id < c.id)

resolveSince(f) == IF f.since = "24h" THEN now - Window ELSE 0
deriveOutcome(e) == IF e.failed THEN "failed" ELSE "commented"

Later(d, e) == d.at > e.at \/ (d.at = e.at /\ d.id > e.id)
inSql(e, f) == e.at >= resolveSince(f) /\ (f.name = "all" \/ e.repo = f.name)

\* The first n rows of S in the order of (created_at, id) DESC.
newest(S, n) ==
    {T \in SUBSET S : /\ Cardinality(T) = (IF Cardinality(S) < n THEN Cardinality(S) ELSE n)
                      /\ \A d \in T, e \in S \ T : Later(d, e)}

\* One row more than the page has, to see whether there are more.
selectRows(q) ==
    /\ q.pc = "asked"
    /\ q.key.filter.kind = "repo" => q.key.filter.name \in live
    /\ LET wanted == {e \in events : inSql(e, q.key.filter) /\ afterCursor(e, q.key.cursor)}
       IN  \E rows \in newest(wanted, Limit + 1) :
             request' = (request \ {q}) \cup
               {[q EXCEPT !.pc = "rows", !.base = Cardinality(events), !.rows = rows]}
    /\ unchangedTable /\ UNCHANGED <<left, cache, page, walk>>

\* A bad cursor, a repository that is gone, the gate, the database.
fetchFails(q) ==
    /\ request' = request \ {q}
    /\ unchangedTable /\ UNCHANGED <<left, cache, page, walk>>

\* The filter in memory, after the names' live rows were read.
kept(e, f) ==
    \/ f.kind = "repo"
    \/ /\ e.repo \in live
       /\ f.platform \in {"all", Platforms[e.repo]}
       /\ f.outcome \in {"all", deriveOutcome(e)}

resolve(q) ==
    /\ q.pc = "rows"
    /\ request' = (request \ {q}) \cup
         {[q EXCEPT !.pc = "filtered",
                    !.fetched = q.rows,
                    !.rows = {e \in q.rows : kept(e, q.key.filter)}]}
    /\ unchangedTable /\ UNCHANGED <<left, cache, page, walk>>

\* What a count of the table finds with the predicates that SQL can express.
countRows(f) ==
    Cardinality({e \in events : inSql(e, f) /\ f.outcome \in {"all", deriveOutcome(e)}})

nextCursorExtra(rows, items) ==   \* mutant: of the row that only shows there are more
    {encodeCursor(l) : l \in rows \ items}

\* The cursor of the last row of the page.
nextCursor(rows, items) ==
    {encodeCursor(l) : l \in {x \in items : \A y \in items \ {x} : Later(y, x)}}

answer(q) ==
    /\ q.pc = "filtered"
    /\ LET hasMore == Cardinality(q.rows) > Limit IN
         \E items \in IF hasMore THEN newest(q.rows, Limit) ELSE {q.rows} :
         \E next \in IF hasMore THEN nextCursor(q.rows, items) ELSE {None} :
           cache' = {d \in cache : d.key # q.key} \cup
             {[key |-> q.key, items |-> items, next |-> next,
               total |-> countRows(q.key.filter),
               cut |-> Cardinality(q.fetched) > Limit /\ ~hasMore,
               dropped |-> q.fetched \ q.rows, base |-> q.base]}
    /\ request' = request \ {q}
    /\ unchangedTable /\ UNCHANGED <<left, page, walk>>

-----------------------------------------------------------------------------
(* The page: one query per filter and cursor; "load more" and every change *)
(* of a filter go to another key.                                          *)

Data(key) == {d \in cache : d.key = key}

\* A query that nobody asked for yet is fetched; a cached one may be used as it is.
ask(key) ==
    /\ left.fetches > 0
    /\ left' = [left EXCEPT !.fetches = @ - 1]
    /\ request' = request \cup {Asked(key)}

show(key) ==
    /\ page' = key
    /\ \/ (\A q \in request : q.key # key) /\ ask(key)
       \/ (Data(key) # {} \/ \E q \in request : q.key = key) /\ UNCHANGED <<left, request>>

\* The smallest table a page of the walk was read from.
Oldest(d) == IF page.cursor = None \/ d.base < walk.base THEN d.base ELSE walk.base

resetCursor(f) ==
    /\ f # page.filter
    /\ show([filter |-> f, cursor |-> None])
    /\ walk' = NoWalk
    /\ unchangedTable /\ UNCHANGED cache

loadMore(d) ==
    /\ d \in Data(page) /\ d.next # None
    /\ show([page EXCEPT !.cursor = d.next])
    /\ LET last == CHOOSE e \in d.items : \A x \in d.items \ {e} : Later(x, e) IN
       walk' = [prev |-> walk.prev \cup d.items, ends |-> walk.ends \cup {last.at \div PerMs},
                base |-> Oldest(d)]
    /\ unchangedTable /\ UNCHANGED cache

refetch ==   \* the window gets the focus
    /\ \A q \in request : q.key # page
    /\ ask(page)
    /\ unchangedTable /\ UNCHANGED <<cache, page, walk>>

Next ==
    \/ Tick \/ \E j \in Jobs : recordCost(j) \/ recordEvalEvent(j)
    \/ \E n \in Names : selectCandidates(n) \/ changeRepos(n)
    \/ selectExisting \/ insertFresh \/ recoverAgain
    \/ \E q \in request : selectRows(q) \/ fetchFails(q) \/ resolve(q) \/ answer(q)
    \/ \E f \in left.filters : resetCursor(f)
    \/ \E d \in cache : loadMore(d)
    \/ refetch

Spec == Init /\ [][Next]_vars

-----------------------------------------------------------------------------
(* A walk never shows a row twice: what a page shows is older than         *)
(* everything the pages before it showed, whatever rows arrive meanwhile.  *)
NoRepeats ==
    \A d \in Data(page) : \A e \in d.items, p \in walk.prev : Later(p, e)

(* When a walk has reached its last page, every row that was in the table  *)
(* when each of its pages was read and that matches has been shown, with   *)
(* two exceptions: rows of the same millisecond as the last one of a page, *)
(* and everything after a full page from which the filter in memory        *)
(* dropped a row, which the server takes for the last page.                *)
MissesExplained ==
    \A d \in Data(page) : d.next = None /\ ~d.cut =>
        \A e \in events \ (walk.prev \cup d.items \cup d.dropped) :
           e.id <= Oldest(d) /\ inSql(e, page.filter) /\ kept(e, page.filter)
             => e.at \div PerMs \in walk.ends

(* A job has two events only if one is its own and the other a recovery's  *)
(* that looked for it while the job was between its cost row and its       *)
(* event; recoveries, repeated for any repositories, add nothing twice.    *)
OneEventPerJob ==
    \A d, e \in events : d.job = e.job /\ d # e =>
        d.recovered # e.recovered /\ d.job \in raced
=============================================================================
