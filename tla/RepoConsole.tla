----------------------------- MODULE RepoConsole -----------------------------
(***************************************************************************)
(* One registered repository as the dashboard shows and changes it: the    *)
(* list, detail and prompt pages (web/src/pages) over the query cache      *)
(* (web/src/api/client.ts), the handlers of server/src/api/repos.ts, which *)
(* take two or three database statements each without a transaction, and a *)
(* second operator who calls the same API.                                 *)
(***************************************************************************)
EXTENDS Naturals, ApiGate

CONSTANTS
    Calls,          \* changing requests, each made once, numbered as sent
    Texts,          \* prompts an operator may type
    Blanks,         \* those of them that are empty or white space
    None,           \* no data, no call, no page
    Env,            \* how the server was started
    Scenes          \* bound: [pages, start, keys, ops, calls] that one behaviour
                    \* makes use of

VARIABLES
    scene,          \* the member of Scenes in force
    mock,           \* IS_MOCK: the browser serves itself from memory
    row,            \* the repository's row
    call,           \* call[q]: the request, the server's progress, the browser's
    cache,          \* cache[k]: the entry of query key k
    page,           \* the page that is mounted and its React state
    done            \* history: calls whose update was executed

vars == <<scene, mock, row, call, cache, page, done>>

Keys == {"repos", "repo", "repo-prompt"}
Observed(at) ==   \* the prompt page takes only a name from "repo"
    scene.keys \cap CASE at = "repos" -> {"repos"}
                      [] at = "repo" -> {"repo", "repo-prompt"}
                      [] OTHER -> {"repo-prompt"}

NoCall == [by |-> "none", op |-> "none", arg |-> "", pc |-> "new", reply |-> 0,
           ui |-> "none", base |-> {}, after |-> FALSE, over |-> {}, left |-> FALSE, old |-> FALSE]
NoEntry == [data |-> None, stale |-> TRUE, fetch |-> "idle", got |-> None,
            late |-> FALSE]
Opened(at) == [at |-> at, draft |-> "", base |-> "", baseSeen |-> {}, init |-> FALSE,
               old |-> TRUE, failed |-> FALSE, mine |-> {}, asking |-> FALSE, blocked |-> None]

Init ==
    /\ scene \in Scenes
    /\ mock \in BOOLEAN
    /\ row = [live |-> TRUE, enabled |-> TRUE, prompt |-> ""]
    /\ call = [q \in Calls |-> NoCall]
    /\ cache = [k \in Keys |-> IF k \in Observed(scene.start)
                              THEN [NoEntry EXCEPT !.fetch = "asked"] ELSE NoEntry]
    /\ page = Opened(scene.start)
    /\ done = {}

-----------------------------------------------------------------------------
(* The server. A prompt of white space is stored as NULL and read as "";   *)
(* the mock stores it as it is.                                            *)
storedPrompt(text) == IF text \in Blanks /\ ~mock THEN "" ELSE text

Sent(q, by, op, arg, base, old) ==
    /\ q \in scene.calls /\ call[q].pc = "new"
    /\ \A p \in scene.calls : p < q => call[p].pc # "new"
    /\ call' = [call EXCEPT ![q] = [NoCall EXCEPT
                  !.by = by, !.op = op, !.arg = arg, !.pc = "sent", !.base = base, !.old = old,
                  !.ui = IF by = "ui" THEN "pending" ELSE "none",
                  !.after = \E d \in Calls : call[d].reply = 204]]

Answer(q, status) ==
    call' = [call EXCEPT ![q].pc = "answered", ![q].reply = status]

\* The gate and, for PUT after it found the row, the validation of the body.
\* All of them are an error to apiFetch.
Refuse(q) ==
    /\ ~mock
    /\ call[q].pc = "sent" \/ (call[q].pc = "checked" /\ call[q].op = "put")
    /\ Answers(Env, "repos") \ {0, 204} # {}
    /\ Answer(q, 400)
    /\ UNCHANGED <<scene, mock, row, cache, page, done>>

\* SELECT ... WHERE id AND deleted_at IS NULL.
selectLive(q) ==
    /\ ~mock /\ call[q].pc = "sent"
    /\ IF row.live THEN call' = [call EXCEPT ![q].pc = "checked"] ELSE Answer(q, 404)
    /\ UNCHANGED <<scene, mock, row, cache, page, done>>

UpdatedRevives(q) ==   \* mutant: the UPDATE of PATCH makes the row live again
    CASE call[q].op = "patch" -> [row EXCEPT !.enabled = call[q].arg, !.live = TRUE]
      [] call[q].op = "delete" -> [row EXCEPT !.live = FALSE]
      [] OTHER -> [row EXCEPT !.prompt = storedPrompt(call[q].arg)]

\* The effect of q's UPDATE ... WHERE id on the row.
Updated(q) ==
    CASE call[q].op = "patch" -> [row EXCEPT !.enabled = call[q].arg]
      [] call[q].op = "delete" -> [row EXCEPT !.live = FALSE]
      [] OTHER -> [row EXCEPT !.prompt = storedPrompt(call[q].arg)]

\* Prompts saved before q that q's author had not seen.
Unseen(q) == IF call[q].op # "put" THEN {}
             ELSE {p \in done \ call[q].base : call[p].op = "put"}

Executed(q, pc, status) ==
    /\ row' = Updated(q)
    /\ done' = done \cup {q}
    /\ call' = [call EXCEPT ![q] = [@ EXCEPT !.pc = pc, !.reply = status, !.over = Unseen(q)]]

update(q) ==
    /\ ~mock /\ call[q].pc = "checked"
    /\ CASE call[q].op = "patch" -> Executed(q, "updated", 0)
         [] call[q].op = "delete" -> Executed(q, "answered", 204)
         [] OTHER -> Executed(q, "answered", 200)
    /\ UNCHANGED <<scene, mock, cache, page>>

\* PATCH reads the row again for its answer.
refetch(q) ==
    /\ call[q].pc = "updated"
    /\ Answer(q, IF row.live THEN 200 ELSE 404)
    /\ UNCHANGED <<scene, mock, row, cache, page, done>>

(* The mock: one step; patch throws when the repository is gone, delete and *)
(* the prompt store do not look. Its delete does not read a body.          *)
serveMock(q) ==
    /\ mock /\ call[q].pc = "sent"
    /\ IF call[q].op = "patch" /\ ~row.live
       THEN Answer(q, 404) /\ UNCHANGED <<row, done>>
       ELSE Executed(q, "answered", 200)
    /\ UNCHANGED <<scene, mock, cache, page>>

Args(op) == CASE op = "patch" -> BOOLEAN [] op = "put" -> Texts [] OTHER -> {""}

\* The other operator.
Operator(q) ==
    /\ ~mock
    /\ \E op \in scene.ops : \E v \in Args(op) : Sent(q, "api", op, v, {}, FALSE)
    /\ UNCHANGED <<scene, mock, row, cache, page, done>>

-----------------------------------------------------------------------------
(* The query cache (external: @tanstack/react-query, with staleTime 30 s   *)
(* and one retry as main.tsx sets them).                                   *)

Ask(e) == [e EXCEPT !.fetch = "asked", !.got = None, !.late = FALSE]

(* What mounting a page, or giving the window the focus, may do to the     *)
(* entries the page observes: fetch those that are stale, be it that they  *)
(* were invalidated or that staleTime has passed.                          *)
Mounted(c, at) ==
    LET idle == {k \in Observed(at) : c[k].fetch = "idle"}
        must == {k \in idle : c[k].stale}
    IN  {[k \in Keys |-> IF k \in must \cup old THEN Ask(c[k]) ELSE c[k]] :
            old \in SUBSET idle}

(* invalidateQueries: the entry is stale; an observed one is fetched anew, *)
(* but a fetch without earlier data, or one that nobody observes, goes on  *)
(* and its result will count as fresh.                                     *)
Invalidated(k, c) ==
    LET e == [c[k] EXCEPT !.stale = TRUE] IN
    [c EXCEPT ![k] =
        IF k \in Observed(page.at) /\ (e.fetch = "idle" \/ e.data # None) THEN Ask(e)
        ELSE [e EXCEPT !.late = (e.fetch # "idle")]]

Refocus ==
    /\ cache' \in Mounted(cache, page.at) \ {cache}
    /\ UNCHANGED <<scene, mock, row, call, page, done>>

\* What the handlers of GET select for key k, as far as the pages use it.
Selected(k) ==
    CASE k = "repo-prompt" -> [prompt |-> row.prompt, seen |-> {q \in done : call[q].op = "put"}]
      [] OTHER -> [live |-> row.live, enabled |-> row.enabled,
                   seen |-> {q \in done : call[q].op # "put" /\ k = "repos"}]

(* fetchRepos, fetchRepoDetail, fetchRepoPrompt; a repository that is gone *)
(* is a 404.                                                               *)
serveFetch(k) ==
    /\ cache[k].fetch = "asked"
    /\ row.live \/ k = "repos" \/ (mock /\ k = "repo-prompt")
    /\ cache' = [cache EXCEPT ![k].fetch = "read", ![k].got = Selected(k)]
    /\ UNCHANGED <<scene, mock, row, call, page, done>>

(* The data arrives. The prompt page fills its draft with the first data   *)
(* it sees.                                                                *)
initDraft(p, entry) ==
    IF p.at = "prompt" /\ ~p.init /\ entry.data # None
    THEN [p EXCEPT !.draft = entry.data.prompt, !.base = entry.data.prompt,
                   !.baseSeen = entry.data.seen, !.init = TRUE,
                   !.old = (entry.stale \/ entry.fetch # "idle" \/ entry.late)]
    ELSE p

Loaded(k) ==
    /\ cache[k].fetch = "read"
    /\ cache' = [cache EXCEPT ![k] = [data |-> cache[k].got, stale |-> FALSE,
                                      fetch |-> "idle", got |-> None,
                                      late |-> cache[k].late]]
    /\ page' = initDraft(page, cache'["repo-prompt"])
    /\ UNCHANGED <<scene, mock, row, call, done>>

LoadFailed(k) ==
    /\ cache[k].fetch = "asked"
    /\ mock => k = "repo" /\ ~row.live
    /\ cache' = [cache EXCEPT ![k].fetch = "idle", ![k].got = None, ![k].stale = TRUE]
    /\ page' = [page EXCEPT !.failed = @ \/ (k = "repo-prompt" /\ cache[k].data = None)]
    /\ UNCHANGED <<scene, mock, row, call, done>>

-----------------------------------------------------------------------------
(* The pages.                                                              *)

isDirty == page.draft # page.base
Pending(q) == call[q].ui \in {"pending", "refetching"}

\* Page `at` replaces the mounted one, whose callbacks will not run any more.
Enter(c, calls, at) ==
    /\ cache' \in Mounted(c, at)
    /\ page' = initDraft(Opened(at), c["repo-prompt"])
    /\ call' = [q \in Calls |-> IF q \in page.mine /\ Pending(q)
                                THEN [calls[q] EXCEPT !.left = TRUE] ELSE calls[q]]

\* A link. useUnsavedChangesPrompt stops it while the draft is dirty.
Navigate(at) ==
    /\ page.at # at /\ page.blocked = None /\ ~page.asking
    /\ IF isDirty
       THEN page' = [page EXCEPT !.blocked = at] /\ UNCHANGED <<cache, call>>
       ELSE Enter(cache, call, at)
    /\ UNCHANGED <<scene, mock, row, done>>

\* The dialog: confirm proceeds, cancel, Escape and the backdrop stay.
AnswerDialog ==
    /\ page.blocked # None
    /\ \/ Enter(cache, call, page.blocked)
       \/ page' = [page EXCEPT !.blocked = None] /\ UNCHANGED <<cache, call>>
    /\ UNCHANGED <<scene, mock, row, done>>

Idle == page.blocked = None /\ ~page.asking   \* no dialog is open

handleChange(text) ==
    /\ page.at = "prompt" /\ Idle
    /\ ~(cache["repo-prompt"].data = None /\ cache["repo-prompt"].fetch # "idle")
    /\ page' = [page EXCEPT !.draft = text]
    /\ UNCHANGED <<scene, mock, row, call, cache, done>>

\* The buttons of the bar below the editor.
saveEnabled == isDirty /\ ~ \E p \in page.mine : call[p].op = "put" /\ Pending(p)
discardEnabled == isDirty

handleSaveTwice(q) ==   \* mutant: a pending save does not disable the button
    /\ page.at = "prompt" /\ Idle /\ isDirty
    /\ Sent(q, "ui", "put", page.draft, page.baseSeen, page.old)
    /\ page' = [page EXCEPT !.mine = @ \cup {q}]
    /\ UNCHANGED <<scene, mock, row, cache, done>>

handleSave(q) ==
    /\ page.at = "prompt" /\ Idle /\ saveEnabled
    /\ Sent(q, "ui", "put", page.draft, page.baseSeen, page.old)
    /\ page' = [page EXCEPT !.mine = @ \cup {q}]
    /\ UNCHANGED <<scene, mock, row, cache, done>>

handleDiscard ==
    /\ page.at = "prompt" /\ Idle /\ discardEnabled
    /\ page' = [page EXCEPT !.draft = page.base]
    /\ UNCHANGED <<scene, mock, row, call, cache, done>>

(* The repository as the list or the detail page shows it, or None: the    *)
(* list has no row for a deleted one; the detail page shows an error once  *)
(* a load has failed, which is when its entry is stale.                    *)
ReposPage == LET d == cache["repos"].data IN IF d = None \/ d.live THEN d ELSE None
RepoDetailPage == IF cache["repo"].stale THEN None ELSE cache["repo"].data
Shown == CASE page.at = "repos" -> ReposPage [] page.at = "repo" -> RepoDetailPage
           [] OTHER -> None

\* The switch of the list row and of the detail page.
toggle(q) ==
    /\ Shown # None /\ Idle
    /\ Sent(q, "ui", "patch", ~Shown.enabled, {}, FALSE)
    /\ page' = [page EXCEPT !.mine = @ \cup {q}]
    /\ UNCHANGED <<scene, mock, row, cache, done>>

handleDelete ==
    /\ Shown # None /\ Idle
    /\ page' = [page EXCEPT !.asking = TRUE]
    /\ UNCHANGED <<scene, mock, row, call, cache, done>>

handleDeleteConfirm(q) ==
    /\ page.asking
    /\ Sent(q, "ui", "delete", "", {}, FALSE)
    /\ page' = [page EXCEPT !.asking = FALSE, !.mine = @ \cup {q}]
    /\ UNCHANGED <<scene, mock, row, cache, done>>

handleDeleteCancel ==
    /\ page.asking
    /\ page' = [page EXCEPT !.asking = FALSE]
    /\ UNCHANGED <<scene, mock, row, call, cache, done>>

InvalidatesOther(op) == IF op = "put" THEN "repo-prompt" ELSE "repo"   \* mutant: a wrong key

\* The keys a mutation's onSuccess invalidates.
Invalidates(op) == IF op = "put" THEN "repo-prompt" ELSE "repos"
(* apiFetch: a status outside 2xx throws, and so does res.json() on the    *)
(* empty body of a 204.                                                    *)
apiFetch(q) == IF call[q].reply = 200 THEN "ok" ELSE "failed"
\* The answer arrives at the browser.
Respond(q) ==
    /\ call[q].ui = "pending" /\ call[q].pc = "answered"
    /\ call' = [call EXCEPT ![q].ui = IF apiFetch(q) = "failed" THEN "failed"
                                       ELSE IF call[q].op = "put" THEN "refetching" ELSE "ok"]
    /\ cache' = IF apiFetch(q) = "failed" THEN cache
                ELSE Invalidated(Invalidates(call[q].op), cache)
    /\ UNCHANGED <<scene, mock, row, page, done>>

(* The save's own onSuccess runs once the invalidated query has settled,   *)
(* on the page that sent it if that is still open.                         *)
saved(q) ==
    /\ call[q].ui = "refetching"
    /\ cache["repo-prompt"].fetch = "idle"
    /\ call' = [call EXCEPT ![q].ui = "ok"]
    /\ page' = IF q \in page.mine
               THEN [page EXCEPT !.base = call[q].arg, !.baseSeen = @ \cup {q}]
               ELSE page
    /\ UNCHANGED <<scene, mock, row, cache, done>>

\* The detail page goes back to the list when its delete succeeds.
deleted(q) ==
    /\ q \in page.mine /\ page.at = "repo" /\ ~page.asking
    /\ call[q].op = "delete" /\ call[q].ui = "ok"
    /\ Enter(cache, call, "repos")
    /\ UNCHANGED <<scene, mock, row, done>>

\* The connection breaks: the browser gives up on a call that may still run.
Break(q) ==
    /\ ~mock /\ call[q].ui = "pending"
    /\ call' = [call EXCEPT ![q].ui = "failed"]
    /\ UNCHANGED <<scene, mock, row, cache, page, done>>

-----------------------------------------------------------------------------
Server == \E q \in Calls :
    Refuse(q) \/ selectLive(q) \/ update(q) \/ refetch(q) \/ serveMock(q)
Queries == Refocus \/ \E k \in Keys : serveFetch(k) \/ Loaded(k) \/ LoadFailed(k)
User ==
    \/ \E at \in scene.pages : Navigate(at)
    \/ AnswerDialog
    \/ \E t \in Texts : handleChange(t)
    \/ handleDiscard \/ handleDelete \/ handleDeleteCancel
    \/ \E q \in Calls : handleSave(q) \/ toggle(q) \/ handleDeleteConfirm(q)
Callbacks == \E q \in Calls : Respond(q) \/ saved(q) \/ deleted(q) \/ Break(q)

Next == Server \/ Queries \/ User \/ Callbacks \/ \E q \in Calls : Operator(q)
Spec == Init /\ [][Next]_vars

-----------------------------------------------------------------------------
(* A change the browser was told has succeeded is in the data it takes for *)
(* fresh, with three exceptions: the entries the mutation does not         *)
(* invalidate (the detail page keeps the old switch), a load that was on   *)
(* its way unobserved when the change succeeded, and the delete, which     *)
(* the browser takes for failed.                                           *)
OwnChangesShown ==
    \A q \in Calls : call[q].ui \in {"ok", "refetching"} =>
        LET e == cache[Invalidates(call[q].op)] IN
        \/ e.data = None \/ e.stale \/ e.fetch # "idle" \/ e.late
        \/ q \in e.data.seen

(* A prompt saved from the page replaces, besides the one its author       *)
(* started from, only prompts of the other operator, of a save whose page  *)
(* was left before it was answered and of one the page saw fail - provided *)
(* its editor was filled, and from an entry that was neither invalidated   *)
(* nor being fetched: the newer data never replaces the draft.             *)
OverwritesExplained ==
    \A q \in Calls :
        call[q].by = "ui" /\ ~call[q].left /\ call[q].ui # "failed" /\ ~call[q].old =>
        \A p \in call[q].over :
            call[p].by = "api" \/ call[p].left \/ call[p].ui = "failed"

(* A delete that was acknowledged is final: no change sent later succeeds, *)
(* whatever other requests were between their check and their update.      *)
DeletesFinal ==
    \A q \in Calls : ~mock /\ call[q].after => call[q].reply # 200 /\ q \notin done

(* Loaded data never replaces text the operator has typed, except on a     *)
(* page whose first load failed and which shows an empty editor meanwhile. *)
KeepsDraft ==
    page.at = "prompt" /\ page'.at = "prompt" /\ isDirty /\ cache' # cache
        => page'.draft = page.draft \/ page.failed
=============================================================================
