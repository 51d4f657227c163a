---------------------------- MODULE RepoOnboarding ----------------------------
(***************************************************************************)
(* How repositories of a GitHub App installation come into the repos       *)
(* table: the installation webhooks and the setup redirect keep the row of *)
(* github_installations (server/src/github-setup.ts, handlers/webhook.ts), *)
(* the registration page lists what the installation gives access to and   *)
(* registers a selection with POST /repos/bulk (api/github-repos.ts), and  *)
(* POST /repos registers one name without looking.                         *)
(***************************************************************************)
EXTENDS Naturals, Sequences, SequencesExt, FiniteSets

CONSTANTS
    Calls,          \* POST requests, each made once, numbered as sent
    Names,          \* repositories the installation gives access to
    Batches,        \* `names` of the bulk requests other clients make
    Scenes,         \* bound: the events, requests and names of one behaviour
    None

ASSUME CallsAssumption == Calls \subseteq Nat /\ None \notin Calls
ASSUME NamesAssumption == IsFiniteSet(Names)
ASSUME ScenesAssumption ==
    Scenes \subseteq [events : Nat, calls : SUBSET Calls, names : SUBSET Names]
ASSUME BatchesAssumption == Batches \subseteq Seq(Names)

VARIABLES
    scene,          \* the member of Scenes in force
    github,         \* the installation at GitHub
    events,         \* how many events GitHub has sent
    hooks,          \* events on their way: [n, action]
    inst,           \* the row of github_installations
    setup,          \* the setup redirect: its progress
    token,          \* the cached installation token
    rows,           \* live rows of repos: [name, by, linked]
    call,           \* call[q]: a POST request and the server's progress
    listing,        \* the GET request of the registration page
    page,           \* the registration page or the "new repository" form
    applied,        \* history: the latest event applied
    excuse          \* history: why inst may differ from github

vars == <<scene, github, events, hooks, inst, setup, token, rows, call, listing, page,
          applied, excuse>>
unchangedGithub == UNCHANGED <<scene, github, events, hooks, inst, setup, applied, excuse>>
unchangedRepos == UNCHANGED <<token, rows, call, listing, page>>

NoCall == [by |-> None, kind |-> "none", names |-> <<>>, pc |-> "new", known |-> {},
           left |-> 0, created |-> 0, already |-> 0, errors |-> 0, status |-> 0, during |-> {}]
NoPage == [at |-> "away", data |-> None, selected |-> {}, name |-> None, sent |-> None,
           submitted |-> None, asked |-> FALSE]

Init ==
    /\ scene \in Scenes
    /\ github = "none" /\ events = 0 /\ hooks = {} /\ inst = "none"
    /\ setup = "idle" /\ token = "none" /\ rows = {}
    /\ call = [q \in Calls |-> NoCall]
    /\ listing = "idle" /\ page = NoPage
    /\ applied = 0 /\ excuse = {}

-----------------------------------------------------------------------------
(* GitHub (external): the installation changes and an event is sent.       *)

Actions(state) ==
    CASE state = "none" -> {<<"created", "active">>}
      [] state = "active" -> {<<"suspend", "suspended">>, <<"deleted", "deleted">>}
      [] state = "suspended" -> {<<"unsuspend", "active">>, <<"deleted", "deleted">>}
      [] OTHER -> {}

Change ==
    /\ events < scene.events
    /\ \E a \in Actions(github) :
         /\ github' = a[2]
         /\ hooks' = hooks \cup {[n |-> events + 1, action |-> a[1]]}
    /\ events' = events + 1
    /\ UNCHANGED <<scene, inst, setup, applied, excuse>> /\ unchangedRepos

Lose(h) ==   \* not delivered, or answered 500: GitHub does not send it again
    /\ hooks' = hooks \ {h}
    /\ excuse' = excuse \cup {"lost"}
    /\ UNCHANGED <<scene, github, events, inst, setup, applied>> /\ unchangedRepos

InstAfterKept(action) ==   \* mutant: an unsuspend keeps suspended_at
    CASE action = "created" -> "active"
      [] action = "unsuspend" -> IF inst = "none" THEN "active" ELSE inst
      [] action = "suspend" -> IF inst = "none" THEN "none" ELSE "suspended"
      [] OTHER -> "none"

\* The row after an event; the foreign key of repos is ON DELETE SET NULL.
InstAfter(action) ==
    CASE action \in {"created", "unsuspend"} -> "active"
      [] action = "suspend" -> IF inst = "none" THEN "none" ELSE "suspended"
      [] OTHER -> "none"
Linked(i) == IF i = "none" THEN {[r EXCEPT !.linked = FALSE] : r \in rows} ELSE rows

handleInstallationEvent(h) ==
    /\ inst' = InstAfter(h.action)
    /\ rows' = Linked(inst')
    /\ hooks' = hooks \ {h}
    /\ applied' = IF h.n > applied THEN h.n ELSE applied
    /\ excuse' = excuse \cup (IF h.n < applied THEN {"reordered"} ELSE {})
                        \cup (IF setup = "fetched" THEN {"setup"} ELSE {})
    /\ UNCHANGED <<scene, github, events, setup, token, call, listing, page>>

-----------------------------------------------------------------------------
(* The setup redirect: the state cookie, GitHub's answer for the           *)
(* installation, and the upsert, which leaves suspended_at alone.          *)

installRedirect ==
    /\ setup = "idle"
    /\ setup' = "redirected"
    /\ UNCHANGED <<scene, github, events, hooks, inst, applied, excuse>> /\ unchangedRepos

(* A bad query, no cookie or another state, an action that awaits approval *)
(* or no id: back to the dashboard with an error.                          *)
setupRefused ==
    /\ setup = "redirected"
    /\ setup' = "done"
    /\ UNCHANGED <<scene, github, events, hooks, inst, applied, excuse>> /\ unchangedRepos

fetchInstallation ==
    /\ setup = "redirected"
    /\ setup' = IF github \in {"active", "suspended"} THEN "fetched" ELSE "done"
    /\ UNCHANGED <<scene, github, events, hooks, inst, applied, excuse>> /\ unchangedRepos

setupUpsert ==
    /\ setup = "fetched"
    /\ inst' = IF inst = "none" THEN "active" ELSE inst
    /\ setup' = "done"
    /\ page' = IF page.at = "away" THEN [NoPage EXCEPT !.at = "github"] ELSE page
    /\ listing' = IF page.at = "away" THEN "asked" ELSE listing
    /\ UNCHANGED <<scene, github, events, hooks, applied, excuse, token, rows, call>>

-----------------------------------------------------------------------------
(* GET /github/installations/:id/repos: 404 unless the row is there and    *)
(* not suspended, 502 when GitHub refuses, else the accessible names with  *)
(* those that have a live row flagged.                                     *)

ListingFails ==
    /\ listing # "idle"
    /\ listing' = "idle"
    /\ unchangedGithub /\ UNCHANGED <<token, rows, call, page>>

checkInstallation ==
    /\ listing = "asked" /\ inst = "active"
    /\ listing' = "checked"
    /\ unchangedGithub /\ UNCHANGED <<token, rows, call, page>>

\* A cached token is used until it is about to expire; GitHub mints for active ones.
getInstallationToken ==
    /\ listing = "checked"
    /\ token = "cached" \/ github = "active"
    /\ token' = "cached"
    /\ listing' = "token"
    /\ unchangedGithub /\ UNCHANGED <<rows, call, page>>

TokenExpires ==
    /\ token = "cached" /\ token' = "none"
    /\ unchangedGithub /\ UNCHANGED <<rows, call, listing, page>>

listInstallationRepos ==
    /\ listing = "token" /\ github = "active"
    /\ listing' = "listed"
    /\ unchangedGithub /\ UNCHANGED <<token, rows, call, page>>

Registered == {r.name : r \in rows}

accessibleRepos ==
    /\ listing = "listed"
    /\ listing' = "idle"
    /\ page' = IF page.at = "github" THEN [page EXCEPT !.data = Registered] ELSE page
    /\ unchangedGithub /\ UNCHANGED <<token, rows, call>>

-----------------------------------------------------------------------------
(* POST /repos/bulk and POST /repos.                                       *)

Unfinished == {p \in Calls : call[p].pc \notin {"new", "answered"}}
Sent(q, by, kind, names) ==
    /\ q \in scene.calls /\ call[q].pc = "new"
    /\ \A p \in scene.calls : p < q => call[p].pc # "new"
    /\ call' = [call EXCEPT ![q] = [NoCall EXCEPT !.by = by, !.kind = kind, !.names = names,
                                    !.pc = "sent", !.during = Unfinished]]

OtherClient(q) ==
    /\ \/ \E b \in Batches \cap Seq(scene.names) : Sent(q, "api", "bulk", b)
       \/ \E n \in scene.names : Sent(q, "api", "create", <<n>>)
    /\ unchangedGithub /\ UNCHANGED <<token, rows, listing, page>>

createRepo(q) ==
    /\ call[q].pc = "sent" /\ call[q].kind = "create"
    /\ rows' = rows \cup {[name |-> call[q].names[1], by |-> <<q, 1>>, linked |-> FALSE]}
    /\ call' = [call EXCEPT ![q].pc = "answered", ![q].status = 201]
    /\ unchangedGithub /\ UNCHANGED <<token, listing, page>>

selectExistingNone(q) ==   \* mutant: names that are registered already are not looked up
    /\ call[q].pc = "sent" /\ call[q].kind = "bulk"
    /\ call' = [call EXCEPT ![q].pc = "inserting", ![q].left = 1]
    /\ unchangedGithub /\ UNCHANGED <<token, rows, listing, page>>

selectExisting(q) ==
    /\ call[q].pc = "sent" /\ call[q].kind = "bulk"
    /\ call' = [call EXCEPT ![q].pc = "inserting", ![q].left = 1,
                            ![q].known = Registered \cap ToSet(call[q].names)]
    /\ unchangedGithub /\ UNCHANGED <<token, rows, listing, page>>

(* One name: known ones are skipped, the others inserted in a transaction  *)
(* of their own, which fails without the installation's row (foreign key)  *)
(* or when the database does.                                              *)
registerOne(q) ==
    /\ call[q].pc = "inserting" /\ call[q].left <= Len(call[q].names)
    /\ LET n == call[q].names[call[q].left] IN
         \/ /\ n \in call[q].known
            /\ call' = [call EXCEPT ![q].left = @ + 1, ![q].already = @ + 1]
            /\ UNCHANGED rows
         \/ /\ n \notin call[q].known /\ inst # "none"
            /\ rows' = rows \cup {[name |-> n, by |-> <<q, call[q].left>>, linked |-> TRUE]}
            /\ call' = [call EXCEPT ![q].left = @ + 1, ![q].created = @ + 1]
         \/ /\ n \notin call[q].known
            /\ call' = [call EXCEPT ![q].left = @ + 1, ![q].errors = @ + 1]
            /\ UNCHANGED rows
    /\ unchangedGithub /\ UNCHANGED <<token, listing, page>>

bulkStatus(c) == CASE c.errors = 0 /\ c.already = 0 /\ c.created > 0 -> 201
                   [] c.errors = 0 /\ c.created = 0 -> 200
                   [] OTHER -> 207

answerBulk(q) ==
    /\ call[q].pc = "inserting" /\ call[q].left > Len(call[q].names)
    /\ call' = [call EXCEPT ![q].pc = "answered", ![q].status = bulkStatus(call[q])]
    /\ unchangedGithub /\ UNCHANGED <<token, rows, listing, page>>

-----------------------------------------------------------------------------
(* The registration page and the form for one repository.                  *)

Open(at) ==
    /\ page.at = "away"
    /\ page' = [NoPage EXCEPT !.at = at]
    /\ listing' = IF at = "github" /\ listing = "idle" THEN "asked" ELSE listing
    /\ unchangedGithub /\ UNCHANGED <<token, rows, call>>

isDirty == page.submitted = None /\ (page.selected # {} \/ page.name # None)

\* A registered repository has its box ticked and disabled.
toggleRepo(n) ==
    /\ page.at = "github" /\ ~page.asked /\ page.data # None /\ n \notin page.data
    /\ page' = [page EXCEPT !.selected = IF n \in @ THEN @ \ {n} ELSE @ \cup {n}]
    /\ unchangedGithub /\ UNCHANGED <<token, rows, call, listing>>

toggleSelectAll ==
    /\ page.at = "github" /\ ~page.asked /\ page.data # None /\ scene.names \ page.data # {}
    /\ page' = [page EXCEPT !.selected =
                  IF scene.names \ page.data \subseteq @ THEN @ \cap page.data
                                                   ELSE @ \cup (scene.names \ page.data)]
    /\ unchangedGithub /\ UNCHANGED <<token, rows, call, listing>>

setName(n) ==
    /\ page.at = "new" /\ ~page.asked
    /\ page' = [page EXCEPT !.name = n]
    /\ unchangedGithub /\ UNCHANGED <<token, rows, call, listing>>

\* The selected names, without those the last list shows as registered.
handleSubmit(q) ==
    /\ page.at = "github" /\ page.sent = None /\ ~page.asked /\ page.data # None
    /\ page.selected \ page.data # {}
    /\ Sent(q, "page", "bulk", SetToSeq(page.selected \ page.data))
    /\ page' = [page EXCEPT !.sent = q]
    /\ unchangedGithub /\ UNCHANGED <<token, rows, listing>>

handleSubmitNew(q) ==
    /\ page.at = "new" /\ page.sent = None /\ ~page.asked /\ page.name # None
    /\ Sent(q, "page", "create", <<page.name>>)
    /\ page' = [page EXCEPT !.sent = q]
    /\ unchangedGithub /\ UNCHANGED <<token, rows, listing>>

allRegistered(c) == c.kind = "create" \/ (c.created > 0 /\ c.errors = 0)

(* The answer. The form leaves after the next render; the registration     *)
(* page leaves at once, while its leave guard still sees the selection, so *)
(* that the operator is asked.                                             *)
onSuccess ==
    /\ page.sent # None /\ call[page.sent].pc = "answered"
    /\ LET c == call[page.sent]
       IN  page' = CASE ~allRegistered(c) -> [page EXCEPT !.sent = None]
                     [] allRegistered(c) /\ c.kind = "create" -> NoPage
                     [] OTHER -> [page EXCEPT !.sent = None, !.submitted = page.sent,
                                              !.asked = (page.selected # {})]
    /\ listing' = IF page.at = "github" THEN "asked" ELSE listing
    /\ unchangedGithub /\ UNCHANGED <<token, rows, call>>

\* The connection breaks: the page sees an error, the server goes on.
onError ==
    /\ page.sent # None
    /\ page' = [page EXCEPT !.sent = None]
    /\ unchangedGithub /\ UNCHANGED <<token, rows, call, listing>>

Leave ==
    /\ page.at # "away" /\ ~page.asked
    /\ page' = IF isDirty THEN [page EXCEPT !.asked = TRUE] ELSE NoPage
    /\ unchangedGithub /\ UNCHANGED <<token, rows, call, listing>>

AnswerDialog ==
    /\ page.asked
    /\ page' \in {NoPage, [page EXCEPT !.asked = FALSE]}
    /\ unchangedGithub /\ UNCHANGED <<token, rows, call, listing>>

-----------------------------------------------------------------------------
Next ==
    \/ Change \/ \E h \in hooks : Lose(h) \/ handleInstallationEvent(h)
    \/ installRedirect \/ setupRefused \/ fetchInstallation \/ setupUpsert
    \/ ListingFails \/ checkInstallation \/ getInstallationToken \/ TokenExpires
    \/ listInstallationRepos \/ accessibleRepos
    \/ \E q \in Calls : \/ OtherClient(q) \/ createRepo(q) \/ selectExisting(q)
                        \/ registerOne(q) \/ answerBulk(q)
                        \/ handleSubmit(q) \/ handleSubmitNew(q)
    \/ \E at \in {"github", "new"} : Open(at)
    \/ \E n \in scene.names : toggleRepo(n) \/ setName(n)
    \/ toggleSelectAll \/ onSuccess \/ onError \/ Leave \/ AnswerDialog

Spec == Init /\ [][Next]_vars

-----------------------------------------------------------------------------
(* A name has two live rows only if POST /repos made one of them, if one   *)
(* bulk request named it twice, or if the two bulk requests overlapped:    *)
(* the check for existing names and the inserts are separate transactions, *)
(* and no unique index backs them up.                                      *)
DuplicatesExplained ==
    \A r, s \in rows : r # s /\ r.name = s.name =>
        LET p == r.by[1] q == s.by[1] IN
        \/ "create" \in {call[p].kind, call[q].kind}
        \/ p = q
        \/ p \in call[q].during \/ q \in call[p].during

(* Once every event has arrived the row says what GitHub says, unless an   *)
(* event was lost, events overtook each other, or a setup redirect wrote   *)
(* the row after reading GitHub's earlier state.                           *)
InstallationAgrees ==
    hooks = {} /\ setup # "fetched" /\ excuse = {} =>
        inst = IF github = "deleted" THEN "none" ELSE github

(* When the registration page says it is done, every name it sent has a    *)
(* row, those that another request registered meanwhile included.          *)
SubmittedRegistered ==
    page.submitted # None => ToSet(call[page.submitted].names) \subseteq Registered
=============================================================================
