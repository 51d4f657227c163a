------------------------------ MODULE KeysPage ------------------------------
(***************************************************************************)
(* The dashboard's page for an installation's LLM keys: the lookup of an   *)
(* installation, the list with its rotate and remove buttons, the form     *)
(* that adds or replaces a key, and the query cache behind them, next to   *)
(* another operator who uses the API directly.  Calls to the server may be *)
(* refused, and an answer may be lost after the server has acted.          *)
(***************************************************************************)
EXTENDS Naturals, FiniteSets

CONSTANTS Installations,  \* installations the operator looks up
          Providers,      \* providers a key may be for
          Calls,          \* requests that change keys, numbered as they are made
          Scenes          \* [installations, providers, texts, leaves, operator]: what
                          \* is explored together

VARIABLES scene,  \* one of Scenes
          store,  \* the server: the call whose key is stored, per slot, 0: none
          cache,  \* installation -> the query ['llm-keys', installation]
          page,   \* the state of the mounted page
          call,   \* requests
          done,   \* history: calls that have taken effect
          wiped   \* history: typed text the page dropped, and why it might

vars == <<scene, store, cache, page, call, done, wiped>>
-----------------------------------------------------------------------------
Nothing  == [none |-> TRUE]
Slots == Installations \X Providers
PRISTINE_API_KEY == ""
PRISTINE_PROVIDER == CHOOSE p \in Providers : TRUE

NoCall  == [op |-> "none", slot |-> <<0, "">>, text |-> "", by |-> "nobody",
            pc |-> "new", ui |-> "none", heard |-> FALSE, mounted |-> FALSE]
NoEntry == [data |-> Nothing, stale |-> TRUE, fetch |-> "idle", got |-> Nothing, late |-> FALSE]
Fresh   == [open |-> TRUE, installation |-> 0, provider |-> PRISTINE_PROVIDER,
            apiKey |-> PRISTINE_API_KEY, pendingAction |-> Nothing, blocked |-> FALSE]

Init ==
    /\ scene \in Scenes
    /\ store = [s \in Slots |-> 0]
    /\ cache = [i \in Installations |-> NoEntry]
    /\ page = Fresh
    /\ call = [q \in Calls |-> NoCall]
    /\ done = {}
    /\ wiped = [text |-> FALSE, overlap |-> FALSE]

\* ---- The query cache (external: @tanstack/react-query, staleTime 30 s).
Ask(e) == [e EXCEPT !.fetch = "asked", !.got = Nothing, !.late = FALSE]

\* The list of installation i is shown: fetched if stale; older data may be.
Mounted(c, i) ==
    IF i \notin Installations \/ c[i].fetch # "idle" THEN {c}
    ELSE {[c EXCEPT ![i] = Ask(c[i])]} \cup IF c[i].stale THEN {} ELSE {c}

\* The entry is stale; a shown one is fetched anew, unless it waits for its
\* first data; other fetches go on and their result counts as fresh.
Invalidated(c, i) ==
    LET e == [c[i] EXCEPT !.stale = TRUE]
    IN  [c EXCEPT ![i] =
            IF page.open /\ page.installation = i /\ (e.fetch = "idle" \/ e.data # Nothing)
            THEN Ask(e) ELSE [e EXCEPT !.late = (e.fetch # "idle")]]

Refocus ==
    /\ page.open
    /\ cache' \in Mounted(cache, page.installation) \ {cache}
    /\ UNCHANGED <<scene, store, page, call, done, wiped>>

\* Which providers have a key, and the calls that list is the outcome of.
fetchLlmKeys(i) ==
    /\ cache[i].fetch = "asked"
    /\ cache' = [cache EXCEPT ![i].fetch = "read",
                   ![i].got = [keys |-> {p \in Providers : store[<<i, p>>] # 0}, seen |-> done]]
    /\ UNCHANGED <<scene, store, page, call, done, wiped>>

Loaded(i) ==
    /\ cache[i].fetch = "read"
    /\ cache' = [cache EXCEPT ![i] = [data |-> cache[i].got, stale |-> FALSE, fetch |-> "idle",
                                      got |-> Nothing, late |-> cache[i].late]]
    /\ UNCHANGED <<scene, store, page, call, done, wiped>>

LoadFailed(i) ==
    /\ cache[i].fetch = "asked"
    /\ cache' = [cache EXCEPT ![i].fetch = "idle", ![i].stale = TRUE]
    /\ UNCHANGED <<scene, store, page, call, done, wiped>>
-----------------------------------------------------------------------------
\* ---- The server; store is atomic here, module KeyStore has its detail.
Sent(q, by, op, slot, text) ==
    /\ call[q].op = "none" /\ \A p \in Calls : p < q => call[p].op # "none"
    /\ call' = [call EXCEPT ![q] = [NoCall EXCEPT !.op = op, !.slot = slot, !.text = text,
                  !.by = by, !.pc = "sent", !.ui = IF by = "page" THEN "pending" ELSE "none",
                  !.mounted = (by = "page")]]

Effect(q) ==
    CASE call[q].op = "upsert" -> q
      [] call[q].op = "rotate" -> store[call[q].slot]
      [] OTHER -> 0

\* A rotation of a key that is not there is a 404.
Serve(q) ==
    /\ call[q].pc = "sent"
    /\ IF call[q].op = "rotate" /\ store[call[q].slot] = 0
       THEN /\ call' = [call EXCEPT ![q].pc = "error"]
            /\ UNCHANGED <<store, done>>
       ELSE /\ store' = [store EXCEPT ![call[q].slot] = Effect(q)]
            /\ call' = [call EXCEPT ![q].pc = "ok"]
            /\ done' = done \cup {q}
    /\ UNCHANGED <<scene, cache, page, wiped>>

\* The gate, the validation or the network: before the change or after it.
Fails(q) ==
    /\ call[q].pc \in {"sent", "ok"} /\ call[q].by = "page" /\ call[q].ui = "pending"
    /\ call' = [call EXCEPT ![q].pc = "error"]
    /\ UNCHANGED <<scene, store, cache, page, done, wiped>>

Operator(q) ==
    /\ scene.operator
    /\ \E op \in {"upsert", "remove"}, s \in scene.installations \X scene.providers : Sent(q, "operator", op, s, "key")
    /\ UNCHANGED <<scene, store, cache, page, done, wiped>>
-----------------------------------------------------------------------------
\* ---- The page.
Idle == page.open /\ page.pendingAction = Nothing /\ ~page.blocked
isDirty == page.apiKey # PRISTINE_API_KEY
Mine(op) == {q \in Calls : call[q].mounted /\ call[q].op = op}
isPending(op) == \E q \in Mine(op) : call[q].ui = "pending"

\* Enter or the button next to the input; text that is no positive integer is
\* refused and changes nothing.  The form below keeps what was typed.
resolveInstallationId(i) ==
    /\ Idle /\ page.installation # i /\ i \in scene.installations
    /\ page' = [page EXCEPT !.installation = i]
    /\ cache' \in Mounted(cache, i)
    /\ UNCHANGED <<scene, store, call, done, wiped>>

setProvider(p) ==
    /\ Idle /\ page.installation # 0 /\ page.provider # p /\ p \in scene.providers
    /\ page' = [page EXCEPT !.provider = p]
    /\ UNCHANGED <<scene, store, cache, call, done, wiped>>

\* The input stays enabled while a save is in flight.
setApiKey(text) ==
    /\ Idle /\ page.installation # 0 /\ page.apiKey # text
    /\ page' = [page EXCEPT !.apiKey = text]
    /\ wiped' = [wiped EXCEPT !.overlap = @ \/ isPending("upsert")]
    /\ UNCHANGED <<scene, store, cache, call, done>>

handleAddKeySubmit(q) ==
    /\ Idle /\ page.installation # 0
    /\ page.apiKey \notin {"", " "} /\ ~isPending("upsert")
    /\ Sent(q, "page", "upsert", <<page.installation, page.provider>>, page.apiKey)
    /\ UNCHANGED <<scene, store, cache, page, done, wiped>>

\* Rotate and remove are offered for a key the list shows as configured.
handleActionClick(kind, p) ==
    /\ Idle /\ page.installation # 0
    /\ cache[page.installation].data # Nothing
    /\ p \in cache[page.installation].data.keys
    /\ page' = [page EXCEPT !.pendingAction = [kind |-> kind, provider |-> p]]
    /\ UNCHANGED <<scene, store, cache, call, done, wiped>>

handleConfirm(q) ==
    /\ page.open /\ page.pendingAction # Nothing
    /\ page' = [page EXCEPT !.pendingAction = Nothing]
    /\ Sent(q, "page", page.pendingAction.kind,
            <<page.installation, page.pendingAction.provider>>, "")
    /\ UNCHANGED <<scene, store, cache, done, wiped>>

handleCancelConfirm ==
    /\ page.open /\ page.pendingAction # Nothing
    /\ page' = [page EXCEPT !.pendingAction = Nothing]
    /\ UNCHANGED <<scene, store, cache, call, done, wiped>>

\* The callbacks given to mutate run for the last call of their hook, while the
\* page is mounted.
Heard(q) == call[q].mounted /\ \A p \in Mine(call[q].op) : p <= q

InvalidatesShown(q) == page.installation

\* The list of the installation the call was about.
Invalidates(q) == call[q].slot[1]

onSuccess(q) ==
    /\ call[q].pc = "ok" /\ call[q].ui = "pending"
    /\ call' = [call EXCEPT ![q].ui = "ok", ![q].heard = Heard(q)]
    /\ cache' = IF Invalidates(q) \in Installations THEN Invalidated(cache, Invalidates(q)) ELSE cache
    /\ IF call[q].op = "upsert" /\ Heard(q)
       THEN /\ page' = [page EXCEPT !.apiKey = PRISTINE_API_KEY]
            /\ wiped' = [wiped EXCEPT !.text = @ \/ page.apiKey \notin {call[q].text, ""}]
       ELSE UNCHANGED <<page, wiped>>
    /\ UNCHANGED <<scene, store, done>>

\* A failure changes nothing but the toast.
onError(q) ==
    /\ call[q].pc = "error" /\ call[q].ui = "pending"
    /\ call' = [call EXCEPT ![q].ui = "failed", ![q].heard = Heard(q)]
    /\ UNCHANGED <<scene, store, cache, page, done, wiped>>

\* Leaving is held up while text stands in the form; the page's calls lose
\* their callbacks when it is gone.
Unmount ==
    /\ page' = [Fresh EXCEPT !.open = FALSE]
    /\ call' = [q \in Calls |-> [call[q] EXCEPT !.mounted = FALSE]]
Leave ==
    /\ Idle /\ scene.leaves
    /\ IF isDirty THEN page' = [page EXCEPT !.blocked = TRUE] /\ UNCHANGED call ELSE Unmount
    /\ UNCHANGED <<scene, store, cache, done, wiped>>
AnswerDialog ==
    /\ page.blocked
    /\ \/ Unmount
       \/ page' = [page EXCEPT !.blocked = FALSE] /\ UNCHANGED call
    /\ UNCHANGED <<scene, store, cache, done, wiped>>
Return ==
    /\ ~page.open
    /\ page' = Fresh
    /\ UNCHANGED <<scene, store, cache, call, done, wiped>>

Next ==
    \/ Refocus
    \/ \E i \in Installations :
          fetchLlmKeys(i) \/ Loaded(i) \/ LoadFailed(i) \/ resolveInstallationId(i)
    \/ \E p \in Providers :
          setProvider(p) \/ \E kind \in {"rotate", "remove"} : handleActionClick(kind, p)
    \/ \E text \in scene.texts : setApiKey(text)
    \/ \E q \in Calls :
          \/ Serve(q) \/ Fails(q) \/ Operator(q)
          \/ handleAddKeySubmit(q) \/ handleConfirm(q) \/ onSuccess(q) \/ onError(q)
    \/ handleCancelConfirm \/ Leave \/ AnswerDialog \/ Return

Spec == Init /\ [][Next]_vars
-----------------------------------------------------------------------------
Settled(i) == cache[i].data # Nothing /\ ~cache[i].stale /\ cache[i].fetch = "idle" /\ ~cache[i].late

\* Whichever installation an operator switches to while calls are in flight, a
\* settled list contains every change of it that the dashboard has reported as
\* done, and it differs from the server only by calls of another operator or
\* calls the dashboard does not know to have succeeded; typed text is dropped
\* by a save of another text only if it was typed during that save; and an
\* outcome without its toast belongs to a page that was left or to a call that
\* another of its kind followed (the mutation hooks of client.ts and the
\* handlers of ByokKeysPage).
KeysShown ==
    /\ \A i \in Installations : Settled(i) =>
         LET missed == done \ cache[i].data.seen
         IN  /\ \A q \in missed : call[q].slot[1] = i => call[q].ui # "ok"
             /\ \A p \in Providers :
                  (p \in cache[i].data.keys) # (store[<<i, p>>] # 0)
                    => \E q \in missed : call[q].slot = <<i, p>>
    /\ wiped.text => wiped.overlap
    /\ \A q \in Calls : call[q].ui \in {"ok", "failed"} /\ ~call[q].heard =>
         ~call[q].mounted \/ \E p \in Mine(call[q].op) : p > q
=============================================================================
