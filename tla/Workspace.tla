----------------------------- MODULE Workspace -----------------------------
(***************************************************************************)
(* The directory a server-side review reads files from: provisionWorkspace *)
(* (server/src/workspace.ts) with its three strategies, and the clone of   *)
(* the GitHub adapter (platform-github/src/clone.ts), while the pull       *)
(* request is pushed to, calls fail and the process may be killed.         *)
(***************************************************************************)
EXTENDS Naturals, Sequences, FiniteSets

CONSTANTS Files,       \* files the pull request may change
          Dir,         \* Dir[f]: parent directory of f, "/" for the root
          Denied,      \* files the deny-list names
          MaxDirs,     \* directories a sparse checkout is used for at most
          MaxCommits   \* bound on the commits of the pull request

VARIABLES trees,       \* trees[c]: the files that exist at commit c; the last commit
                       \* is the head
          input,       \* [strategy, clone, headSha, diff, files]: the diff the job holds
                       \* is that of commit diff and names files; clone is the
                       \* platform's capability
          pc,
          todo,        \* files contentsApiFetch has not looked at
          target,      \* the commit cloneRepo checks out
          dir,         \* the directory exists
          written,     \* what it holds: <<file, commit>>
          cleaned,     \* cleanup was called
          thrown,      \* what the caller got: "none", "original" or "rm"
          stuck        \* history: rm failed

vars == <<trees, input, pc, todo, target, dir, written, cleaned, thrown, stuck>>
held == <<dir, written, cleaned, thrown, stuck>>

head == Len(trees)
Strategies == {"none", "contents-api", "sparse-clone"}

Init ==
    /\ trees \in {<<t>> : t \in SUBSET Files}
    /\ input \in [strategy : Strategies, clone : BOOLEAN, headSha : {0}, diff : {0},
                 files : {{}}]
    /\ pc = "start" /\ todo = {} /\ target = 0
    /\ dir = FALSE /\ written = {} /\ cleaned = FALSE /\ thrown = "none" /\ stuck = FALSE

Push ==
    /\ head < MaxCommits
    /\ \E t \in SUBSET Files : trees' = Append(trees, t)
    /\ UNCHANGED <<input, pc, todo, target, held>>

(* The caller reads the pull request and then its diff (external).         *)
ReadHead ==
    /\ pc = "start"
    /\ input' = [input EXCEPT !.headSha = head] /\ pc' = "read"
    /\ UNCHANGED <<trees, todo, target, held>>
ReadDiff ==
    /\ pc = "read"
    /\ pc' = "provision"
    /\ \E changed \in SUBSET Files :
         input' = [input EXCEPT !.diff = head, !.files = changed]
    /\ UNCHANGED <<trees, todo, target, held>>

-----------------------------------------------------------------------------
pathIsAllowed(f) == f \notin Denied
removed(f) == f \notin trees[input.diff]

\* No directory for 'none'; mkdtemp may fail, and the caller gets its error.
provisionWorkspace ==
    /\ pc = "provision"
    /\ \/ input.strategy = "none" /\ pc' = "ready" /\ UNCHANGED <<held, todo>>
       \/ /\ input.strategy # "none"
          /\ pc' = input.strategy /\ todo' = input.files /\ dir' = TRUE
          /\ UNCHANGED <<written, cleaned, thrown, stuck>>
       \/ /\ input.strategy # "none"
          /\ pc' = "failed" /\ thrown' = "original"
          /\ UNCHANGED <<dir, written, cleaned, stuck, todo>>
    /\ UNCHANGED <<trees, input, target>>

ThrowPlain ==   \* mutant: nothing is cleaned up
    /\ pc' = "failed" /\ thrown' = "original" /\ UNCHANGED <<dir, cleaned, stuck>>
\* The strategy failed: cleanup runs, then the error is thrown; an error of rm
\* takes its place.
CleanupAndThrow ==
    /\ pc' = "failed" /\ cleaned' = TRUE
    /\ \/ dir' = FALSE /\ thrown' = "original" /\ UNCHANGED stuck
       \/ thrown' = "rm" /\ stuck' = TRUE /\ UNCHANGED dir

\* One file of the diff, at the commit the job was made for.
contentsApiFetch ==
    /\ pc = "contents-api"
    /\ \/ \E f \in todo :
             /\ todo' = todo \ {f}
             /\ \/ (removed(f) \/ ~pathIsAllowed(f)) /\ UNCHANGED <<pc, held>>
                \/ /\ ~removed(f) /\ pathIsAllowed(f) /\ f \in trees[input.headSha]
                   /\ written' = written \cup {<<f, input.headSha>>}
                   /\ UNCHANGED <<pc, dir, cleaned, thrown, stuck>>
                \/ ~removed(f) /\ pathIsAllowed(f) /\ CleanupAndThrow /\ UNCHANGED written
       \/ todo = {} /\ pc' = "ready" /\ UNCHANGED <<todo, held>>
    /\ UNCHANGED <<trees, input, target>>

\* The capability is checked, and the adapter reads the pull request again.
sparseClone ==
    /\ pc = "sparse-clone"
    /\ \/ input.clone /\ pc' = "cloning" /\ target' = head /\ UNCHANGED held
       \/ CleanupAndThrow /\ UNCHANGED <<target, written>>
    /\ UNCHANGED <<trees, input, todo>>

uniqueParentDirs == {Dir[f] : f \in {g \in input.files : pathIsAllowed(g)}}

\* Without directories, or with too many, the checkout is a full one; a cone
\* always has the files of the root.
SparsePaths ==
    IF Cardinality(uniqueParentDirs) \in 1..MaxDirs THEN uniqueParentDirs \cup {"/"}
    ELSE {Dir[f] : f \in Files}

\* clone, sparse-checkout, fetch of the commit and checkout.
cloneWithStrategy ==
    /\ pc = "cloning"
    /\ \/ /\ written' = {<<f, target>> : f \in {g \in trees[target] : Dir[g] \in SparsePaths}}
          /\ pc' = "ready" /\ UNCHANGED <<dir, cleaned, thrown, stuck>>
       \/ CleanupAndThrow /\ UNCHANGED written
    /\ UNCHANGED <<trees, input, todo, target>>

\* The caller's finally block; cleaned is set first, so a second call does
\* nothing even if the directory is still there.
cleanup ==
    /\ pc \in {"ready", "done"} /\ cleaned' = TRUE /\ pc' = "done"
    /\ \/ (cleaned \/ input.strategy = "none") /\ UNCHANGED <<dir, thrown, stuck>>
       \/ ~cleaned /\ input.strategy # "none" /\ dir' = FALSE /\ UNCHANGED <<thrown, stuck>>
       \/ ~cleaned /\ input.strategy # "none" /\ thrown' = "rm" /\ stuck' = TRUE /\ UNCHANGED dir
    /\ UNCHANGED <<trees, input, todo, target, written>>

Kill ==
    /\ pc \notin {"start", "done", "failed", "killed"}
    /\ pc' = "killed"
    /\ UNCHANGED <<trees, input, todo, target, held>>

Next ==
    \/ Push \/ ReadHead \/ ReadDiff
    \/ provisionWorkspace \/ contentsApiFetch \/ sparseClone \/ cloneWithStrategy
    \/ cleanup \/ Kill

Spec == Init /\ [][Next]_vars
-----------------------------------------------------------------------------
Wanted(c) == {f \in input.files \cap trees[c] : pathIsAllowed(f)}

\* A job that has ended leaves a directory behind only if rm failed, and then
\* its caller was told so instead of the first error. A workspace that is
\* ready is of one commit: the one the job was made for, or a later head if
\* the pull request was pushed to before the clone. A clone has every allowed
\* changed file of its commit; files fetched one by one are those of the
\* diff, which may be newer and then lacks what it removes.
WorkspaceExplained ==
    /\ pc \in {"done", "failed"} /\ dir => stuck /\ thrown = "rm"
    /\ pc = "ready" => \A w \in written :
         w[2] = input.headSha \/ (input.strategy = "sparse-clone" /\ w[2] = target /\ target > input.headSha)
    /\ pc = "ready" /\ input.strategy = "sparse-clone" =>
         Wanted(target) \subseteq {w[1] : w \in written}
    /\ pc = "ready" /\ input.strategy = "contents-api" =>
         {w[1] : w \in written} = Wanted(input.diff)
=============================================================================
