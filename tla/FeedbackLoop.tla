---------------------------- MODULE FeedbackLoop ----------------------------
(***************************************************************************)
(* The review_history table of one repository and everybody who touches    *)
(* it: the workers that record a human's reaction (feedback-writer.ts) and *)
(* mute a finding after SuppressAfter rejections, the `feedback backfill`  *)
(* and `recover feedback-history` commands that add old reactions, the     *)
(* `suppression remove` command, the 180-day expiry, and the reviews that  *)
(* read it twice and drop what was rejected or muted (agent.ts).  Every    *)
(* call to the database is a step of its own, so all of them interleave.   *)
(*                                                                         *)
(* A signal is one person's reaction to one posted comment; a finding is   *)
(* its fingerprint.  A row's text is abstracted to the signal it records   *)
(* and who worded it (src), which is what its equality depends on.         *)
(***************************************************************************)
EXTENDS Naturals, FiniteSets

CONSTANTS
  Findings,       \* the fingerprints
  NSignals,       \* reactions are numbered as they are given, and listed so
  FindingOf,      \* the finding a reaction is about
  Rejections,     \* the reactions that are a thumbs-down or a dismissal
  PrOf,           \* the PR a reaction was given on
  NPrs,           \* PRs are numbered in the order the backfill walks them
  Workers,        \* worker processes that record reactions as they come
  SuppressAfter,  \* feedback.suppress_after
  MaxWrites,      \* maxWritesPerJob
  MaxFacts,       \* MAX_LEARNED_FACTS, the newest rows a review reads
  MaxReviews,     \* bound on the reviews
  MaxOps          \* bound on the commands run, rows expired and calls failed

Signals == 1..NSignals
Prs == 1..NPrs

ASSUME FeedbackAssumption ==
  /\ NSignals \in Nat /\ NPrs \in Nat
  /\ FindingOf \in [Signals -> Findings]
  /\ PrOf \in [Signals -> Prs]
  /\ Rejections \subseteq Signals
  /\ SuppressAfter \in Nat \ {0} /\ MaxWrites \in Nat /\ MaxFacts \in Nat
  /\ MaxReviews \in Nat /\ MaxOps \in Nat

VARIABLES
  facts,      \* review_history
  nextRow,    \* its id sequence; ids grow with created_at
  ops,        \* commands run, rows expired and calls failed so far
  given,      \* reactions people have left
  worker,     \* the feedback writer of each worker
  backfill,   \* the running `feedback backfill`, if any
  stateFile,  \* the PRs its --state-file marks completed
  recovery,   \* the running `recover feedback-history`, if any
  review,     \* the running review, or the last one
  quiet,      \* history: findings rejected, and muted, throughout that review
  due         \* history: findings whose rejections reached the threshold

feedbackVars == <<facts, nextRow, ops, given, worker, backfill, stateFile,
                  recovery, review, quiet, due>>

FactTypes == {"accepted_pattern", "rejected_finding", "suppression_rule"}
Sources == {"live", "backfill", "recover", "rule"}

HistoryRow == [id: Nat, type: FactTypes, finding: Findings, signal: Signals,
               src: Sources, expired: BOOLEAN]

NoBackfill == [pc |-> "idle", last |-> 0, done |-> {}]
NoRecovery == [pc |-> "idle", src |-> "live", fresh |-> {}]

FeedbackInit ==
  /\ facts = {} /\ nextRow = 1 /\ ops = 0 /\ given = {}
  /\ worker = [w \in Workers |-> [pc |-> "idle", signal |-> 0, writes |-> 0]]
  /\ backfill = NoBackfill
  /\ stateFile = {}
  /\ recovery = NoRecovery
  /\ review = [pc |-> "idle", runs |-> 0, rejected |-> {}, muted |-> {},
               posted |-> {}]
  /\ quiet = [rejected |-> {}, muted |-> {}]
  /\ due = {}

-----------------------------------------------------------------------------
(* Reads of review_history.  Every one of them but the snapshot of the     *)
(* recovery filters on expires_at > now().                                 *)

Live(table) == {r \in table: ~r.expired}

feedbackKindToFactType(s) ==
  IF s \in Rejections THEN "rejected_finding" ELSE "accepted_pattern"

\* What loadRecentReviewHistory returns: the newest rows of every type.
loadRecentReviewHistory(table) ==
  LET live == Live(table)
  IN {r \in live: Cardinality({q \in live: q.id > r.id}) < MaxFacts}

\* Findings the review drops as rejected.
Rejected(table) ==
  {r.finding: r \in {q \in loadRecentReviewHistory(table):
                       q.type = "rejected_finding"}}

\* Findings with an active rule (loadActiveSuppressionRules has no limit).
loadActiveSuppressionRules(table) ==
  {r.finding: r \in {q \in Live(table): q.type = "suppression_rule"}}

countRejectionsByFingerprint(table, f) ==
  Cardinality({r \in Live(table):
                 r.type = "rejected_finding" /\ r.finding = f})

Fact(id, type, s, src) ==
  [id |-> id, type |-> type, finding |-> FindingOf[s], signal |-> s,
   src |-> src, expired |-> FALSE]

-----------------------------------------------------------------------------
\* Part of every step: quiet starts as what the table says when a
\* review starts, and loses what the table stops saying before it is over.
WatchQuiet ==
  LET now == [rejected |-> Rejected(facts'),
              muted |-> loadActiveSuppressionRules(facts')]
  IN quiet' = CASE review'.pc = "history" /\ review.pc # "history" -> now
                [] review'.pc = "idle" -> [rejected |-> {}, muted |-> {}]
                [] review.pc = "done" /\ review'.pc = "done" -> quiet
                [] OTHER -> [rejected |-> quiet.rejected \cap now.rejected,
                             muted |-> quiet.muted \cap now.muted]

-----------------------------------------------------------------------------
(* People react, and the webhook tells a worker, or nobody: reactions from *)
(* before the deployment, and lost deliveries, reach no worker.            *)

\* The writes behind an event: those of its job so far, or none in a new job,
\* which builds a writer of its own.
WritesOfJob(w) == {0, worker[w].writes}

React(s) ==
  /\ given = 1..(s - 1)
  /\ given' = given \cup {s}
  /\ \/ UNCHANGED worker
     \/ \E w \in Workers: \E n \in WritesOfJob(w):
          /\ worker[w].pc = "idle"
          /\ worker' = [worker EXCEPT ![w] = [pc |-> "record", signal |-> s,
                                              writes |-> n]]
  /\ UNCHANGED <<facts, nextRow, ops, backfill, stateFile, recovery, review, due>>
  /\ WatchQuiet

-----------------------------------------------------------------------------
\* One more command, expired row or failed call, within the bound.
Operate == ops < MaxOps /\ ops' = ops + 1

(* createFeedbackWriter(...).record, one worker at a time per writer.      *)

WorkerAt(w, pcs) == worker[w].pc \in pcs

\* An idle writer holds no event.
Holding(pc, s) == IF pc = "idle" THEN 0 ELSE s

GoTo(w, pc) ==
  worker' = [worker EXCEPT ![w].pc = pc, ![w].signal = Holding(pc, @)]

WorkerLeavesAlone ==
  UNCHANGED <<given, backfill, stateFile, recovery, review>> /\ WatchQuiet

RateLimited(w) ==
  /\ WorkerAt(w, {"record"}) /\ worker[w].writes >= MaxWrites
  /\ GoTo(w, "idle")
  /\ UNCHANGED <<facts, nextRow, due, ops>> /\ WorkerLeavesAlone

\* After the insert, only a rejection goes on to the threshold check.
AfterInsert(s) == IF s \in Rejections THEN "count" ELSE "idle"

RecordFact(w) ==
  LET s == worker[w].signal
      f == FindingOf[s]
  IN /\ WorkerAt(w, {"record"}) /\ worker[w].writes < MaxWrites
     /\ facts' = facts \cup {Fact(nextRow, feedbackKindToFactType(s), s, "live")}
     /\ nextRow' = nextRow + 1
     /\ worker' = [worker EXCEPT ![w].pc = AfterInsert(s), ![w].writes = @ + 1,
                               ![w].signal = Holding(AfterInsert(s), s)]
     /\ due' = IF /\ s \in Rejections
                  /\ countRejectionsByFingerprint(facts', f) >= SuppressAfter
               THEN due \cup {f} ELSE due
     /\ UNCHANGED ops /\ WorkerLeavesAlone

\* The insert fails: record throws, and the write still counts.
RecordFails(w) ==
  /\ WorkerAt(w, {"record"}) /\ worker[w].writes < MaxWrites
  /\ worker' = [worker EXCEPT ![w].pc = "idle", ![w].signal = 0,
                            ![w].writes = @ + 1]
  /\ Operate /\ UNCHANGED <<facts, nextRow, due>> /\ WorkerLeavesAlone

\* Mutant: one rejection more than the threshold is needed.
AtThreshold(n) == n <= SuppressAfter

\* maybeCreateSuppressionRule gives up below the threshold.
BelowThreshold(n) == n < SuppressAfter

Count(w) ==
  /\ WorkerAt(w, {"count"})
  /\ GoTo(w, IF BelowThreshold(countRejectionsByFingerprint(
                                 facts, FindingOf[worker[w].signal]))
             THEN "idle" ELSE "check")
  /\ UNCHANGED <<facts, nextRow, due, ops>> /\ WorkerLeavesAlone

CheckRule(w) ==
  /\ WorkerAt(w, {"check"})
  /\ GoTo(w, IF FindingOf[worker[w].signal] \in loadActiveSuppressionRules(facts)
             THEN "idle" ELSE "rule")
  /\ UNCHANGED <<facts, nextRow, due, ops>> /\ WorkerLeavesAlone

createSuppressionRule(w) ==
  /\ WorkerAt(w, {"rule"})
  /\ facts' = facts \cup {Fact(nextRow, "suppression_rule", worker[w].signal, "rule")}
  /\ nextRow' = nextRow + 1
  /\ GoTo(w, "idle")
  /\ UNCHANGED <<due, ops>> /\ WorkerLeavesAlone

\* Any of the three calls fails and is swallowed.
ThresholdCheckFails(w) ==
  /\ WorkerAt(w, {"count", "check", "rule"})
  /\ GoTo(w, "idle")
  /\ due' = due \ {FindingOf[worker[w].signal]}
  /\ Operate /\ UNCHANGED <<facts, nextRow>> /\ WorkerLeavesAlone

WorkerStep(w) ==
  \/ RateLimited(w) \/ RecordFact(w) \/ RecordFails(w)
  \/ Count(w) \/ CheckRule(w) \/ createSuppressionRule(w)
  \/ ThresholdCheckFails(w)

-----------------------------------------------------------------------------
(* `review-agent feedback backfill`: PR by PR, reaction by reaction, with  *)
(* an unlimited writer that checks no threshold.                           *)

BackfillLeavesAlone ==
  UNCHANGED <<given, worker, recovery, review, due>> /\ WatchQuiet

BackfillStart ==
  /\ backfill.pc = "idle" /\ Operate
  /\ backfill' = [pc |-> "run", last |-> 0, done |-> stateFile]
  /\ UNCHANGED <<facts, nextRow, stateFile>> /\ BackfillLeavesAlone

\* The walk is at PR p, and there at the reactions after the last one.
AtPr(p) ==
  /\ backfill.pc = "run" /\ p \notin backfill.done
  /\ \A q \in Prs \ backfill.done: p <= q

Remaining(p) == {s \in given: PrOf[s] = p /\ s > backfill.last}

BackfillReaction(p, s) ==
  /\ AtPr(p) /\ s \in Remaining(p) /\ \A t \in Remaining(p): s <= t
  /\ facts' = facts \cup {Fact(nextRow, feedbackKindToFactType(s), s, "backfill")}
  /\ nextRow' = nextRow + 1
  /\ backfill' = [backfill EXCEPT !.last = s]
  /\ UNCHANGED <<stateFile, ops>> /\ BackfillLeavesAlone

\* The state file is written once the whole PR has been walked.
BackfillPr(p) ==
  /\ AtPr(p) /\ Remaining(p) = {}
  /\ stateFile' = stateFile \cup {p}
  /\ backfill' = [backfill EXCEPT !.last = 0, !.done = @ \cup {p}]
  /\ UNCHANGED <<facts, nextRow, ops>> /\ BackfillLeavesAlone

BackfillEnd ==
  /\ backfill.pc = "run" /\ backfill.done = Prs
  /\ backfill' = NoBackfill
  /\ UNCHANGED <<facts, nextRow, stateFile, ops>> /\ BackfillLeavesAlone

\* Interrupted, or a call threw: only the state file is left of the run.
BackfillStops ==
  /\ backfill.pc = "run" /\ backfill.done # Prs
  /\ backfill' = NoBackfill
  /\ UNCHANGED <<facts, nextRow, stateFile, ops>> /\ BackfillLeavesAlone

BackfillStep ==
  \/ BackfillStart \/ BackfillEnd \/ BackfillStops
  \/ \E p \in Prs: BackfillPr(p) \/ \E s \in Signals: BackfillReaction(p, s)

-----------------------------------------------------------------------------
(* `review-agent recover feedback-history`: the candidates, from a scrape  *)
(* of CodeCommit or from a file, whose text is not in the table yet.       *)

RecoveryLeavesAlone ==
  UNCHANGED <<given, worker, backfill, stateFile, review, due>> /\ WatchQuiet

\* Candidates whose text no row has; the snapshot sees expired rows too.
Fresh(candidates, src) ==
  {s \in candidates: ~ \E r \in facts: r.signal = s /\ r.src = src}

RecoverRead ==
  /\ recovery.pc = "idle" /\ Operate
  /\ \E src \in {"live", "backfill", "recover"}:
       LET fresh == Fresh(given, src)
       IN recovery' = IF fresh = {} THEN NoRecovery
                      ELSE [pc |-> "insert", src |-> src, fresh |-> fresh]
  /\ UNCHANGED <<facts, nextRow>> /\ RecoveryLeavesAlone

\* One insert statement of all of them.
RecoverInsert ==
  LET rank(s) == Cardinality({t \in recovery.fresh: t < s})
  IN /\ recovery.pc = "insert"
     /\ facts' = facts \cup {Fact(nextRow + rank(s), feedbackKindToFactType(s), s,
                                recovery.src): s \in recovery.fresh}
     /\ nextRow' = nextRow + Cardinality(recovery.fresh)
     /\ recovery' = NoRecovery
     /\ UNCHANGED ops /\ RecoveryLeavesAlone

RecoverFails ==
  /\ recovery.pc = "insert"
  /\ recovery' = NoRecovery
  /\ UNCHANGED <<facts, nextRow, ops>> /\ RecoveryLeavesAlone

-----------------------------------------------------------------------------
(* The operator, and time.                                                 *)

TableLeavesAlone ==
  /\ UNCHANGED <<nextRow, given, worker, backfill, stateFile, recovery, review>>
  /\ WatchQuiet

\* `review-agent suppression remove` of one rule by its id.
deleteSuppressionRule(r) ==
  /\ r.type = "suppression_rule"
  /\ facts' = facts \ {r}
  /\ due' = due \ {r.finding}
  /\ Operate /\ TableLeavesAlone

\* All rows have the same lifetime, so they expire in the order of their ids.
Expire ==
  /\ Operate
  /\ \E r \in Live(facts):
       /\ \A q \in Live(facts): r.id <= q.id
       /\ facts' = (facts \ {r}) \cup {[r EXCEPT !.expired = TRUE]}
       /\ due' = due \ {r.finding}
  /\ TableLeavesAlone

pruneExpiredReviewHistory ==
  /\ Live(facts) # facts
  /\ facts' = Live(facts)
  /\ UNCHANGED <<ops, due>> /\ TableLeavesAlone

-----------------------------------------------------------------------------
(* A review of a PR not reviewed before.  It reads the history, then the   *)
(* rules, then calls the model, and drops what it had read.                *)

ReviewLeavesAlone ==
  /\ UNCHANGED <<facts, nextRow, given, worker, backfill, stateFile, recovery, due>>
  /\ WatchQuiet

ReviewStart ==
  /\ review.pc \in {"idle", "done"} /\ review.runs < MaxReviews
  /\ review' = [pc |-> "history", runs |-> review.runs + 1,
                rejected |-> {}, muted |-> {}, posted |-> {}]
  /\ UNCHANGED ops /\ ReviewLeavesAlone

ReadHistory ==
  /\ review.pc = "history"
  /\ review' = [review EXCEPT !.pc = "rules", !.rejected = Rejected(facts)]
  /\ UNCHANGED ops /\ ReviewLeavesAlone

ReadRules ==
  /\ review.pc = "rules"
  /\ review' = [review EXCEPT !.pc = "filter",
                              !.muted = loadActiveSuppressionRules(facts)]
  /\ UNCHANGED ops /\ ReviewLeavesAlone

\* Mutant: the suppression filter is left out.
KeptUnrejected(found) == found \ review.rejected

\* What is left of the model's findings after the two filters.
Kept(found) == (found \ review.rejected) \ review.muted

Publish(found) ==
  /\ review.pc = "filter"
  /\ review' = [review EXCEPT !.pc = "done", !.posted = Kept(found),
                              !.rejected = {}, !.muted = {}]
  /\ UNCHANGED ops /\ ReviewLeavesAlone

\* A read or the model failed: the error goes to the caller.
ReviewFails ==
  /\ review.pc \in {"history", "rules", "filter"}
  /\ review' = [review EXCEPT !.pc = "idle", !.rejected = {}, !.muted = {}]
  /\ Operate /\ ReviewLeavesAlone

ReviewStep ==
  \/ ReviewStart \/ ReadHistory \/ ReadRules \/ ReviewFails
  \/ \E found \in SUBSET Findings: Publish(found)

-----------------------------------------------------------------------------
FeedbackNext ==
  \/ \E s \in Signals: React(s)
  \/ \E w \in Workers: WorkerStep(w)
  \/ BackfillStep
  \/ RecoverRead \/ RecoverInsert \/ RecoverFails
  \/ \E r \in facts: deleteSuppressionRule(r)
  \/ Expire \/ pruneExpiredReviewHistory
  \/ ReviewStep

FeedbackSpec == FeedbackInit /\ [][FeedbackNext]_feedbackVars

-----------------------------------------------------------------------------
\* Every variable has its shape.
FeedbackTypeOK ==
  /\ facts \subseteq HistoryRow
  /\ nextRow \in Nat /\ ops \in Nat
  /\ given \subseteq Signals
  /\ worker \in [Workers -> [pc: {"idle", "record", "count", "check", "rule"},
                             signal: Signals \cup {0}, writes: Nat]]
  /\ \A w \in Workers: worker[w].pc # "idle" => worker[w].signal \in Signals
  /\ backfill \in [pc: {"idle", "run"}, last: Signals \cup {0},
                   done: SUBSET Prs]
  /\ stateFile \subseteq Prs
  /\ recovery \in [pc: {"idle", "insert"}, src: Sources,
                   fresh: SUBSET Signals]
  /\ review \in [pc: {"idle", "history", "rules", "filter", "done"}, runs: Nat,
                 rejected: SUBSET Findings, muted: SUBSET Findings,
                 posted: SUBSET Findings]
  /\ quiet \in [rejected: SUBSET Findings, muted: SUBSET Findings]
  /\ due \subseteq Findings

\* A review never posts a finding that was muted, or was among the newest
\* rejections, from its start to its end, whatever is recorded, recovered,
\* removed or expires in the meantime (the two reads and filters of agent.ts).
QuietStaysQuiet ==
  review.posted \cap (quiet.rejected \cup quiet.muted) = {}

\* Once the rejections of a finding have reached the threshold there is a rule
\* for it, or a worker still on its way to make one: concurrent workers never
\* each leave it to the other.  A failed check, an expired row and a removal
\* excuse it (feedback-writer.ts counts after it inserts).
ThresholdMutes ==
  \A f \in due:
    \/ f \in loadActiveSuppressionRules(facts)
    \/ \E w \in Workers: /\ worker[w].pc \in {"count", "check", "rule"}
                         /\ FindingOf[worker[w].signal] = f
=============================================================================
