------------------------- MODULE FeedbackLoopProofs -------------------------
(***************************************************************************)
(* Proofs about FeedbackLoop, for any number of findings, reactions, PRs   *)
(* and workers and any thresholds and bounds.                              *)
(***************************************************************************)
EXTENDS FeedbackLoop, FiniteSetTheorems, FunctionTheorems, TLAPS

\* A fact about a reaction is a row of the table.
LEMMA FactType ==
  ASSUME NEW id \in Nat, NEW type \in FactTypes, NEW s \in Signals, NEW src \in Sources
  PROVE  Fact(id, type, s, src) \in HistoryRow
BY FeedbackAssumption DEF Fact, HistoryRow

\* Every reaction maps to a fact type.
LEMMA KindType == ASSUME NEW s PROVE feedbackKindToFactType(s) \in FactTypes
BY DEF feedbackKindToFactType, FactTypes

\* What a review reads are findings.
LEMMA ReadsType ==
  ASSUME NEW table, table \subseteq HistoryRow
  PROVE  Rejected(table) \subseteq Findings /\ loadActiveSuppressionRules(table) \subseteq Findings
BY DEF Rejected, loadActiveSuppressionRules, loadRecentReviewHistory, Live, HistoryRow

\* A recovery numbers its rows with naturals.
LEMMA RankType ==
  ASSUME NEW fresh \in SUBSET Signals
  PROVE  /\ Cardinality(fresh) \in Nat
         /\ \A s \in Signals: Cardinality({t \in fresh: t < s}) \in Nat
<1>1. IsFiniteSet(Signals) BY FeedbackAssumption, FS_Interval DEF Signals
<1>2. \A S \in SUBSET Signals: Cardinality(S) \in Nat
  BY <1>1, FS_Subset, FS_CardinalityType
<1> QED BY <1>2

\* The initial state is well typed.
LEMMA InitType == FeedbackInit => FeedbackTypeOK
BY DEF FeedbackInit, FeedbackTypeOK, NoBackfill, NoRecovery, Sources, Signals, HistoryRow

\* A worker's record, and what it holds.
Process == [pc: {"idle", "record", "count", "check", "rule"},
            signal: Signals \cup {0}, writes: Nat]

WorkersOK ==
  /\ worker \in [Workers -> Process]
  /\ \A w \in Workers: worker[w].pc # "idle" => worker[w].signal \in Signals

\* FeedbackTypeOK, with the part about the workers folded.
LEMMA FoldWorkers ==
  FeedbackTypeOK <=> /\ facts \subseteq HistoryRow /\ nextRow \in Nat /\ ops \in Nat
             /\ given \subseteq Signals /\ WorkersOK
             /\ backfill \in [pc: {"idle", "run"}, last: Signals \cup {0}, done: SUBSET Prs]
             /\ stateFile \subseteq Prs
             /\ recovery \in [pc: {"idle", "insert"}, src: Sources, fresh: SUBSET Signals]
             /\ review \in [pc: {"idle", "history", "rules", "filter", "done"}, runs: Nat,
                            rejected: SUBSET Findings, muted: SUBSET Findings,
                            posted: SUBSET Findings]
             /\ quiet \in [rejected: SUBSET Findings, muted: SUBSET Findings]
             /\ due \subseteq Findings
BY DEF FeedbackTypeOK, WorkersOK, Process

\* Moving a worker on, or to idle, keeps the workers well typed.
LEMMA GoToType ==
  ASSUME WorkersOK, NEW w \in Workers, worker[w].pc # "idle",
         NEW pc \in {"idle", "count", "check", "rule"}, GoTo(w, pc)
  PROVE  WorkersOK'
BY DEF WorkersOK, Process, GoTo, Holding

\* Every step of a worker preserves the types.
LEMMA WorkerType ==
  ASSUME FeedbackTypeOK, NEW w \in Workers, WorkerStep(w)
  PROVE  /\ facts' \subseteq HistoryRow /\ nextRow' \in Nat /\ ops' \in Nat
         /\ WorkersOK' /\ due' \subseteq Findings
<1>t. /\ WorkersOK /\ facts \subseteq HistoryRow /\ nextRow \in Nat /\ ops \in Nat /\ due \subseteq Findings
      /\ worker[w] \in Process
  BY FoldWorkers DEF WorkersOK
<1>s. WorkerAt(w, {"record", "count", "check", "rule"}) =>
         worker[w].signal \in Signals /\ FindingOf[worker[w].signal] \in Findings
  BY <1>t, FeedbackAssumption DEF WorkersOK, WorkerAt
<1>1. CASE RateLimited(w)
  BY <1>1, <1>t, GoToType DEF RateLimited, WorkerAt
<1>2. CASE RecordFact(w)
  <2>1. worker[w].signal \in Signals /\ FindingOf[worker[w].signal] \in Findings
    BY <1>2, <1>s DEF RecordFact, WorkerAt
  <2>2. Fact(nextRow, feedbackKindToFactType(worker[w].signal), worker[w].signal, "live") \in HistoryRow
    BY <1>t, <2>1, FactType, KindType DEF Sources
  <2>3. WorkersOK'
    BY <1>2, <1>t, <2>1 DEF RecordFact, WorkersOK, Process, AfterInsert, Holding
  <2> QED BY <1>2, <1>t, <2>1, <2>2, <2>3 DEF RecordFact
<1>3. CASE RecordFails(w)
  BY <1>3, <1>t DEF RecordFails, WorkersOK, Process, Operate
<1>4. CASE Count(w)
  <2>1. WorkersOK' BY <1>4, <1>t, GoToType DEF Count, WorkerAt
  <2> QED BY <1>4, <1>t, <2>1 DEF Count
<1>5. CASE CheckRule(w)
  <2>1. WorkersOK' BY <1>5, <1>t, GoToType DEF CheckRule, WorkerAt
  <2> QED BY <1>5, <1>t, <2>1 DEF CheckRule
<1>6. CASE createSuppressionRule(w)
  <2>1. Fact(nextRow, "suppression_rule", worker[w].signal, "rule") \in HistoryRow
    BY <1>6, <1>t, <1>s, FactType DEF createSuppressionRule, WorkerAt, Sources, FactTypes
  <2>2. WorkersOK' BY <1>6, <1>t, GoToType DEF createSuppressionRule, WorkerAt
  <2> QED BY <1>6, <1>t, <2>1, <2>2 DEF createSuppressionRule
<1>7. CASE ThresholdCheckFails(w)
  <2>1. WorkersOK' BY <1>7, <1>t, GoToType DEF ThresholdCheckFails, WorkerAt
  <2> QED BY <1>7, <1>t, <2>1 DEF ThresholdCheckFails, Operate
<1> QED BY <1>1, <1>2, <1>3, <1>4, <1>5, <1>6, <1>7 DEF WorkerStep

\* A step of a review replaces the review alone, by a well-typed one.
LEMMA ReviewType ==
  ASSUME FeedbackTypeOK, ReviewStep
  PROVE  /\ review' \in [pc: {"idle", "history", "rules", "filter", "done"}, runs: Nat,
                         rejected: SUBSET Findings, muted: SUBSET Findings,
                         posted: SUBSET Findings]
         /\ ops' \in Nat /\ ReviewLeavesAlone
<1>t. /\ facts \subseteq HistoryRow /\ ops \in Nat
      /\ review \in [pc: {"idle", "history", "rules", "filter", "done"}, runs: Nat,
                     rejected: SUBSET Findings, muted: SUBSET Findings,
                     posted: SUBSET Findings]
  BY DEF FeedbackTypeOK
<1>1. CASE ReviewStart BY <1>1, <1>t DEF ReviewStart
<1>2. CASE ReadHistory BY <1>2, <1>t, ReadsType DEF ReadHistory
<1>3. CASE ReadRules BY <1>3, <1>t, ReadsType DEF ReadRules
<1>4. CASE ReviewFails
  <2>1. /\ review' = [review EXCEPT !.pc = "idle", !.rejected = {}, !.muted = {}]
        /\ Operate /\ ReviewLeavesAlone
    BY <1>4 DEF ReviewFails
  <2>2. review' \in [pc: {"idle", "history", "rules", "filter", "done"}, runs: Nat,
                     rejected: SUBSET Findings, muted: SUBSET Findings,
                     posted: SUBSET Findings]
    BY <1>t, <2>1
  <2>3. ops' \in Nat BY <1>t, <2>1 DEF Operate
  <2> QED BY <2>1, <2>2, <2>3
<1>5. ASSUME NEW found \in SUBSET Findings, Publish(found)
      PROVE  /\ review' \in [pc: {"idle", "history", "rules", "filter", "done"}, runs: Nat,
                             rejected: SUBSET Findings, muted: SUBSET Findings,
                             posted: SUBSET Findings]
             /\ ops' \in Nat /\ ReviewLeavesAlone
  <2>1. Kept(found) \in SUBSET Findings BY DEF Kept
  <2> QED BY <1>5, <1>t, <2>1 DEF Publish
<1> QED BY <1>1, <1>2, <1>3, <1>4, <1>5 DEF ReviewStep

\* A step of the backfill keeps the table and its own state well typed.
LEMMA BackfillType ==
  ASSUME FeedbackTypeOK, BackfillStep
  PROVE  /\ facts' \subseteq HistoryRow /\ nextRow' \in Nat /\ ops' \in Nat /\ stateFile' \subseteq Prs
         /\ backfill' \in [pc: {"idle", "run"}, last: Signals \cup {0}, done: SUBSET Prs]
         /\ BackfillLeavesAlone
<1>t. /\ facts \subseteq HistoryRow /\ nextRow \in Nat /\ ops \in Nat /\ stateFile \subseteq Prs
      /\ backfill \in [pc: {"idle", "run"}, last: Signals \cup {0}, done: SUBSET Prs]
  BY DEF FeedbackTypeOK
<1>1. CASE BackfillStart BY <1>1, <1>t DEF BackfillStart, Operate
<1>2. CASE BackfillEnd BY <1>2, <1>t DEF BackfillEnd, NoBackfill
<1>3. CASE BackfillStops BY <1>3, <1>t DEF BackfillStops, NoBackfill
<1>4. ASSUME NEW p \in Prs, BackfillPr(p)
      PROVE  /\ stateFile' \subseteq Prs /\ UNCHANGED <<facts, nextRow, ops>>
             /\ backfill' \in [pc: {"idle", "run"}, last: Signals \cup {0}, done: SUBSET Prs]
             /\ BackfillLeavesAlone
  BY <1>4, <1>t DEF BackfillPr
<1>5. ASSUME NEW p \in Prs, NEW s \in Signals, BackfillReaction(p, s)
      PROVE  /\ facts' \subseteq HistoryRow /\ nextRow' \in Nat /\ UNCHANGED <<stateFile, ops>>
             /\ backfill' \in [pc: {"idle", "run"}, last: Signals \cup {0}, done: SUBSET Prs]
             /\ BackfillLeavesAlone
  <2>1. Fact(nextRow, feedbackKindToFactType(s), s, "backfill") \in HistoryRow
    BY <1>t, FactType, KindType DEF Sources
  <2> QED BY <1>5, <1>t, <2>1 DEF BackfillReaction
<1> QED BY <1>1, <1>2, <1>3, <1>4, <1>5, <1>t DEF BackfillStep

\* So does a step of the recovery.
LEMMA RecoveryType ==
  ASSUME FeedbackTypeOK, RecoverRead \/ RecoverInsert \/ RecoverFails
  PROVE  /\ facts' \subseteq HistoryRow /\ nextRow' \in Nat /\ ops' \in Nat
         /\ recovery' \in [pc: {"idle", "insert"}, src: Sources, fresh: SUBSET Signals]
         /\ RecoveryLeavesAlone
<1>t. /\ facts \subseteq HistoryRow /\ nextRow \in Nat /\ ops \in Nat /\ given \subseteq Signals
      /\ recovery \in [pc: {"idle", "insert"}, src: Sources, fresh: SUBSET Signals]
  BY DEF FeedbackTypeOK
<1>n. NoRecovery \in [pc: {"idle", "insert"}, src: Sources, fresh: SUBSET Signals]
  BY DEF NoRecovery, Sources
<1>1. CASE RecoverRead
  <2>1. PICK src \in {"live", "backfill", "recover"}:
          recovery' = IF Fresh(given, src) = {} THEN NoRecovery
                      ELSE [pc |-> "insert", src |-> src, fresh |-> Fresh(given, src)]
    BY <1>1 DEF RecoverRead
  <2>2. Fresh(given, src) \in SUBSET Signals BY <1>t DEF Fresh
  <2>3. src \in Sources BY DEF Sources
  <2> QED BY <1>1, <1>t, <1>n, <2>1, <2>2, <2>3 DEF RecoverRead, Operate
<1>2. CASE RecoverInsert
  <2>1. \A s \in recovery.fresh:
          /\ s \in Signals
          /\ nextRow + Cardinality({t \in recovery.fresh: t < s}) \in Nat
    BY <1>t, RankType
  <2>2. nextRow + Cardinality(recovery.fresh) \in Nat BY <1>t, RankType
  <2>3. recovery.src \in Sources BY <1>t
  <2>4. \A s \in recovery.fresh:
          Fact(nextRow + Cardinality({t \in recovery.fresh: t < s}),
               feedbackKindToFactType(s), s, recovery.src) \in HistoryRow
    BY <2>1, <2>3, FactType, KindType
  <2> QED BY <1>2, <1>t, <1>n, <2>2, <2>4 DEF RecoverInsert
<1>3. CASE RecoverFails BY <1>3, <1>t, <1>n DEF RecoverFails
<1> QED BY <1>1, <1>2, <1>3

\* Removal, expiry and pruning leave a table of rows.
LEMMA TableType ==
  ASSUME FeedbackTypeOK,
         \/ \E r \in facts: deleteSuppressionRule(r)
         \/ Expire \/ pruneExpiredReviewHistory
  PROVE  facts' \subseteq HistoryRow /\ ops' \in Nat /\ due' \subseteq due /\ TableLeavesAlone
<1>t. facts \subseteq HistoryRow /\ ops \in Nat BY DEF FeedbackTypeOK
<1>1. CASE \E r \in facts: deleteSuppressionRule(r)
  BY <1>1, <1>t DEF deleteSuppressionRule, Operate
<1>2. CASE Expire
  <2>1. PICK r \in Live(facts): /\ facts' = (facts \ {r}) \cup {[r EXCEPT !.expired = TRUE]}
                              /\ due' = due \ {r.finding}
    BY <1>2 DEF Expire
  <2>2. [r EXCEPT !.expired = TRUE] \in HistoryRow BY <1>t DEF Live, HistoryRow
  <2>3. Operate /\ TableLeavesAlone BY <1>2 DEF Expire
  <2>4. ops' \in Nat BY <1>t, <2>3 DEF Operate
  <2>5. facts' \subseteq HistoryRow /\ due' \subseteq due BY <1>t, <2>1, <2>2
  <2> QED BY <2>3, <2>4, <2>5
<1>3. CASE pruneExpiredReviewHistory
  BY <1>3, <1>t DEF pruneExpiredReviewHistory, Live
<1> QED BY <1>1, <1>2, <1>3

\* quiet holds findings only.
LEMMA QuietType ==
  ASSUME FeedbackTypeOK, facts' \subseteq HistoryRow, WatchQuiet
  PROVE  quiet' \in [rejected: SUBSET Findings, muted: SUBSET Findings]
<1>1. /\ Rejected(facts') \subseteq Findings
      /\ loadActiveSuppressionRules(facts') \subseteq Findings
  BY ReadsType
<1>2. quiet \in [rejected: SUBSET Findings, muted: SUBSET Findings] BY DEF FeedbackTypeOK
<1> QED BY <1>1, <1>2 DEF WatchQuiet

\* Every step keeps quiet up to date.
LEMMA Watched == ASSUME FeedbackNext PROVE WatchQuiet
<1>1. ASSUME NEW s \in Signals, React(s) PROVE WatchQuiet BY <1>1 DEF React
<1>2. ASSUME NEW w \in Workers, WorkerStep(w) PROVE WatchQuiet
  BY <1>2 DEF WorkerStep, RateLimited, RecordFact, RecordFails, Count, CheckRule,
              createSuppressionRule, ThresholdCheckFails, WorkerLeavesAlone
<1>3. CASE BackfillStep
  BY <1>3 DEF BackfillStep, BackfillStart, BackfillEnd, BackfillStops, BackfillPr,
              BackfillReaction, BackfillLeavesAlone
<1>4. CASE RecoverRead \/ RecoverInsert \/ RecoverFails
  BY <1>4 DEF RecoverRead, RecoverInsert, RecoverFails, RecoveryLeavesAlone
<1>5. CASE \/ \E r \in facts: deleteSuppressionRule(r)
           \/ Expire \/ pruneExpiredReviewHistory
  BY <1>5 DEF deleteSuppressionRule, Expire, pruneExpiredReviewHistory, TableLeavesAlone
<1>6. CASE ReviewStep
  BY <1>6 DEF ReviewStep, ReviewStart, ReadHistory, ReadRules, Publish, ReviewFails,
              ReviewLeavesAlone
<1> QED BY <1>1, <1>2, <1>3, <1>4, <1>5, <1>6 DEF FeedbackNext

\* Every step preserves the types.
LEMMA TypeStep == FeedbackTypeOK /\ [FeedbackNext]_feedbackVars => FeedbackTypeOK'
<1> SUFFICES ASSUME FeedbackTypeOK, [FeedbackNext]_feedbackVars PROVE FeedbackTypeOK' OBVIOUS
<1>1. CASE UNCHANGED feedbackVars BY <1>1 DEF feedbackVars, FeedbackTypeOK
<1>2. CASE FeedbackNext
  <2>w. WatchQuiet BY <1>2, Watched
  <2>f. /\ facts \subseteq HistoryRow /\ nextRow \in Nat /\ ops \in Nat
        /\ given \subseteq Signals /\ WorkersOK
        /\ backfill \in [pc: {"idle", "run"}, last: Signals \cup {0}, done: SUBSET Prs]
        /\ stateFile \subseteq Prs
        /\ recovery \in [pc: {"idle", "insert"}, src: Sources, fresh: SUBSET Signals]
        /\ review \in [pc: {"idle", "history", "rules", "filter", "done"}, runs: Nat,
                       rejected: SUBSET Findings, muted: SUBSET Findings,
                       posted: SUBSET Findings]
        /\ due \subseteq Findings
    BY FoldWorkers
  <2>g. ASSUME worker' = worker PROVE WorkersOK'
    BY <2>f, <2>g DEF WorkersOK
  <2>1. ASSUME NEW s \in Signals, React(s) PROVE FeedbackTypeOK'
    <3>1. given' \subseteq Signals BY <2>f, <2>1 DEF React
    <3>2. WorkersOK'
      <4>1. CASE worker' = worker BY <2>g, <4>1
      <4>2. ASSUME NEW w \in Workers, NEW n \in WritesOfJob(w),
                   worker' = [worker EXCEPT ![w] = [pc |-> "record", signal |-> s,
                                                    writes |-> n]]
            PROVE  WorkersOK'
        <5>1. n \in Nat BY <2>f DEF WorkersOK, Process, WritesOfJob
        <5> QED BY <2>f, <4>2, <5>1 DEF WorkersOK, Process
      <4> QED BY <2>1, <4>1, <4>2 DEF React
    <3>3. UNCHANGED <<facts, nextRow, ops, backfill, stateFile, recovery, review, due>>
      BY <2>1 DEF React
    <3>4. quiet' \in [rejected: SUBSET Findings, muted: SUBSET Findings]
      BY <2>f, <2>w, <3>3, QuietType
    <3> QED BY <2>f, <3>1, <3>2, <3>3, <3>4 DEF FeedbackTypeOK, WorkersOK, Process
  <2>2. ASSUME NEW w \in Workers, WorkerStep(w) PROVE FeedbackTypeOK'
    <3>1. WorkerLeavesAlone
      BY <2>2 DEF WorkerStep, RateLimited, RecordFact, RecordFails, Count, CheckRule,
                  createSuppressionRule, ThresholdCheckFails
    <3>2. UNCHANGED <<given, backfill, stateFile, recovery, review>>
      BY <3>1 DEF WorkerLeavesAlone
    <3>3. /\ facts' \subseteq HistoryRow /\ nextRow' \in Nat /\ ops' \in Nat
          /\ WorkersOK' /\ due' \subseteq Findings
      BY <2>2, WorkerType
    <3>4. quiet' \in [rejected: SUBSET Findings, muted: SUBSET Findings]
      BY <2>w, <3>3, QuietType
    <3> QED BY <2>f, <3>2, <3>3, <3>4 DEF FeedbackTypeOK, WorkersOK, Process
  <2>3. CASE BackfillStep
    <3>1. UNCHANGED <<given, worker, recovery, review, due>>
      BY <2>3, BackfillType DEF BackfillLeavesAlone
    <3>2. quiet' \in [rejected: SUBSET Findings, muted: SUBSET Findings]
      BY <2>w, <2>3, BackfillType, QuietType
    <3>3. WorkersOK' BY <2>g, <3>1
    <3> QED BY <2>f, <2>3, <3>1, <3>2, <3>3, BackfillType DEF FeedbackTypeOK, WorkersOK, Process
  <2>4. CASE RecoverRead \/ RecoverInsert \/ RecoverFails
    <3>1. UNCHANGED <<given, worker, backfill, stateFile, review, due>>
      BY <2>4, RecoveryType DEF RecoveryLeavesAlone
    <3>2. quiet' \in [rejected: SUBSET Findings, muted: SUBSET Findings]
      BY <2>w, <2>4, RecoveryType, QuietType
    <3>3. WorkersOK' BY <2>g, <3>1
    <3> QED BY <2>f, <2>4, <3>1, <3>2, <3>3, RecoveryType DEF FeedbackTypeOK, WorkersOK, Process
  <2>5. CASE \/ \E r \in facts: deleteSuppressionRule(r)
             \/ Expire \/ pruneExpiredReviewHistory
    <3>1. UNCHANGED <<nextRow, given, worker, backfill, stateFile, recovery, review>>
      BY <2>5, TableType DEF TableLeavesAlone
    <3>2. facts' \subseteq HistoryRow /\ ops' \in Nat /\ due' \subseteq Findings
      BY <2>f, <2>5, TableType
    <3>3. quiet' \in [rejected: SUBSET Findings, muted: SUBSET Findings]
      BY <2>w, <3>2, QuietType
    <3>4. WorkersOK' BY <2>g, <3>1
    <3> QED BY <2>f, <3>1, <3>2, <3>3, <3>4 DEF FeedbackTypeOK, WorkersOK, Process
  <2>6. CASE ReviewStep
    <3>1. UNCHANGED <<facts, nextRow, given, worker, backfill, stateFile, recovery, due>>
      BY <2>6, ReviewType DEF ReviewLeavesAlone
    <3>2. quiet' \in [rejected: SUBSET Findings, muted: SUBSET Findings]
      BY <2>f, <2>w, <3>1, QuietType
    <3>3. WorkersOK' BY <2>g, <3>1
    <3> QED BY <2>f, <2>6, <3>1, <3>2, <3>3, ReviewType DEF FeedbackTypeOK, WorkersOK, Process
  <2> QED BY <1>2, <2>1, <2>2, <2>3, <2>4, <2>5, <2>6 DEF FeedbackNext
<1> QED BY <1>1, <1>2 DEF FeedbackNext

\* Every reachable state of the table, its writers and its readers is well typed.
THEOREM TypeCorrect == FeedbackSpec => []FeedbackTypeOK
<1>1. FeedbackInit => FeedbackTypeOK BY InitType
<1>2. FeedbackTypeOK /\ [FeedbackNext]_feedbackVars => FeedbackTypeOK' BY TypeStep
<1> QED BY <1>1, <1>2, PTL DEF FeedbackSpec

-----------------------------------------------------------------------------
(* What is quiet stays quiet.  The review holds on to what it read, quiet  *)
(* only shrinks while it runs, and it shrinks to what the table says; so   *)
(* what is still quiet when a read happens is in what is read.             *)

InReview == {"history", "rules", "filter"}

QuietInv ==
  /\ review.pc # "done" => review.posted = {}
  /\ review.pc \in InReview => /\ quiet.rejected \subseteq Rejected(facts)
                               /\ quiet.muted \subseteq loadActiveSuppressionRules(facts)
  /\ review.pc \in {"rules", "filter"} => quiet.rejected \subseteq review.rejected
  /\ review.pc = "filter" => quiet.muted \subseteq review.muted
  /\ QuietStaysQuiet

\* A step of somebody else leaves the review where it is.
LEMMA OthersLeaveReview ==
  ASSUME FeedbackNext, ~ReviewStep PROVE review' = review
<1>1. ASSUME NEW s \in Signals, React(s) PROVE review' = review BY <1>1 DEF React
<1>2. ASSUME NEW w \in Workers, WorkerStep(w) PROVE review' = review
  BY <1>2 DEF WorkerStep, RateLimited, RecordFact, RecordFails, Count, CheckRule,
              createSuppressionRule, ThresholdCheckFails, WorkerLeavesAlone
<1>3. CASE BackfillStep
  BY <1>3 DEF BackfillStep, BackfillStart, BackfillEnd, BackfillStops, BackfillPr,
              BackfillReaction, BackfillLeavesAlone
<1>4. CASE RecoverRead \/ RecoverInsert \/ RecoverFails
  BY <1>4 DEF RecoverRead, RecoverInsert, RecoverFails, RecoveryLeavesAlone
<1>5. CASE \/ \E r \in facts: deleteSuppressionRule(r)
           \/ Expire \/ pruneExpiredReviewHistory
  BY <1>5 DEF deleteSuppressionRule, Expire, pruneExpiredReviewHistory, TableLeavesAlone
<1> QED BY <1>1, <1>2, <1>3, <1>4, <1>5 DEF FeedbackNext

\* Nor can the table, whatever becomes of it, make quiet grow during a review.
LEMMA OthersKeepQuiet ==
  ASSUME FeedbackTypeOK, QuietInv, review' = review, WatchQuiet PROVE QuietInv'
<1>t. /\ review.pc \in {"idle", "history", "rules", "filter", "done"}
      /\ review.pc # "done" => review.posted = {}
  BY DEF FeedbackTypeOK, QuietInv
<1>1. CASE review.pc = "done"
  <2>1. quiet' = quiet BY <1>1 DEF WatchQuiet
  <2> QED BY <1>1, <2>1 DEF QuietInv, QuietStaysQuiet, InReview
<1>2. CASE review.pc = "idle"
  BY <1>2, <1>t DEF QuietInv, QuietStaysQuiet, InReview
<1>3. CASE review.pc \in InReview
  <2>1. quiet' = [rejected |-> quiet.rejected \cap Rejected(facts'),
                  muted |-> quiet.muted \cap loadActiveSuppressionRules(facts')]
    BY <1>3 DEF WatchQuiet, InReview
  <2> QED BY <1>3, <1>t, <2>1 DEF QuietInv, QuietStaysQuiet, InReview
<1> QED BY <1>t, <1>1, <1>2, <1>3 DEF InReview

\* A step of the review reads what is quiet, and drops what it read.
LEMMA ReviewKeepsQuiet ==
  ASSUME FeedbackTypeOK, QuietInv, ReviewStep, WatchQuiet PROVE QuietInv'
<1>t. /\ facts' = facts
      /\ review \in [pc: {"idle", "history", "rules", "filter", "done"}, runs: Nat,
                     rejected: SUBSET Findings, muted: SUBSET Findings,
                     posted: SUBSET Findings]
  BY ReviewType DEF FeedbackTypeOK, ReviewLeavesAlone
<1>i. ASSUME review.pc \in InReview, review'.pc # "history", review'.pc # "idle"
      PROVE  quiet' = [rejected |-> quiet.rejected \cap Rejected(facts),
                       muted |-> quiet.muted \cap loadActiveSuppressionRules(facts)]
  BY <1>i, <1>t DEF WatchQuiet, InReview
<1>1. CASE ReviewStart
  <2>1. /\ review'.pc = "history" /\ review'.posted = {} /\ review.pc # "history"
    BY <1>1 DEF ReviewStart
  <2>2. quiet' = [rejected |-> Rejected(facts'), muted |-> loadActiveSuppressionRules(facts')]
    BY <2>1 DEF WatchQuiet
  <2> QED BY <2>1, <2>2 DEF QuietInv, QuietStaysQuiet, InReview
<1>2. CASE ReadHistory
  <2>1. /\ review.pc = "history" /\ review'.pc = "rules" /\ review'.rejected = Rejected(facts)
        /\ review'.posted = review.posted
    BY <1>2, <1>t DEF ReadHistory
  <2> QED BY <1>t, <1>i, <2>1 DEF QuietInv, QuietStaysQuiet, InReview
<1>3. CASE ReadRules
  <2>1. /\ review.pc = "rules" /\ review'.pc = "filter"
        /\ review'.muted = loadActiveSuppressionRules(facts)
        /\ review'.rejected = review.rejected /\ review'.posted = review.posted
    BY <1>3, <1>t DEF ReadRules
  <2> QED BY <1>t, <1>i, <2>1 DEF QuietInv, QuietStaysQuiet, InReview
<1>4. CASE ReviewFails
  <2>1. /\ review.pc \in InReview /\ review'.pc = "idle" /\ review'.posted = review.posted
    BY <1>4, <1>t DEF ReviewFails, InReview
  <2> QED BY <2>1 DEF QuietInv, QuietStaysQuiet, InReview
<1>5. ASSUME NEW found \in SUBSET Findings, Publish(found) PROVE QuietInv'
  <2>1. /\ review.pc = "filter" /\ review'.pc = "done"
        /\ review'.posted = (found \ review.rejected) \ review.muted
    BY <1>5, <1>t DEF Publish, Kept
  <2> QED BY <1>i, <2>1 DEF QuietInv, QuietStaysQuiet, InReview
<1> QED BY <1>1, <1>2, <1>3, <1>4, <1>5 DEF ReviewStep

\* No review posts what was rejected or muted throughout, for any number of
\* workers and commands that write, remove and expire rows while it runs.
THEOREM QuietFindings == FeedbackSpec => []QuietStaysQuiet
<1>1. FeedbackInit => QuietInv
  BY DEF FeedbackInit, QuietInv, QuietStaysQuiet, InReview
<1>2. FeedbackTypeOK /\ QuietInv /\ [FeedbackNext]_feedbackVars => QuietInv'
  <2> SUFFICES ASSUME FeedbackTypeOK, QuietInv, [FeedbackNext]_feedbackVars PROVE QuietInv' OBVIOUS
  <2>1. CASE UNCHANGED feedbackVars
    BY <2>1 DEF feedbackVars, QuietInv, QuietStaysQuiet
  <2>2. CASE FeedbackNext
    <3>1. CASE ReviewStep BY <2>2, <3>1, ReviewKeepsQuiet, Watched
    <3>2. CASE ~ReviewStep BY <2>2, <3>2, OthersLeaveReview, OthersKeepQuiet, Watched
    <3> QED BY <3>1, <3>2
  <2> QED BY <2>1, <2>2
<1>3. QuietInv => QuietStaysQuiet BY DEF QuietInv
<1> QED BY <1>1, <1>2, <1>3, TypeCorrect, PTL DEF FeedbackSpec

-----------------------------------------------------------------------------
(* Reaching the threshold mutes.  A finding that is due has as many        *)
(* rejections in the table as the threshold asks for, so the worker that   *)
(* counts for it never gives up below it.                                  *)

RejectionsOf(table, f) ==
  {r \in Live(table): r.type = "rejected_finding" /\ r.finding = f}

Pending(f) ==
  \E w \in Workers: /\ worker[w].pc \in {"count", "check", "rule"}
                    /\ FindingOf[worker[w].signal] = f

DueInv ==
  /\ IsFiniteSet(facts)
  /\ \A f \in due: /\ countRejectionsByFingerprint(facts, f) >= SuppressAfter
                   /\ f \in loadActiveSuppressionRules(facts) \/ Pending(f)

\* Counting is a matter of the finite set of rejections.
LEMMA CountType ==
  ASSUME NEW table, IsFiniteSet(table), NEW f
  PROVE  /\ IsFiniteSet(RejectionsOf(table, f))
         /\ countRejectionsByFingerprint(table, f) = Cardinality(RejectionsOf(table, f))
         /\ countRejectionsByFingerprint(table, f) \in Nat
<1>1. RejectionsOf(table, f) \subseteq table BY DEF RejectionsOf, Live
<1>2. IsFiniteSet(RejectionsOf(table, f)) BY <1>1, FS_Subset
<1>3. countRejectionsByFingerprint(table, f) = Cardinality(RejectionsOf(table, f))
  BY DEF countRejectionsByFingerprint, RejectionsOf
<1> QED BY <1>2, <1>3, FS_CardinalityType

\* A finding whose live rejections and rules do not go away stays as it is.
LEMMA TableKeepsDue ==
  ASSUME DueInv, NEW f \in due, SuppressAfter \in Nat, IsFiniteSet(facts'),
         RejectionsOf(facts, f) \subseteq RejectionsOf(facts', f)
  PROVE  countRejectionsByFingerprint(facts', f) >= SuppressAfter
<1>1. /\ IsFiniteSet(facts) /\ countRejectionsByFingerprint(facts, f) >= SuppressAfter
  BY DEF DueInv
<1>2. Cardinality(RejectionsOf(facts, f)) <= Cardinality(RejectionsOf(facts', f))
  BY CountType, FS_Subset
<1>3. /\ countRejectionsByFingerprint(facts, f) = Cardinality(RejectionsOf(facts, f))
      /\ countRejectionsByFingerprint(facts, f) \in Nat
  BY <1>1, CountType
<1>4. /\ countRejectionsByFingerprint(facts', f) = Cardinality(RejectionsOf(facts', f))
      /\ countRejectionsByFingerprint(facts', f) \in Nat
  BY CountType
<1> QED BY <1>1, <1>2, <1>3, <1>4

\* Inserting rows takes no rejection and no rule away.
LEMMA InsertKeeps ==
  ASSUME facts \subseteq facts', NEW f
  PROVE  /\ RejectionsOf(facts, f) \subseteq RejectionsOf(facts', f)
         /\ f \in loadActiveSuppressionRules(facts) => f \in loadActiveSuppressionRules(facts')
BY DEF RejectionsOf, Live, loadActiveSuppressionRules

\* So a step that only inserts rows is fine if no worker abandons a finding.
LEMMA GrowDue ==
  ASSUME DueInv, facts \subseteq facts', IsFiniteSet(facts'), due' \subseteq due,
         \A f \in due': Pending(f) => Pending(f)' \/ f \in loadActiveSuppressionRules(facts')
  PROVE  DueInv'
<1>1. ASSUME NEW f \in due'
      PROVE  /\ countRejectionsByFingerprint(facts', f) >= SuppressAfter
             /\ f \in loadActiveSuppressionRules(facts') \/ Pending(f)'
  <2>1. countRejectionsByFingerprint(facts', f) >= SuppressAfter
    BY FeedbackAssumption, InsertKeeps, TableKeepsDue
  <2>2. f \in loadActiveSuppressionRules(facts) \/ Pending(f) BY DEF DueInv
  <2> QED BY <2>1, <2>2, InsertKeeps
<1> QED BY <1>1 DEF DueInv

\* A worker that moves on is the only one that could abandon a finding, and
\* it does so only when it goes to idle.
LEMMA OneMoves ==
  ASSUME FeedbackTypeOK, NEW w \in Workers, NEW p, NEW f,
         worker' = [worker EXCEPT ![w] = p],
         Pending(f),
         FindingOf[worker[w].signal] = f /\ worker[w].pc \in {"count", "check", "rule"} =>
            p.pc \in {"count", "check", "rule"} /\ p.signal = worker[w].signal
  PROVE  Pending(f)'
<1>1. PICK v \in Workers: /\ worker[v].pc \in {"count", "check", "rule"}
                          /\ FindingOf[worker[v].signal] = f
  BY DEF Pending
<1>t. worker \in [Workers -> Process] BY FoldWorkers DEF WorkersOK
<1>2. worker'[v] = IF v = w THEN p ELSE worker[v] BY <1>t
<1>3. /\ worker'[v].pc \in {"count", "check", "rule"}
      /\ FindingOf[worker'[v].signal] = f
  BY <1>1, <1>2
<1> QED BY <1>1, <1>3 DEF Pending

\* GoTo as an assignment of the whole record.
LEMMA GoToRecord ==
  ASSUME FeedbackTypeOK, NEW w \in Workers, NEW pc, GoTo(w, pc)
  PROVE  \E p: /\ worker' = [worker EXCEPT ![w] = p]
               /\ p.pc = pc /\ p.signal = Holding(pc, worker[w].signal)
<1> DEFINE p == [worker[w] EXCEPT !.pc = pc, !.signal = Holding(pc, worker[w].signal)]
<1>t. worker \in [Workers -> Process] /\ worker[w] \in Process
  BY FoldWorkers DEF WorkersOK
<1>1. p.pc = pc /\ p.signal = Holding(pc, worker[w].signal) BY <1>t DEF Process
<1>2. worker' = [worker EXCEPT ![w] = p] BY <1>t DEF GoTo, Process
<1> QED BY <1>1, <1>2

\* No step of a worker leaves a due finding to nobody.
LEMMA WorkerDue ==
  ASSUME FeedbackTypeOK, DueInv, NEW w \in Workers, WorkerStep(w) PROVE DueInv'
<1>t. /\ worker \in [Workers -> Process] /\ worker[w] \in Process
      /\ nextRow \in Nat
      /\ worker[w].pc # "idle" => worker[w].signal \in Signals
  BY FoldWorkers DEF WorkersOK
<1>r. IsFiniteSet(facts) BY DEF DueInv
<1>a. \A x: IsFiniteSet(facts \cup {x}) BY <1>r, FS_AddElement
<1>1. CASE RateLimited(w)
  <2>1. PICK p: worker' = [worker EXCEPT ![w] = p] BY <1>1, GoToRecord DEF RateLimited
  <2>2. worker[w].pc = "record" BY <1>1 DEF RateLimited, WorkerAt
  <2>3. \A f: Pending(f) => Pending(f)' BY <2>1, <2>2, OneMoves
  <2> QED BY <1>1, <1>r, <2>3, GrowDue DEF RateLimited
<1>2. CASE RecordFact(w)
  <2> DEFINE s == worker[w].signal
             f == FindingOf[s]
             p == [worker[w] EXCEPT !.pc = AfterInsert(s), !.writes = @ + 1,
                                    !.signal = Holding(AfterInsert(s), s)]
  <2>1. worker[w].pc = "record" BY <1>2 DEF RecordFact, WorkerAt
  <2>2. worker' = [worker EXCEPT ![w] = p] BY <1>2, <1>t DEF RecordFact, Process
  <2>3. \A g: Pending(g) => Pending(g)' BY <2>1, <2>2, OneMoves
  <2>4. facts \subseteq facts' /\ IsFiniteSet(facts') BY <1>2, <1>a DEF RecordFact
  <2>5. ASSUME NEW g \in due
        PROVE  /\ countRejectionsByFingerprint(facts', g) >= SuppressAfter
               /\ g \in loadActiveSuppressionRules(facts') \/ Pending(g)'
    <3>1. countRejectionsByFingerprint(facts', g) >= SuppressAfter
      BY <2>4, FeedbackAssumption, InsertKeeps, TableKeepsDue
    <3>2. g \in loadActiveSuppressionRules(facts) \/ Pending(g) BY DEF DueInv
    <3> QED BY <2>3, <2>4, <3>1, <3>2, InsertKeeps
  <2>6. ASSUME NEW g, g = f, s \in Rejections PROVE Pending(g)'
    <3>1. p.pc = "count" /\ p.signal = s
      BY <1>t, <2>6 DEF Process, AfterInsert, Holding
    <3>2. worker'[w] = p BY <1>t, <2>2
    <3> QED BY <2>6, <3>1, <3>2 DEF Pending
  <2>7. \A g \in due': \/ g \in due
                       \/ /\ g = f /\ s \in Rejections
                          /\ countRejectionsByFingerprint(facts', g) >= SuppressAfter
    BY <1>2 DEF RecordFact
  <2>8. \A g \in due': /\ countRejectionsByFingerprint(facts', g) >= SuppressAfter
                       /\ g \in loadActiveSuppressionRules(facts') \/ Pending(g)'
    <3> HIDE DEF s, f, p
    <3> QED BY <2>5, <2>6, <2>7
  <2> QED BY <2>4, <2>8 DEF DueInv
<1>3. CASE RecordFails(w)
  <2> DEFINE p == [worker[w] EXCEPT !.pc = "idle", !.signal = 0, !.writes = @ + 1]
  <2>1. worker' = [worker EXCEPT ![w] = p] BY <1>3, <1>t DEF RecordFails, Process
  <2>2. worker[w].pc = "record" BY <1>3 DEF RecordFails, WorkerAt
  <2>3. \A f: Pending(f) => Pending(f)' BY <2>1, <2>2, OneMoves
  <2> QED BY <1>3, <1>r, <2>3, GrowDue DEF RecordFails
<1>4. CASE Count(w)
  <2> DEFINE f == FindingOf[worker[w].signal]
             pc == IF BelowThreshold(countRejectionsByFingerprint(facts, f))
                   THEN "idle" ELSE "check"
  <2>1. PICK p: /\ worker' = [worker EXCEPT ![w] = p]
                /\ p.pc = pc /\ p.signal = Holding(pc, worker[w].signal)
    BY <1>4, GoToRecord DEF Count
  <2>2. facts' = facts /\ due' = due BY <1>4 DEF Count
  <2>3. ASSUME NEW g \in due, Pending(g) PROVE Pending(g)'
    <3>1. CASE g # f BY <2>1, <2>3, <3>1, OneMoves
    <3>2. CASE g = f
      <4>1. countRejectionsByFingerprint(facts, f) >= SuppressAfter
        BY <3>2 DEF DueInv
      <4>2. ~BelowThreshold(countRejectionsByFingerprint(facts, f))
        BY <1>r, <4>1, CountType, FeedbackAssumption DEF BelowThreshold
      <4>3. p.pc = "check" /\ p.signal = worker[w].signal BY <2>1, <4>2 DEF Holding
      <4> QED BY <2>1, <2>3, <4>3, OneMoves
    <3> QED BY <3>1, <3>2
  <2> QED BY <1>r, <2>2, <2>3, GrowDue
<1>5. CASE CheckRule(w)
  <2> DEFINE f == FindingOf[worker[w].signal]
             pc == IF f \in loadActiveSuppressionRules(facts) THEN "idle" ELSE "rule"
  <2>1. PICK p: /\ worker' = [worker EXCEPT ![w] = p]
                /\ p.pc = pc /\ p.signal = Holding(pc, worker[w].signal)
    BY <1>5, GoToRecord DEF CheckRule
  <2>2. facts' = facts /\ due' = due BY <1>5 DEF CheckRule
  <2>3. ASSUME NEW g \in due, Pending(g)
        PROVE  Pending(g)' \/ g \in loadActiveSuppressionRules(facts')
    <3>1. CASE g # f BY <2>1, <2>3, <3>1, OneMoves
    <3>2. CASE g = f /\ f \notin loadActiveSuppressionRules(facts)
      <4>1. p.pc = "rule" /\ p.signal = worker[w].signal BY <2>1, <3>2 DEF Holding
      <4> QED BY <2>1, <2>3, <4>1, OneMoves
    <3> QED BY <2>2, <3>1, <3>2
  <2>4. \A g \in due': Pending(g) => Pending(g)' \/ g \in loadActiveSuppressionRules(facts')
    BY <2>2, <2>3
  <2> HIDE DEF f, pc
  <2> QED BY <1>r, <2>2, <2>4, GrowDue
<1>6. CASE createSuppressionRule(w)
  <2> DEFINE s == worker[w].signal
             r == Fact(nextRow, "suppression_rule", s, "rule")
  <2>1. PICK p: worker' = [worker EXCEPT ![w] = p]
    BY <1>6, GoToRecord DEF createSuppressionRule
  <2>2. facts' = facts \cup {r} /\ due' = due BY <1>6 DEF createSuppressionRule
  <2>3. FindingOf[s] \in loadActiveSuppressionRules(facts')
    <3>1. r \in Live(facts') /\ r.type = "suppression_rule" /\ r.finding = FindingOf[s]
      BY <2>2 DEF Fact, Live
    <3> QED BY <3>1 DEF loadActiveSuppressionRules
  <2>4. ASSUME NEW g \in due, Pending(g)
        PROVE  Pending(g)' \/ g \in loadActiveSuppressionRules(facts')
    <3>1. CASE g # FindingOf[s] BY <2>1, <2>4, <3>1, OneMoves
    <3> QED BY <2>3, <3>1
  <2> QED BY <1>a, <2>2, <2>4, GrowDue
<1>7. CASE ThresholdCheckFails(w)
  <2>1. PICK p: worker' = [worker EXCEPT ![w] = p]
    BY <1>7, GoToRecord DEF ThresholdCheckFails
  <2>2. facts' = facts /\ due' = due \ {FindingOf[worker[w].signal]}
    BY <1>7 DEF ThresholdCheckFails
  <2>3. \A g \in due': Pending(g) => Pending(g)' BY <2>1, <2>2, OneMoves
  <2> QED BY <1>r, <2>2, <2>3, GrowDue
<1> QED BY <1>1, <1>2, <1>3, <1>4, <1>5, <1>6, <1>7 DEF WorkerStep

\* Rows that go away excuse the finding they were about, and only that one.
LEMMA TableDue ==
  ASSUME FeedbackTypeOK, DueInv,
         \/ \E r \in facts: deleteSuppressionRule(r)
         \/ Expire \/ pruneExpiredReviewHistory
  PROVE  DueInv'
<1>r. IsFiniteSet(facts) BY DEF DueInv
<1>p. worker' = worker
  BY DEF deleteSuppressionRule, Expire, pruneExpiredReviewHistory, TableLeavesAlone
<1>k. ASSUME due' \subseteq due, IsFiniteSet(facts'),
             \A f \in due': /\ RejectionsOf(facts, f) \subseteq RejectionsOf(facts', f)
                            /\ f \in loadActiveSuppressionRules(facts)
                                 => f \in loadActiveSuppressionRules(facts')
      PROVE  DueInv'
  <2>1. ASSUME NEW f \in due'
        PROVE  /\ countRejectionsByFingerprint(facts', f) >= SuppressAfter
               /\ f \in loadActiveSuppressionRules(facts') \/ Pending(f)'
    <3>1. countRejectionsByFingerprint(facts', f) >= SuppressAfter
      BY <1>k, FeedbackAssumption, TableKeepsDue
    <3>2. Pending(f) => Pending(f)' BY <1>p DEF Pending
    <3>3. f \in loadActiveSuppressionRules(facts) \/ Pending(f) BY <1>k DEF DueInv
    <3> QED BY <1>k, <3>1, <3>2, <3>3
  <2> QED BY <1>k, <2>1 DEF DueInv
<1>1. CASE \E r \in facts: deleteSuppressionRule(r)
  <2>1. PICK r \in facts: deleteSuppressionRule(r) BY <1>1
  <2>2. /\ r.type = "suppression_rule" /\ facts' = facts \ {r} /\ due' = due \ {r.finding}
    BY <2>1 DEF deleteSuppressionRule
  <2>3. IsFiniteSet(facts') BY <1>r, <2>2, FS_Subset
  <2>4. \A f \in due': /\ RejectionsOf(facts, f) \subseteq RejectionsOf(facts', f)
                       /\ f \in loadActiveSuppressionRules(facts)
                            => f \in loadActiveSuppressionRules(facts')
    BY <2>2 DEF RejectionsOf, Live, loadActiveSuppressionRules
  <2> QED BY <1>k, <2>2, <2>3, <2>4
<1>2. CASE Expire
  <2>1. PICK r \in Live(facts): /\ facts' = (facts \ {r}) \cup {[r EXCEPT !.expired = TRUE]}
                              /\ due' = due \ {r.finding}
    BY <1>2 DEF Expire
  <2>2. IsFiniteSet(facts')
    <3>1. IsFiniteSet(facts \ {r}) BY <1>r, FS_Subset
    <3> QED BY <2>1, <3>1, FS_AddElement
  <2>3. facts \ {r} \subseteq facts' BY <2>1
  <2>4. \A f \in due': /\ RejectionsOf(facts, f) \subseteq RejectionsOf(facts', f)
                       /\ f \in loadActiveSuppressionRules(facts)
                            => f \in loadActiveSuppressionRules(facts')
    BY <2>1, <2>3 DEF RejectionsOf, Live, loadActiveSuppressionRules
  <2> QED BY <1>k, <2>1, <2>2, <2>4
<1>3. CASE pruneExpiredReviewHistory
  <2>1. facts' = Live(facts) /\ due' = due BY <1>3 DEF pruneExpiredReviewHistory
  <2>2. IsFiniteSet(facts') BY <1>r, <2>1, FS_Subset DEF Live
  <2>3. Live(facts') = Live(facts) BY <2>1 DEF Live
  <2>4. \A f: /\ RejectionsOf(facts, f) = RejectionsOf(facts', f)
              /\ loadActiveSuppressionRules(facts) = loadActiveSuppressionRules(facts')
    BY <2>3 DEF RejectionsOf, loadActiveSuppressionRules
  <2> QED BY <1>k, <2>1, <2>2, <2>4
<1> QED BY <1>1, <1>2, <1>3

\* The two commands insert finitely many rows and disturb no worker.
LEMMA CommandDue ==
  ASSUME FeedbackTypeOK, DueInv,
         BackfillStep \/ RecoverRead \/ RecoverInsert \/ RecoverFails
  PROVE  DueInv'
<1>r. IsFiniteSet(facts) BY DEF DueInv
<1>a. \A x: IsFiniteSet(facts \cup {x}) BY <1>r, FS_AddElement
<1>1. worker' = worker /\ due' = due
  BY BackfillType, RecoveryType DEF BackfillLeavesAlone, RecoveryLeavesAlone
<1>2. \A f: Pending(f) => Pending(f)' BY <1>1 DEF Pending
<1>3. facts \subseteq facts' /\ IsFiniteSet(facts')
  <2>1. CASE BackfillStep
    BY <1>r, <1>a, <2>1 DEF BackfillStep, BackfillStart, BackfillEnd, BackfillStops,
                            BackfillPr, BackfillReaction
  <2>2. CASE RecoverRead \/ RecoverFails BY <1>r, <2>2 DEF RecoverRead, RecoverFails
  <2>3. CASE RecoverInsert
    <3> DEFINE row(s) == Fact(nextRow + Cardinality({t \in recovery.fresh: t < s}),
                              feedbackKindToFactType(s), s, recovery.src)
               new == {row(s): s \in recovery.fresh}
    <3>1. facts' = facts \cup new BY <2>3 DEF RecoverInsert
    <3>2. IsFiniteSet(recovery.fresh)
      <4>1. IsFiniteSet(Signals) BY FeedbackAssumption, FS_Interval DEF Signals
      <4>2. recovery.fresh \subseteq Signals BY DEF FeedbackTypeOK
      <4> QED BY <4>1, <4>2, FS_Subset
    <3>3. IsFiniteSet(new)
      <4> DEFINE F == [s \in recovery.fresh |-> row(s)]
      <4>1. \A y \in new: \E s \in recovery.fresh: F[s] = y OBVIOUS
      <4>2. F \in [recovery.fresh -> new] OBVIOUS
      <4>3. F \in Surjection(recovery.fresh, new) BY <4>1, <4>2, Fun_IsSurj
      <4> QED BY <3>2, <4>3, FS_Surjection
    <3> QED BY <1>r, <3>1, <3>3, FS_Union
  <2> QED BY <2>1, <2>2, <2>3
<1> QED BY <1>1, <1>2, <1>3, GrowDue

\* A reaction reaches an idle worker, or none.
LEMMA ReactDue ==
  ASSUME FeedbackTypeOK, DueInv, NEW s \in Signals, React(s) PROVE DueInv'
<1>r. IsFiniteSet(facts) BY DEF DueInv
<1>t. worker \in [Workers -> Process] BY FoldWorkers DEF WorkersOK
<1>1. facts' = facts /\ due' = due BY DEF React
<1>2. \A f: Pending(f) => Pending(f)'
  <2>1. CASE worker' = worker BY <2>1 DEF Pending
  <2>2. ASSUME NEW w \in Workers, worker[w].pc = "idle",
               NEW p, worker' = [worker EXCEPT ![w] = p]
        PROVE  \A f: Pending(f) => Pending(f)'
    BY <2>2, OneMoves
  <2> QED BY <2>1, <2>2 DEF React
<1> QED BY <1>r, <1>1, <1>2, GrowDue

\* Once a finding's rejections reach the threshold it is muted, or a worker is
\* about to mute it, however many workers count at once.
THEOREM ThresholdIsKept == FeedbackSpec => []ThresholdMutes
<1>1. FeedbackInit => DueInv BY FS_EmptySet DEF FeedbackInit, DueInv
<1>2. FeedbackTypeOK /\ DueInv /\ [FeedbackNext]_feedbackVars => DueInv'
  <2> SUFFICES ASSUME FeedbackTypeOK, DueInv, [FeedbackNext]_feedbackVars PROVE DueInv' OBVIOUS
  <2>1. CASE UNCHANGED feedbackVars BY <2>1 DEF feedbackVars, DueInv, Pending
  <2>2. CASE ReviewStep
    <3>1. facts' = facts /\ worker' = worker /\ due' = due
      BY <2>2, ReviewType DEF ReviewLeavesAlone
    <3> QED BY <3>1 DEF DueInv, Pending
  <2> QED BY <2>1, <2>2, ReactDue, WorkerDue, CommandDue, TableDue DEF FeedbackNext
<1>3. DueInv => ThresholdMutes BY DEF DueInv, ThresholdMutes, Pending
<1> QED BY <1>1, <1>2, <1>3, TypeCorrect, PTL DEF FeedbackSpec
=============================================================================
