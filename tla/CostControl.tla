----------------------------- MODULE CostControl -----------------------------
(***************************************************************************)
(* The model calls of one installation and what bounds their cost: the     *)
(* review of runReview (runner/src/agent.ts), the cost guard around it     *)
(* (runner/src/middleware/cost-guard.ts, core/src/cost.ts), the shared     *)
(* ledger (db/src/cost-ledger.ts) and the replies in one comment thread    *)
(* (runner/src/conversation-runner.ts, db/src/conversation-state.ts).      *)
(*                                                                         *)
(* Several processes share the ledger and the thread's turn counter. Every *)
(* database statement, model call and post is a step of its own. A review  *)
(* has its guard wired to the ledger, as docs/cost/index.md shows, or only *)
(* to the review's own total, as runReview does. Costs are natural numbers *)
(* in any unit; a process that throws or dies keeps what it has written.   *)
(***************************************************************************)
EXTENDS Integers, FiniteSets

CONSTANTS
    Procs,         \* worker processes and webhook handlers
    Jobs,          \* job ids of the ledger
    Cap,           \* cost.max_usd_per_pr; 0: none
    DailyCap,      \* cost.daily_cap_usd; 0: none
    MaxCost,       \* the most that one estimate or one model call costs
    MaxTurns,      \* reviews.max_conversation_turns
    MaxDays,       \* bound on the days
    MaxStarts      \* bound on the tasks started

ASSUME ProcsAssumption == IsFiniteSet(Procs) /\ Procs # {}
ASSUME CapsAssumption ==
    Cap \in Nat /\ DailyCap \in Nat /\ MaxCost \in Nat /\ MaxTurns \in Nat \ {0}
ASSUME BoundsAssumption == MaxDays \in Nat \ {0} /\ MaxStarts \in Nat

VARIABLES
    rows,          \* rows[j]: sum of the cost_ledger rows of job j
    daily,         \* daily[d]: installation_cost_daily of day d
    today,
    turns,         \* conversation_threads.turn_count of the thread
    proc,          \* proc[p]: the task of process p and its locals
    starts,        \* tasks started
    charged,       \* history: charged[j], what 'success' rows of job j add up to
    reviewed,      \* history: reviewed[d], the part of daily[d] charged by reviews
    refused,       \* history: <<job, day>> of the 'cost_exceeded' rows for the per-PR cap
    admitted,      \* history: turns that passed the limit
    replies        \* history: replies posted in the thread

vars == <<rows, daily, today, turns, proc, starts, charged, reviewed, refused, admitted, replies>>

Cost == 0..MaxCost
Refusals == Jobs \X (1..MaxDays)
Places ==
    {"idle", "preflight", "turn", "counting", "noting", "totals", "daily", "calling",
     "refusing", "recording", "exceeded", "finishing", "posting"}
Process ==
    [pc : Places, task : {"review", "reply"}, job : Jobs, wired : BOOLEAN, est : Cost,
     date : 1..MaxDays, running : Nat, cost : Cost, tries : 0..1, before : Nat,
     capped : BOOLEAN,   \* history: refused by the per-PR cap
     late : BOOLEAN]     \* history: the totals were read after a refusal of their date

Task(task, j, wired, pc) ==
    [pc |-> pc, task |-> task, job |-> j, wired |-> wired, est |-> 0, date |-> 1,
     running |-> 0, cost |-> 0, tries |-> 0, before |-> 0, capped |-> FALSE, late |-> FALSE]

Idle(p) == Task("review", proc[p].job, FALSE, "idle")
At(p, pc) == [proc[p] EXCEPT !.pc = pc]
Becomes(p, r) == proc' = [proc EXCEPT ![p] = r]

Init ==
    /\ rows = [j \in Jobs |-> 0]
    /\ daily = [d \in 1..MaxDays |-> 0]
    /\ today = 1
    /\ turns = 0
    /\ proc \in [Procs -> {Task("review", j, FALSE, "idle") : j \in Jobs}]
    /\ starts = 0
    /\ charged = [j \in Jobs |-> 0]
    /\ reviewed = [d \in 1..MaxDays |-> 0]
    /\ refused = {}
    /\ admitted = 0
    /\ replies = 0

Ledger == <<rows, daily, charged, reviewed, refused>>
Thread == <<turns, admitted, replies>>

NewDay ==
    /\ today < MaxDays
    /\ today' = today + 1
    /\ UNCHANGED <<proc, starts, Ledger, Thread>>

(* A job is delivered, also again after a failure or while it still runs;  *)
(* or the webhook hands an authorized mention in a reply to the runner.    *)
Start(p) ==
    /\ proc[p].pc = "idle"
    /\ starts < MaxStarts
    /\ starts' = starts + 1
    /\ \E j \in Jobs, wired \in BOOLEAN :
         \/ Becomes(p, Task("review", j, wired, "preflight"))
         \/ Becomes(p, Task("reply", j, wired, "turn"))
    /\ UNCHANGED <<today, Ledger, Thread>>

(* An awaited call throws, or the process dies.                            *)
Throw(p) ==
    /\ proc[p].pc # "idle"
    /\ Becomes(p, Idle(p))
    /\ UNCHANGED <<today, starts, Ledger, Thread>>

-----------------------------------------------------------------------------
DecideAboveDaily(running, est, perPrCap, d, dailyCap) ==   \* mutant: > for >=
    IF dailyCap > 0 /\ d > dailyCap THEN "daily_cap"
    ELSE IF perPrCap > 0 /\ running + est > perPrCap THEN "abort" ELSE "proceed"

\* The ratios 0.8, 1.0 and 1.5 of the caps, cleared of fractions.
decideCostAction(running, est, perPrCap, d, dailyCap) ==
    CASE dailyCap > 0 /\ d >= dailyCap -> "daily_cap"
      [] dailyCap <= 0 \/ d < dailyCap ->
           IF perPrCap <= 0 THEN "proceed"
           ELSE IF 2 * running > 3 * perPrCap THEN "kill"
           ELSE IF running + est > perPrCap THEN "abort"
           ELSE IF 5 * (running + est) > 4 * perPrCap THEN "fallback"
           ELSE "proceed"

Stops(decision) == decision \in {"daily_cap", "abort", "kill"}

\* The totals are asked for with the date of this moment.
AskTotals(p) == [At(p, "totals") EXCEPT !.date = today]

(* runReviewInner up to the middlewares. A history read that fails or a    *)
(* secret in the diff throws (Throw); too many files or lines return an    *)
(* empty review that cost nothing; else the guard is entered and estimates *)
(* the prompt. Without the ledger its totals are those of a new CostState. *)
Preflight(p) ==
    /\ proc[p].pc = "preflight"
    /\ \/ Becomes(p, Idle(p))
       \/ \E est \in Cost :
            IF proc[p].wired THEN Becomes(p, [AskTotals(p) EXCEPT !.est = est])
            ELSE IF Stops(decideCostAction(0, est, Cap, 0, 0)) THEN Becomes(p, Idle(p))
            ELSE Becomes(p, [At(p, "calling") EXCEPT !.est = est])
    /\ UNCHANGED <<today, starts, Ledger, Thread>>

(* createCostTotalsReader: two statements, in no transaction.              *)
ReadRunning(p) ==
    /\ proc[p].pc = "totals"
    /\ Becomes(p, [At(p, "daily") EXCEPT !.running = rows[proc[p].job],
                                         !.late = <<proc[p].job, proc[p].date>> \in refused])
    /\ UNCHANGED <<today, starts, Ledger, Thread>>

\* A reply asks with no estimate and no daily cap, and records no refusal.
Decision(p) ==
    decideCostAction(proc[p].running, proc[p].est, Cap, daily[proc[p].date],
                     IF proc[p].task = "review" THEN DailyCap ELSE 0)

ReadDaily(p) ==
    /\ proc[p].pc = "daily"
    /\ IF ~Stops(Decision(p)) THEN Becomes(p, At(p, "calling"))
       ELSE IF proc[p].task = "reply" THEN Becomes(p, Idle(p))
       ELSE Becomes(p, [At(p, "refusing") EXCEPT !.capped = Decision(p) # "daily_cap"])
    /\ UNCHANGED <<today, starts, Ledger, Thread>>

\* Output that fails validation: once more, then the review is aborted.
Revalidate(p) == IF proc[p].tries = 0 THEN [proc[p] EXCEPT !.tries = 1] ELSE Idle(p)

\* After the call: its row, the cap check of the guard, the rest of the task.
Called(p, cost) ==
    IF proc[p].wired THEN [At(p, "recording") EXCEPT !.cost = cost]
    ELSE IF proc[p].task = "reply" THEN At(p, "posting")
    ELSE IF Cap > 0 /\ cost > Cap THEN Idle(p)
    ELSE At(p, "finishing")

(* One generateReview, and what main() or the reply makes of its result.   *)
(* The cost of an attempt whose output is discarded is kept nowhere.       *)
Generate(p) ==
    /\ proc[p].pc = "calling"
    /\ \/ \E cost \in Cost : Becomes(p, Called(p, cost))
       \/ proc[p].task = "review" /\ Becomes(p, Revalidate(p))
    /\ UNCHANGED <<today, starts, Ledger, Thread>>

\* createCostLedgerRecorder: the row and the day's total in one transaction.
Record(p, cost) ==
    /\ rows' = [rows EXCEPT ![proc[p].job] = @ + cost]
    /\ daily' = [daily EXCEPT ![today] = @ + cost]

RecordFree(p) == Record(p, 0)   \* mutant: a refusal costs nothing

\* recordExceeded before the call: the estimate, though nothing was spent.
RecordExceeded(p) == Record(p, proc[p].est)

RecordSuccess(p) ==
    /\ proc[p].pc = "recording"
    /\ Record(p, proc[p].cost)
    /\ charged' = [charged EXCEPT ![proc[p].job] = @ + proc[p].cost]
    /\ reviewed' = IF proc[p].task = "review"
                   THEN [reviewed EXCEPT ![today] = @ + proc[p].cost] ELSE reviewed
    /\ Becomes(p, IF proc[p].task = "reply" THEN At(p, "posting")
                  ELSE IF Cap > 0 /\ proc[p].running + proc[p].cost > Cap THEN At(p, "exceeded")
                  ELSE At(p, "finishing"))
    /\ UNCHANGED <<today, starts, refused, Thread>>

(* The guard refuses the call, or the finished call went over the cap; it  *)
(* writes its row and throws CostExceededError.                            *)
Refuse(p) ==
    /\ \/ /\ proc[p].pc = "refusing"
          /\ RecordExceeded(p)
          /\ refused' = IF proc[p].capped THEN refused \cup {<<proc[p].job, today>>} ELSE refused
       \/ /\ proc[p].pc = "exceeded"
          /\ Record(p, 0)
          /\ refused' = refused \cup {<<proc[p].job, today>>}
    /\ Becomes(p, Idle(p))
    /\ UNCHANGED <<today, starts, charged, reviewed, Thread>>

(* The rest of runReview: filters, the scan of the output (which may       *)
(* throw), the eval event. The review is handed to its poster.             *)
Finish(p) ==
    /\ proc[p].pc = "finishing"
    /\ Becomes(p, Idle(p))
    /\ UNCHANGED <<today, starts, Ledger, Thread>>

-----------------------------------------------------------------------------
(* incrementConversationTurn: SELECT, then the upsert that adds one ...    *)
ReadTurn(p) ==
    /\ proc[p].pc = "turn"
    /\ Becomes(p, [At(p, "counting") EXCEPT !.before = turns])
    /\ UNCHANGED <<today, starts, Ledger, Thread>>

WithinTwice(p) == proc[p].before <= MaxTurns   \* mutant: off by one

\* ... and before + 1, not the stored count, is compared with the limit.
Within(p) == proc[p].before + 1 <= MaxTurns

AdmitFree(p) == At(p, "calling")   \* mutant: a reply is not checked against the cap

\* The cost check of a reply, when there is a cap and a reader of the totals.
Admit(p) == IF Cap > 0 /\ proc[p].wired THEN AskTotals(p) ELSE At(p, "calling")

AddTurn(p) ==
    /\ proc[p].pc = "counting"
    /\ turns' = turns + 1
    /\ admitted' = IF Within(p) THEN admitted + 1 ELSE admitted
    /\ Becomes(p, IF ~Within(p)
                  THEN IF proc[p].before = MaxTurns THEN At(p, "noting") ELSE Idle(p)
                  ELSE Admit(p))
    /\ UNCHANGED <<today, starts, Ledger, replies>>

(* postReply, of the limit note or of the answer.                          *)
PostReply(p) ==
    /\ proc[p].pc \in {"noting", "posting"}
    /\ replies' = IF proc[p].pc = "posting" THEN replies + 1 ELSE replies
    /\ Becomes(p, Idle(p))
    /\ UNCHANGED <<today, starts, Ledger, turns, admitted>>

-----------------------------------------------------------------------------
\* Nothing is left to start within the bounds.
Finished ==
    /\ starts = MaxStarts /\ today = MaxDays
    /\ \A p \in Procs : proc[p].pc = "idle"
    /\ UNCHANGED vars

Next ==
    \/ NewDay
    \/ Finished
    \/ \E p \in Procs :
         \/ Start(p) \/ Throw(p)
         \/ Preflight(p)
         \/ ReadRunning(p) \/ ReadDaily(p)
         \/ Generate(p)
         \/ RecordSuccess(p) \/ Refuse(p)
         \/ Finish(p)
         \/ ReadTurn(p) \/ AddTurn(p) \/ PostReply(p)

Spec == Init /\ [][Next]_vars

-----------------------------------------------------------------------------
(* The variables hold what the tables and the locals can hold.             *)
TypeOK ==
    /\ rows \in [Jobs -> Nat]
    /\ daily \in [1..MaxDays -> Nat]
    /\ today \in 1..MaxDays
    /\ turns \in Nat
    /\ proc \in [Procs -> Process]
    /\ starts \in Nat
    /\ charged \in [Jobs -> Nat]
    /\ reviewed \in [1..MaxDays -> Nat]
    /\ refused \subseteq Refusals
    /\ admitted \in Nat
    /\ replies \in Nat

(* However the calls of a job interleave, its recorded spending passes     *)
(* max_usd_per_pr by at most one call for each process: the guard's check  *)
(* is made before the call, and only calls under way at the last check     *)
(* that passed can add to it.                                              *)
PrOvershootBounded ==
    Cap > 0 => \A j \in Jobs : charged[j] <= Cap + MaxCost * Cardinality(Procs)

(* The same for what reviews add to a day: daily_cap_usd is passed by less *)
(* than one call for each process, also across midnight.                   *)
DailyOvershootBounded ==
    DailyCap > 0 =>
        \A d \in 1..MaxDays : reviewed[d] < DailyCap + MaxCost * Cardinality(Procs)

(* Once a 'cost_exceeded' row was written for the per-PR cap, no delivery  *)
(* of that job and no reply that asks for the totals of the same day and   *)
(* reads the ledger afterwards calls the model: the row, which carries the *)
(* refused estimate, blocks it. What the next day brings is the subject of *)
(* RefusalEndsWithTheDay.                                                  *)
RefusedForTheDay ==
    \A p \in Procs : proc[p].pc \in {"calling", "recording", "posting"} => ~proc[p].late

(* What docs/cost/index.md promises of a killed review: its cap-exceeded   *)
(* record blocks the job "until the next day". On a later day, with        *)
(* nothing charged yet, only an estimate above the cap should refuse it.   *)
(* It does not hold: the rows of a job are summed without their dates.     *)
RefusalEndsWithTheDay ==
    \A p \in Procs :
        LET r == proc[p] IN
        /\ r.pc = "refusing" /\ r.capped
        /\ 2 * charged[r.job] > 3 * Cap
        /\ \E d \in 1..(r.date - 1) : <<r.job, d>> \in refused
        => daily[r.date] > 0 \/ r.est > Cap

(* A thread gets at most one reply for each process more than              *)
(* max_conversation_turns, less the one whose count is right: with one     *)
(* process at a time the limit is exact.                                   *)
TurnOvershootBounded == replies < MaxTurns + Cardinality(Procs)

(* docs/configuration/conversation.md promises the limit itself: it "caps  *)
(* the total number of back-and-forth agent replies per thread". It does   *)
(* not hold for two mentions at once, whose handlers both read the count   *)
(* before either has raised it.                                            *)
TurnLimitKept == replies <= MaxTurns
=============================================================================
