-------------------------- MODULE CostControlProofs --------------------------
(***************************************************************************)
(* Proofs about CostControl, for any number of processes and jobs, any     *)
(* caps and any cost of a call.                                            *)
(***************************************************************************)
EXTENDS CostControl, FiniteSetTheorems, TLAPS

LEMMA TimesMonotone ==
    ASSUME NEW m \in Nat, NEW a \in Nat, NEW b \in Nat, a <= b
    PROVE  m * a \in Nat /\ m * b \in Nat /\ m * a <= m * b
<1>1. PICK c \in Nat : b = a + c
  <2>1. b - a \in Nat /\ b = a + (b - a) OBVIOUS
  <2> QED BY <2>1
<1>2. m * b = m * a + m * c BY <1>1
<1>3. m * a \in Nat /\ m * c \in Nat OBVIOUS
<1> QED BY <1>2, <1>3

LEMMA TimesLess ==
    ASSUME NEW m \in Nat, NEW a \in Nat, NEW b \in Nat, b = a - 1
    PROVE  m * a \in Nat /\ m * b \in Nat /\ m * b + m = m * a
<1>1. a = b + 1 OBVIOUS
<1>2. m * a = m * b + m BY <1>1
<1> QED BY <1>2

\* A process that starts or ends a task has well-typed locals.
LEMMA TaskType ==
    ASSUME NEW task \in {"review", "reply"}, NEW j \in Jobs, NEW wired \in BOOLEAN,
           NEW pc \in {"idle", "preflight", "turn"}
    PROVE  Task(task, j, wired, pc) \in Process
BY CapsAssumption, BoundsAssumption DEF Task, Process, Cost, Places

LEMMA IdleType == ASSUME TypeOK, NEW p \in Procs PROVE Idle(p) \in Process
BY TaskType DEF TypeOK, Process, Idle

\* What a row adds is added to the job and to the day, and to nothing else.
LEMMA RecordType ==
    ASSUME TypeOK, NEW p \in Procs, NEW c \in Cost, Record(p, c)
    PROVE  /\ rows' \in [Jobs -> Nat] /\ daily' \in [1..MaxDays -> Nat]
           /\ rows'[proc[p].job] = rows[proc[p].job] + c
           /\ \A j \in Jobs : rows[j] <= rows'[j]
           /\ daily'[today] = daily[today] + c
           /\ \A d \in 1..MaxDays : daily[d] <= daily'[d]
<1>1. proc[p].job \in Jobs /\ c \in Nat /\ today \in 1..MaxDays
  BY CapsAssumption DEF TypeOK, Process, Cost
<1>2. rows \in [Jobs -> Nat] /\ rows' = [rows EXCEPT ![proc[p].job] = @ + c]
  BY DEF TypeOK, Record
<1>3. daily \in [1..MaxDays -> Nat] /\ daily' = [daily EXCEPT ![today] = @ + c]
  BY DEF TypeOK, Record
<1>4. rows[proc[p].job] + c \in Nat /\ daily[today] + c \in Nat BY <1>1, <1>2, <1>3
<1> HIDE DEF Record
<1>5. rows' \in [Jobs -> Nat] /\ rows'[proc[p].job] = rows[proc[p].job] + c
  BY <1>1, <1>2, <1>4
<1>6. daily' \in [1..MaxDays -> Nat] /\ daily'[today] = daily[today] + c
  BY <1>1, <1>3, <1>4
<1>7. \A j \in Jobs : rows[j] <= rows'[j] BY <1>1, <1>2
<1>8. \A d \in 1..MaxDays : daily[d] <= daily'[d] BY <1>1, <1>3
<1> QED BY <1>5, <1>6, <1>7, <1>8

-----------------------------------------------------------------------------
\* Storing a value of the right type in a local keeps the record well typed.
LEMMA LocalType ==
    ASSUME NEW r \in Process
    PROVE  /\ \A c \in Cost : [r EXCEPT !.est = c] \in Process /\ [r EXCEPT !.cost = c] \in Process
           /\ [r EXCEPT !.tries = 1] \in Process
           /\ \A b \in BOOLEAN : [r EXCEPT !.capped = b] \in Process
           /\ \A n \in Nat : [r EXCEPT !.before = n] \in Process
           /\ \A d \in 1..MaxDays : [r EXCEPT !.date = d] \in Process
           /\ \A n \in Nat, b \in BOOLEAN :
                [r EXCEPT !.running = n, !.late = b] \in Process
<1>1. \A c \in Cost : [r EXCEPT !.est = c] \in Process BY DEF Process
<1>2. \A c \in Cost : [r EXCEPT !.cost = c] \in Process BY DEF Process
<1>3. [r EXCEPT !.tries = 1] \in Process BY DEF Process
<1>4. \A b \in BOOLEAN : [r EXCEPT !.capped = b] \in Process BY DEF Process
<1>5. \A n \in Nat : [r EXCEPT !.before = n] \in Process BY DEF Process
<1>6. \A n \in Nat, b \in BOOLEAN : [r EXCEPT !.running = n, !.late = b] \in Process
  BY DEF Process
<1>7. \A d \in 1..MaxDays : [r EXCEPT !.date = d] \in Process BY DEF Process
<1> QED BY <1>1, <1>2, <1>3, <1>4, <1>5, <1>6, <1>7

LEMMA AtType ==
    ASSUME TypeOK, NEW p \in Procs
    PROVE  \A pc \in Places : At(p, pc) \in Process
<1>1. proc[p] \in Process BY DEF TypeOK
<1> QED BY <1>1 DEF At, Process

LEMMA AskType == ASSUME TypeOK, NEW p \in Procs PROVE AskTotals(p) \in Process
<1>1. At(p, "totals") \in Process /\ today \in 1..MaxDays BY AtType DEF TypeOK, Places
<1> QED BY <1>1, LocalType DEF AskTotals

LEMMA CalledType ==
    ASSUME TypeOK, NEW p \in Procs, NEW c \in Cost
    PROVE  Called(p, c) \in Process /\ Revalidate(p) \in Process
<1>1. proc[p] \in Process /\ Idle(p) \in Process BY IdleType DEF TypeOK
<1>2. /\ At(p, "recording") \in Process /\ At(p, "posting") \in Process
      /\ At(p, "finishing") \in Process
  BY <1>1, AtType DEF Places
<1>3. [At(p, "recording") EXCEPT !.cost = c] \in Process BY <1>2, LocalType
<1>4. [proc[p] EXCEPT !.tries = 1] \in Process BY <1>1, LocalType
<1> QED BY <1>1, <1>2, <1>3, <1>4 DEF Called, Revalidate

LEMMA TypeStep ==
    ASSUME TypeOK, [Next]_vars
    PROVE  TypeOK'
<1> USE DEF TypeOK
<1>1. CASE NewDay BY <1>1, BoundsAssumption DEF NewDay, Ledger, Thread
<1>2. CASE Finished BY <1>2 DEF Finished, vars
<1>3. CASE UNCHANGED vars BY <1>3 DEF vars
<1>4. ASSUME NEW p \in Procs, Start(p) PROVE TypeOK'
  <2>1. proc' \in [Procs -> Process] BY <1>4, TaskType DEF Start, Becomes
  <2> QED BY <1>4, <2>1 DEF Start, Ledger, Thread
<1>5. ASSUME NEW p \in Procs, Throw(p) PROVE TypeOK'
  BY <1>5, IdleType DEF Throw, Becomes, Ledger, Thread
<1>6. ASSUME NEW p \in Procs, Preflight(p) PROVE TypeOK'
  <2>1. \A est \in Cost : [AskTotals(p) EXCEPT !.est = est] \in Process
                          /\ [At(p, "calling") EXCEPT !.est = est] \in Process
    BY AskType, AtType, LocalType DEF Places
  <2>2. proc' \in [Procs -> Process] BY <1>6, <2>1, IdleType DEF Preflight, Becomes
  <2> QED BY <1>6, <2>2 DEF Preflight, Ledger, Thread
<1>7. ASSUME NEW p \in Procs, ReadRunning(p) PROVE TypeOK'
  <2>1. proc[p].job \in Jobs BY DEF Process
  <2>2. /\ At(p, "daily") \in Process /\ rows[proc[p].job] \in Nat
        /\ (<<proc[p].job, proc[p].date>> \in refused) \in BOOLEAN
    BY <2>1, AtType DEF Places
  <2>3. [At(p, "daily") EXCEPT !.running = rows[proc[p].job],
                               !.late = <<proc[p].job, proc[p].date>> \in refused] \in Process
    BY <2>2, LocalType
  <2> QED BY <1>7, <2>3 DEF ReadRunning, Becomes, Ledger, Thread
<1>8. ASSUME NEW p \in Procs, ReadDaily(p) PROVE TypeOK'
  <2>1. [At(p, "refusing") EXCEPT !.capped = Decision(p) # "daily_cap"] \in Process
    BY AtType, LocalType DEF Places
  <2> QED BY <1>8, <2>1, AtType, IdleType DEF ReadDaily, Becomes, Ledger, Thread, Places
<1>9. ASSUME NEW p \in Procs, Generate(p) PROVE TypeOK'
  <2>1. 0 \in Cost BY CapsAssumption DEF Cost
  <2>2. proc' \in [Procs -> Process] BY <1>9, <2>1, CalledType DEF Generate, Becomes
  <2> QED BY <1>9, <2>2 DEF Generate, Ledger, Thread
<1>10. ASSUME NEW p \in Procs, RecordSuccess(p) PROVE TypeOK'
  <2>1. proc[p].cost \in Cost /\ proc[p].job \in Jobs BY DEF Process
  <2>2. rows' \in [Jobs -> Nat] /\ daily' \in [1..MaxDays -> Nat]
    BY <1>10, <2>1, RecordType DEF RecordSuccess
  <2>3. proc[p].cost \in Nat BY <2>1, CapsAssumption DEF Cost
  <2>4. charged' \in [Jobs -> Nat] BY <1>10, <2>1, <2>3 DEF RecordSuccess
  <2>5. reviewed' \in [1..MaxDays -> Nat] BY <1>10, <2>3 DEF RecordSuccess
  <2>6. proc' \in [Procs -> Process] BY <1>10, AtType DEF RecordSuccess, Becomes, Places
  <2> QED BY <1>10, <2>2, <2>4, <2>5, <2>6 DEF RecordSuccess, Thread
<1>11. ASSUME NEW p \in Procs, Refuse(p) PROVE TypeOK'
  <2>1. proc[p].est \in Cost /\ 0 \in Cost /\ proc[p].job \in Jobs
    BY CapsAssumption DEF Process, Cost
  <2>2. rows' \in [Jobs -> Nat] /\ daily' \in [1..MaxDays -> Nat]
    BY <1>11, <2>1, RecordType DEF Refuse, RecordExceeded
  <2>3. refused' \subseteq Refusals BY <1>11, <2>1 DEF Refuse, Refusals
  <2> QED BY <1>11, <2>2, <2>3, IdleType DEF Refuse, Becomes, Thread
<1>12. ASSUME NEW p \in Procs, Finish(p) PROVE TypeOK'
  BY <1>12, IdleType DEF Finish, Becomes, Ledger, Thread
<1>13. ASSUME NEW p \in Procs, ReadTurn(p) PROVE TypeOK'
  <2>1. [At(p, "counting") EXCEPT !.before = turns] \in Process BY AtType, LocalType DEF Places
  <2> QED BY <1>13, <2>1 DEF ReadTurn, Becomes, Ledger, Thread
<1>14. ASSUME NEW p \in Procs, AddTurn(p) PROVE TypeOK'
  BY <1>14, AtType, AskType, IdleType DEF AddTurn, Admit, Becomes, Ledger, Places
<1>15. ASSUME NEW p \in Procs, PostReply(p) PROVE TypeOK'
  BY <1>15, IdleType DEF PostReply, Becomes, Ledger
<1> QED BY <1>1, <1>2, <1>3, <1>4, <1>5, <1>6, <1>7, <1>8, <1>9, <1>10, <1>11, <1>12, <1>13,
           <1>14, <1>15 DEF Next

(* Every reachable state of the ledger, the thread and the processes that  *)
(* use them is well typed.                                                 *)
THEOREM TypeCorrect == Spec => []TypeOK
<1>1. ASSUME Init PROVE TypeOK
  <2> DEFINE Ready == {Task("review", j, FALSE, "idle") : j \in Jobs}
  <2>1. Ready \subseteq Process BY TaskType
  <2>2. proc \in [Procs -> Process]
    <3>1. proc \in [Procs -> Ready] BY <1>1 DEF Init
    <3> HIDE DEF Ready
    <3>2. \A p \in Procs : proc[p] \in Process BY <2>1, <3>1
    <3>3. proc = [p \in Procs |-> proc[p]] BY <3>1
    <3> QED BY <3>2, <3>3
  <2>3. rows \in [Jobs -> Nat] /\ charged \in [Jobs -> Nat] BY <1>1 DEF Init
  <2>4. daily \in [1..MaxDays -> Nat] /\ reviewed \in [1..MaxDays -> Nat] BY <1>1 DEF Init
  <2>5. /\ today \in 1..MaxDays /\ turns \in Nat /\ starts \in Nat
        /\ refused \subseteq Refusals /\ admitted \in Nat /\ replies \in Nat
    BY <1>1, BoundsAssumption DEF Init
  <2> QED BY <2>2, <2>3, <2>4, <2>5 DEF TypeOK
<1>2. TypeOK /\ [Next]_vars => TypeOK' BY TypeStep
<1> QED BY <1>1, <1>2, PTL DEF Spec

-----------------------------------------------------------------------------
(***************************************************************************)
(* A refusal lasts: the rows of a refused job exceed the cap, because the  *)
(* row of a refusal carries the estimate that was too much.                *)
(***************************************************************************)

\* What the totals a process has read say of its job and of its next step.
Sound(r, table) ==
    /\ r.running <= table[r.job]
    /\ r.late => r.wired /\ Cap > 0 /\ r.running > Cap
    /\ r.wired /\ Cap > 0 /\ r.pc \in {"calling", "recording", "posting"} =>
          r.running + r.est <= Cap
    /\ r.pc = "refusing" /\ r.capped => Cap > 0 /\ r.running + r.est > Cap
    /\ r.pc = "exceeded" => Cap > 0 /\ table[r.job] > Cap
    /\ ~r.wired => r.pc \notin {"totals", "daily", "refusing", "recording", "exceeded"}

RefusalInv ==
    /\ \A x \in refused : Cap > 0 /\ rows[x[1]] > Cap
    /\ \A p \in Procs : Sound(proc[p], rows)

\* A process without a task has read nothing.
LEMMA TaskSound ==
    ASSUME TypeOK, NEW task, NEW j \in Jobs, NEW wired \in BOOLEAN,
           NEW pc \in {"idle", "preflight", "turn"}
    PROVE  Sound(Task(task, j, wired, pc), rows)
<1>1. rows[j] \in Nat BY DEF TypeOK
<1> QED BY <1>1 DEF Sound, Task

\* Rows only grow, so what was read stays a lower bound.
LEMMA SoundGrows ==
    ASSUME TypeOK, TypeOK', \A j \in Jobs : rows[j] <= rows'[j],
           NEW r \in Process, Sound(r, rows)
    PROVE  Sound(r, rows')
<1>1. r.job \in Jobs /\ r.running \in Nat BY DEF Process
<1>2. rows[r.job] \in Nat /\ rows'[r.job] \in Nat /\ rows[r.job] <= rows'[r.job]
  BY <1>1 DEF TypeOK
<1> QED BY <1>1, <1>2, CapsAssumption DEF Sound

\* A step of one process that leaves the rows or adds to them.
LEMMA SoundStep ==
    ASSUME TypeOK, TypeOK', RefusalInv, NEW p \in Procs, NEW r, Becomes(p, r),
           \A j \in Jobs : rows[j] <= rows'[j], Sound(r, rows'),
           \A x \in refused' : x \in refused \/ (Cap > 0 /\ rows'[x[1]] > Cap)
    PROVE  RefusalInv'
<1>1. ASSUME NEW x \in refused' PROVE Cap > 0 /\ rows'[x[1]] > Cap
  <2>1. x[1] \in Jobs /\ rows[x[1]] \in Nat /\ rows'[x[1]] \in Nat BY DEF TypeOK, Refusals
  <2> QED BY <1>1, <2>1, CapsAssumption DEF RefusalInv
<1>2. ASSUME NEW q \in Procs PROVE Sound(proc'[q], rows')
  <2>1. CASE q = p
    <3>1. proc'[p] = r BY DEF Becomes, TypeOK
    <3> QED BY <2>1, <3>1
  <2>2. CASE q # p
    <3>1. proc'[q] = proc[q] /\ proc[q] \in Process BY <2>2 DEF Becomes, TypeOK
    <3>2. Sound(proc[q], rows) BY DEF RefusalInv
    <3> QED BY <3>1, <3>2, SoundGrows
  <2> QED BY <2>1, <2>2
<1> QED BY <1>1, <1>2 DEF RefusalInv

\* What the decision engine promises.
LEMMA DecisionSound ==
    ASSUME NEW running \in Nat, NEW est \in Nat, NEW d \in Nat, NEW dailyCap \in Nat
    PROVE  LET dec == decideCostAction(running, est, Cap, d, dailyCap) IN
           /\ ~Stops(dec) /\ Cap > 0 => running + est <= Cap
           /\ ~Stops(dec) /\ dailyCap > 0 => d < dailyCap
           /\ Stops(dec) /\ dec # "daily_cap" => Cap > 0 /\ running + est > Cap
<1>1. CASE dailyCap > 0 /\ d >= dailyCap
  BY <1>1 DEF decideCostAction, Stops
<1>2. CASE ~(dailyCap > 0 /\ d >= dailyCap)
  BY <1>2, CapsAssumption DEF decideCostAction, Stops
<1> QED BY <1>1, <1>2

LEMMA RefusalStep ==
    ASSUME TypeOK, TypeOK', RefusalInv, [Next]_vars
    PROVE  RefusalInv'
<1>1. CASE NewDay \/ Finished \/ UNCHANGED vars
  BY <1>1 DEF NewDay, Finished, vars, Ledger, RefusalInv
<1> DEFINE Same == rows' = rows /\ refused' = refused
<1>2. ASSUME NEW p \in Procs, NEW r, Becomes(p, r), Same, Sound(r, rows) PROVE RefusalInv'
  <2>1. \A j \in Jobs : rows[j] <= rows'[j] BY <1>2 DEF TypeOK
  <2> QED BY <1>2, <2>1, SoundStep
<1>3. ASSUME NEW p \in Procs
      PROVE  /\ proc[p] \in Process /\ proc[p].job \in Jobs /\ proc[p].running \in Nat
             /\ proc[p].est \in Nat /\ proc[p].cost \in Nat /\ rows[proc[p].job] \in Nat
             /\ proc[p].wired \in BOOLEAN
             /\ Sound(proc[p], rows) /\ Sound(Idle(p), rows)
  <2>1. proc[p] \in Process /\ Sound(proc[p], rows) BY DEF TypeOK, RefusalInv
  <2>2. /\ proc[p].job \in Jobs /\ proc[p].running \in Nat /\ proc[p].wired \in BOOLEAN
        /\ proc[p].est \in Nat /\ proc[p].cost \in Nat
    BY <2>1, CapsAssumption DEF Process, Cost
  <2>3. rows[proc[p].job] \in Nat BY <2>2 DEF TypeOK
  <2>4. Sound(Idle(p), rows) BY <2>2, TaskSound DEF Idle
  <2> QED BY <2>1, <2>2, <2>3, <2>4
<1>4. ASSUME NEW p \in Procs, Start(p) PROVE RefusalInv'
  <2>1. PICK r : Becomes(p, r) /\ Sound(r, rows) BY <1>4, TaskSound DEF Start
  <2> QED BY <1>2, <1>4, <2>1 DEF Start, Ledger
<1>5. ASSUME NEW p \in Procs, Throw(p) \/ Finish(p) \/ PostReply(p) PROVE RefusalInv'
  BY <1>2, <1>3, <1>5 DEF Throw, Finish, PostReply, Ledger
<1>6. ASSUME NEW p \in Procs, Preflight(p) PROVE RefusalInv'
  <2>1. ASSUME NEW est \in Cost, proc[p].wired
        PROVE  Sound([AskTotals(p) EXCEPT !.est = est], rows)
    BY <1>3, <2>1 DEF Sound, AskTotals, At, Process
  <2>2. ASSUME NEW est \in Cost, ~proc[p].wired
        PROVE  Sound([At(p, "calling") EXCEPT !.est = est], rows)
    BY <1>3, <2>2 DEF Sound, At, Process
  <2>3. PICK r : Becomes(p, r) /\ Sound(r, rows) BY <1>3, <1>6, <2>1, <2>2 DEF Preflight
  <2> QED BY <1>2, <1>6, <2>3 DEF Preflight, Ledger
<1>7. ASSUME NEW p \in Procs, ReadRunning(p) PROVE RefusalInv'
  <2> DEFINE r == [At(p, "daily") EXCEPT !.running = rows[proc[p].job],
                                         !.late = <<proc[p].job, proc[p].date>> \in refused]
  <2>1. /\ r.running = rows[proc[p].job] /\ r.job = proc[p].job /\ r.pc = "daily"
        /\ r.wired = proc[p].wired /\ r.late = (<<proc[p].job, proc[p].date>> \in refused)
    BY <1>3 DEF At, Process
  <2>2. proc[p].wired BY <1>3, <1>7 DEF ReadRunning, Sound
  <2>3. r.late => Cap > 0 /\ rows[proc[p].job] > Cap
    <3>1. <<proc[p].job, proc[p].date>>[1] = proc[p].job OBVIOUS
    <3> QED BY <2>1, <3>1 DEF RefusalInv
  <2>4. Becomes(p, r) /\ Same BY <1>7 DEF ReadRunning, Ledger
  <2> HIDE DEF r
  <2>5. Sound(r, rows) BY <1>3, <2>1, <2>2, <2>3 DEF Sound
  <2> QED BY <1>2, <2>4, <2>5
<1>8. ASSUME NEW p \in Procs, ReadDaily(p) PROVE RefusalInv'
  <2>1. daily[proc[p].date] \in Nat /\ (IF proc[p].task = "review" THEN DailyCap ELSE 0) \in Nat
    BY <1>3, CapsAssumption DEF TypeOK, Process
  <2>2. /\ ~Stops(Decision(p)) /\ Cap > 0 => proc[p].running + proc[p].est <= Cap
        /\ Stops(Decision(p)) /\ Decision(p) # "daily_cap" =>
              Cap > 0 /\ proc[p].running + proc[p].est > Cap
    BY <1>3, <2>1, DecisionSound DEF Decision
  <2>3. proc[p].wired BY <1>3, <1>8 DEF ReadDaily, Sound
  <2>4. ~Stops(Decision(p)) => Sound(At(p, "calling"), rows)
    BY <1>3, <2>2, <2>3 DEF Sound, At, Process
  <2>5. Stops(Decision(p)) =>
          Sound([At(p, "refusing") EXCEPT !.capped = Decision(p) # "daily_cap"], rows)
    BY <1>3, <2>2, <2>3 DEF Sound, At, Process
  <2>6. PICK r : Becomes(p, r) /\ Sound(r, rows) BY <1>3, <1>8, <2>4, <2>5 DEF ReadDaily
  <2> QED BY <1>2, <1>8, <2>6 DEF ReadDaily, Ledger
<1>9. ASSUME NEW p \in Procs, Generate(p) PROVE RefusalInv'
  <2>1. proc[p].pc = "calling" BY <1>9 DEF Generate
  <2>2. ASSUME NEW c \in Cost PROVE Sound(Called(p, c), rows)
    BY <1>3, <2>1 DEF Called, Sound, At, Process
  <2>3. Sound(Revalidate(p), rows) BY <1>3, <2>1 DEF Revalidate, Sound, Process
  <2>4. PICK r : Becomes(p, r) /\ Sound(r, rows) BY <1>9, <2>2, <2>3 DEF Generate
  <2> QED BY <1>2, <1>9, <2>4 DEF Generate, Ledger
<1>10. ASSUME NEW p \in Procs, RecordSuccess(p) PROVE RefusalInv'
  <2>1. proc[p].cost \in Cost /\ proc[p].pc = "recording" BY <1>3, <1>10 DEF Process, RecordSuccess
  <2>2. /\ \A j \in Jobs : rows[j] <= rows'[j]
        /\ rows'[proc[p].job] = rows[proc[p].job] + proc[p].cost
    BY <1>10, <2>1, RecordType DEF RecordSuccess
  <2>3. proc[p].running <= rows[proc[p].job] /\ rows'[proc[p].job] \in Nat
    BY <1>3 DEF Sound, TypeOK
  <2>4. ASSUME NEW pc \in {"posting", "finishing"} PROVE Sound(At(p, pc), rows')
    BY <1>3, <2>1, <2>2, <2>3 DEF Sound, At, Process
  <2>5. Cap > 0 /\ proc[p].running + proc[p].cost > Cap => Sound(At(p, "exceeded"), rows')
    BY <1>3, <2>1, <2>2, <2>3, CapsAssumption DEF Sound, At, Process
  <2>6. PICK r : Becomes(p, r) /\ Sound(r, rows') BY <1>10, <2>4, <2>5 DEF RecordSuccess
  <2>7. refused' = refused BY <1>10 DEF RecordSuccess
  <2> QED BY <2>2, <2>6, <2>7, SoundStep
<1>11. ASSUME NEW p \in Procs, Refuse(p) PROVE RefusalInv'
  <2>1. PICK c \in Cost : Record(p, c) /\ (proc[p].pc = "refusing" => c = proc[p].est)
    BY <1>3, <1>11, CapsAssumption DEF Refuse, RecordExceeded, Process, Cost
  <2>2. /\ \A j \in Jobs : rows[j] <= rows'[j]
        /\ rows'[proc[p].job] = rows[proc[p].job] + c
    BY <2>1, RecordType
  <2>3. rows'[proc[p].job] \in Nat /\ c \in Nat BY <1>3, CapsAssumption DEF TypeOK, Cost
  <2>4. \A x \in refused' : x \in refused \/ (Cap > 0 /\ rows'[x[1]] > Cap)
    BY <1>3, <1>11, <2>1, <2>2, <2>3, CapsAssumption DEF Refuse, Sound
  <2>5. Sound(Idle(p), rows') BY <1>3, <2>2, SoundGrows, IdleType
  <2> QED BY <1>11, <2>2, <2>4, <2>5, SoundStep DEF Refuse
<1>12. ASSUME NEW p \in Procs, ReadTurn(p) PROVE RefusalInv'
  <2>1. Sound([At(p, "counting") EXCEPT !.before = turns], rows)
    BY <1>3 DEF Sound, At, Process
  <2> QED BY <1>2, <1>12, <2>1 DEF ReadTurn, Ledger
<1>13. ASSUME NEW p \in Procs, AddTurn(p) PROVE RefusalInv'
  <2>1. Sound(At(p, "noting"), rows) /\ Sound(Admit(p), rows)
    BY <1>3 DEF Sound, Admit, AskTotals, At, Process
  <2>2. PICK r : Becomes(p, r) /\ Sound(r, rows) BY <1>3, <1>13, <2>1 DEF AddTurn
  <2> QED BY <1>2, <1>13, <2>2 DEF AddTurn, Ledger
<1> QED BY <1>1, <1>4, <1>5, <1>6, <1>7, <1>8, <1>9, <1>10, <1>11, <1>12, <1>13 DEF Next

LEMMA RefusalInvariant == Spec => []RefusalInv
<1>1. ASSUME Init, TypeOK PROVE RefusalInv
  <2>1. \A p \in Procs : \E j \in Jobs : proc[p] = Task("review", j, FALSE, "idle")
    BY <1>1 DEF Init
  <2> QED BY <1>1, <2>1, TaskSound DEF RefusalInv, Init
<1>2. TypeOK /\ TypeOK' /\ RefusalInv /\ [Next]_vars => RefusalInv' BY RefusalStep
<1> QED BY <1>1, <1>2, TypeCorrect, PTL DEF Spec

(* Once a job was refused for the per-PR cap, nothing that asks for the    *)
(* totals of that day and reads the ledger afterwards calls the model for  *)
(* it, whatever its estimate.                                              *)
THEOREM RefusalHoldsForTheDay == Spec => []RefusedForTheDay
<1>1. ASSUME TypeOK, RefusalInv PROVE RefusedForTheDay
  <2>1. ASSUME NEW p \in Procs, proc[p].pc \in {"calling", "recording", "posting"}
        PROVE  ~proc[p].late
    <3>1. Sound(proc[p], rows) /\ proc[p].running \in Nat /\ proc[p].est \in Nat
      BY <1>1, CapsAssumption DEF RefusalInv, TypeOK, Process, Cost
    <3> QED BY <2>1, <3>1, CapsAssumption DEF Sound
  <2> QED BY <2>1 DEF RefusedForTheDay
<1> QED BY <1>1, RefusalInvariant, TypeCorrect, PTL

-----------------------------------------------------------------------------
(***************************************************************************)
(* The overshoots are bounded by the processes that are between a check    *)
(* and the write it allows, so the invariants count those processes.       *)
(***************************************************************************)

\* The size of a set that changes at one process only.
LEMMA CountStep ==
    ASSUME NEW S \in SUBSET Procs, NEW T \in SUBSET Procs, NEW p \in Procs,
           \A q \in Procs : q # p => (q \in S <=> q \in T)
    PROVE  /\ Cardinality(S) \in Nat /\ Cardinality(T) \in Nat
           /\ (p \in S <=> p \in T) => Cardinality(T) = Cardinality(S)
           /\ p \in T /\ p \notin S => Cardinality(T) = Cardinality(S) + 1
           /\ p \in S /\ p \notin T => Cardinality(S) = Cardinality(T) + 1
<1>1. IsFiniteSet(S) /\ IsFiniteSet(T) BY ProcsAssumption, FS_Subset
<1>2. Cardinality(S) \in Nat /\ Cardinality(T) \in Nat BY <1>1, FS_CardinalityType
<1>3. CASE p \in S <=> p \in T
  <2>1. S = T BY <1>3
  <2> QED BY <1>2, <1>3, <2>1
<1>4. CASE p \in T /\ p \notin S
  <2>1. T = S \cup {p} BY <1>4
  <2> QED BY <1>1, <1>2, <1>4, <2>1, FS_AddElement
<1>5. CASE p \in S /\ p \notin T
  <2>1. S = T \cup {p} BY <1>5
  <2> QED BY <1>1, <1>2, <1>5, <2>1, FS_AddElement
<1> QED BY <1>2, <1>3, <1>4, <1>5

LEMMA CountBound ==
    ASSUME NEW S \in SUBSET Procs
    PROVE  /\ Cardinality(S) \in Nat /\ Cardinality(Procs) \in Nat
           /\ Cardinality(S) <= Cardinality(Procs)
BY ProcsAssumption, FS_Subset, FS_CardinalityType

LEMMA NobodyCounts == Cardinality({}) = 0
BY FS_EmptySet

\* Replies that were admitted and not yet posted; turns that will be admitted.
Answers(r) ==
    r.task = "reply" /\ r.pc \in {"totals", "daily", "calling", "recording", "posting"}
Pends(r) == r.pc = "counting" /\ r.before < MaxTurns
Answering == {q \in Procs : Answers(proc[q])}
Pending == {q \in Procs : Pends(proc[q])}

\* Only a reply takes a turn and posts, only a review has a preflight.
Role(r) ==
    /\ r.pc \in {"turn", "counting", "posting"} => r.task = "reply"
    /\ r.pc = "preflight" => r.task = "review"

TurnInv ==
    /\ \A p \in Procs : Role(proc[p])
    /\ admitted <= turns
    /\ replies + Cardinality(Answering) <= admitted
    /\ admitted + Cardinality(Pending) < MaxTurns + Cardinality(Procs)

LEMMA TurnProcs ==
    ASSUME TypeOK, NEW p \in Procs, NEW r, Becomes(p, r)
    PROVE  /\ proc'[p] = r
           /\ \A q \in Procs : q # p => proc'[q] = proc[q]
           /\ Cardinality(Answering) \in Nat /\ Cardinality(Answering') \in Nat
           /\ (Answers(r) <=> Answers(proc[p])) => Cardinality(Answering') = Cardinality(Answering)
           /\ Answers(r) /\ ~Answers(proc[p]) =>
                 Cardinality(Answering') = Cardinality(Answering) + 1
           /\ ~Answers(r) /\ Answers(proc[p]) =>
                 Cardinality(Answering) = Cardinality(Answering') + 1
           /\ Cardinality(Pending) \in Nat /\ Cardinality(Pending') \in Nat
           /\ (Pends(r) <=> Pends(proc[p])) => Cardinality(Pending') = Cardinality(Pending)
           /\ Pends(r) /\ ~Pends(proc[p]) => Cardinality(Pending') = Cardinality(Pending) + 1
           /\ ~Pends(r) /\ Pends(proc[p]) => Cardinality(Pending) = Cardinality(Pending') + 1
<1>1. proc'[p] = r /\ \A q \in Procs : q # p => proc'[q] = proc[q] BY DEF Becomes, TypeOK
<1>2. /\ Answering' = {q \in Procs : Answers(proc'[q])}
      /\ Pending' = {q \in Procs : Pends(proc'[q])}
  BY DEF Answering, Pending, Answers, Pends
<1>3. /\ Answering \in SUBSET Procs /\ Answering' \in SUBSET Procs
      /\ \A q \in Procs : q # p => (q \in Answering <=> q \in Answering')
      /\ p \in Answering <=> Answers(proc[p])
      /\ p \in Answering' <=> Answers(r)
  BY <1>1, <1>2 DEF Answering
<1>4. /\ Pending \in SUBSET Procs /\ Pending' \in SUBSET Procs
      /\ \A q \in Procs : q # p => (q \in Pending <=> q \in Pending')
      /\ p \in Pending <=> Pends(proc[p])
      /\ p \in Pending' <=> Pends(r)
  BY <1>1, <1>2 DEF Pending
<1>5. /\ Cardinality(Answering) \in Nat /\ Cardinality(Answering') \in Nat
      /\ (Answers(r) <=> Answers(proc[p])) => Cardinality(Answering') = Cardinality(Answering)
      /\ Answers(r) /\ ~Answers(proc[p]) => Cardinality(Answering') = Cardinality(Answering) + 1
      /\ ~Answers(r) /\ Answers(proc[p]) => Cardinality(Answering) = Cardinality(Answering') + 1
  BY <1>3, CountStep
<1>6. /\ Cardinality(Pending) \in Nat /\ Cardinality(Pending') \in Nat
      /\ (Pends(r) <=> Pends(proc[p])) => Cardinality(Pending') = Cardinality(Pending)
      /\ Pends(r) /\ ~Pends(proc[p]) => Cardinality(Pending') = Cardinality(Pending) + 1
      /\ ~Pends(r) /\ Pends(proc[p]) => Cardinality(Pending) = Cardinality(Pending') + 1
  BY <1>4, CountStep
<1> QED BY <1>1, <1>5, <1>6

\* A step that neither counts a turn nor posts, and makes no new answer.
LEMMA TurnQuiet ==
    ASSUME TypeOK, TypeOK', TurnInv, NEW p \in Procs, NEW r, Becomes(p, r), Role(r),
           UNCHANGED <<turns, admitted, replies>>, ~Pends(r), Answers(r) => Answers(proc[p])
    PROVE  TurnInv'
<1>1. \A q \in Procs : Role(proc'[q]) BY TurnProcs DEF TurnInv
<1>2. /\ Cardinality(Answering') <= Cardinality(Answering)
      /\ Cardinality(Pending') <= Cardinality(Pending)
  BY TurnProcs
<1>3. /\ Cardinality(Procs) \in Nat /\ MaxTurns \in Nat /\ replies \in Nat /\ admitted \in Nat
      /\ turns \in Nat
  BY CountBound, CapsAssumption DEF TypeOK
<1>4. /\ Cardinality(Answering) \in Nat /\ Cardinality(Answering') \in Nat
      /\ Cardinality(Pending) \in Nat /\ Cardinality(Pending') \in Nat
  BY TurnProcs
<1>5. /\ admitted' <= turns'
      /\ replies' + Cardinality(Answering') <= admitted'
      /\ admitted' + Cardinality(Pending') < MaxTurns + Cardinality(Procs)
  BY <1>2, <1>3, <1>4 DEF TurnInv
<1> QED BY <1>1, <1>5 DEF TurnInv, Role

LEMMA TurnStep ==
    ASSUME TypeOK, TypeOK', TurnInv, [Next]_vars
    PROVE  TurnInv'
<1>1. CASE NewDay \/ Finished \/ UNCHANGED vars
  BY <1>1 DEF NewDay, Finished, vars, Thread, TurnInv, Answering, Pending
<1>2. ASSUME NEW p \in Procs
      PROVE  /\ proc[p] \in Process /\ Role(proc[p])
             /\ Role(Idle(p)) /\ ~Pends(Idle(p)) /\ ~Answers(Idle(p))
  BY DEF TypeOK, TurnInv, Role, Idle, Task, Pends, Answers
<1>3. ASSUME NEW p \in Procs, Start(p) PROVE TurnInv'
  <2>1. PICK r : Becomes(p, r) /\ Role(r) /\ ~Pends(r) /\ ~Answers(r)
    BY <1>3 DEF Start, Task, Role, Pends, Answers
  <2> QED BY <1>3, <2>1, TurnQuiet DEF Start, Thread
<1>4. ASSUME NEW p \in Procs, Throw(p) \/ Finish(p) \/ Refuse(p) PROVE TurnInv'
  BY <1>2, <1>4, TurnQuiet DEF Throw, Finish, Refuse, Thread
<1>5. ASSUME NEW p \in Procs, Preflight(p) PROVE TurnInv'
  <2>1. proc[p].task = "review" BY <1>2, <1>5 DEF Preflight, Role
  <2>2. \A est \in Cost : LET r == [AskTotals(p) EXCEPT !.est = est] IN
           Role(r) /\ ~Pends(r) /\ ~Answers(r)
    BY <1>2, <2>1 DEF AskTotals, At, Role, Pends, Answers, Process
  <2>3. \A est \in Cost : LET r == [At(p, "calling") EXCEPT !.est = est] IN
           Role(r) /\ ~Pends(r) /\ ~Answers(r)
    BY <1>2, <2>1 DEF At, Role, Pends, Answers, Process
  <2>4. PICK r : Becomes(p, r) /\ Role(r) /\ ~Pends(r) /\ ~Answers(r)
    BY <1>2, <1>5, <2>2, <2>3 DEF Preflight
  <2> QED BY <1>5, <2>4, TurnQuiet DEF Preflight, Thread
<1>6. ASSUME NEW p \in Procs, ReadRunning(p) PROVE TurnInv'
  <2> DEFINE r == [At(p, "daily") EXCEPT !.running = rows[proc[p].job],
                                         !.late = <<proc[p].job, proc[p].date>> \in refused]
  <2>1. Becomes(p, r) /\ proc[p].pc = "totals" BY <1>6 DEF ReadRunning
  <2>2. r.pc = "daily" /\ r.task = proc[p].task BY <1>2 DEF At, Process
  <2> HIDE DEF r
  <2>3. Role(r) /\ ~Pends(r) /\ (Answers(r) => Answers(proc[p]))
    BY <2>1, <2>2 DEF Role, Pends, Answers
  <2> QED BY <1>6, <2>1, <2>3, TurnQuiet DEF ReadRunning, Thread
<1>7. ASSUME NEW p \in Procs, ReadDaily(p) PROVE TurnInv'
  <2>1. proc[p].pc = "daily" BY <1>7 DEF ReadDaily
  <2>2. /\ Role(At(p, "calling")) /\ ~Pends(At(p, "calling"))
        /\ Answers(At(p, "calling")) => Answers(proc[p])
    BY <1>2, <2>1 DEF At, Role, Pends, Answers, Process
  <2>3. \A b \in BOOLEAN : LET r == [At(p, "refusing") EXCEPT !.capped = b] IN
           Role(r) /\ ~Pends(r) /\ ~Answers(r)
    BY <1>2 DEF At, Role, Pends, Answers, Process
  <2>4. PICK r : Becomes(p, r) /\ Role(r) /\ ~Pends(r) /\ (Answers(r) => Answers(proc[p]))
    BY <1>2, <1>7, <2>2, <2>3 DEF ReadDaily
  <2> QED BY <1>7, <2>4, TurnQuiet DEF ReadDaily, Thread
<1>8. ASSUME NEW p \in Procs, Generate(p) PROVE TurnInv'
  <2>1. proc[p].pc = "calling" BY <1>8 DEF Generate
  <2>2. \A c \in Cost : LET r == Called(p, c) IN
           Role(r) /\ ~Pends(r) /\ (Answers(r) => Answers(proc[p]))
    BY <1>2, <2>1 DEF Called, At, Role, Pends, Answers, Process
  <2>3. LET r == Revalidate(p) IN Role(r) /\ ~Pends(r) /\ (Answers(r) => Answers(proc[p]))
    BY <1>2, <2>1 DEF Revalidate, Role, Pends, Answers, Process
  <2>4. PICK r : Becomes(p, r) /\ Role(r) /\ ~Pends(r) /\ (Answers(r) => Answers(proc[p]))
    BY <1>8, <2>2, <2>3 DEF Generate
  <2> QED BY <1>8, <2>4, TurnQuiet DEF Generate, Thread
<1>9. ASSUME NEW p \in Procs, RecordSuccess(p) PROVE TurnInv'
  <2>1. proc[p].pc = "recording" BY <1>9 DEF RecordSuccess
  <2>2. proc[p].task = "reply" => LET r == At(p, "posting") IN
           Role(r) /\ ~Pends(r) /\ (Answers(r) => Answers(proc[p]))
    BY <1>2, <2>1 DEF At, Role, Pends, Answers, Process
  <2>3. \A pc \in {"exceeded", "finishing"} :
           LET r == At(p, pc) IN Role(r) /\ ~Pends(r) /\ ~Answers(r)
    BY <1>2 DEF At, Role, Pends, Answers, Process
  <2>4. PICK r : Becomes(p, r) /\ Role(r) /\ ~Pends(r) /\ (Answers(r) => Answers(proc[p]))
    BY <1>9, <2>2, <2>3 DEF RecordSuccess
  <2> QED BY <1>9, <2>4, TurnQuiet DEF RecordSuccess, Thread
<1>10. ASSUME NEW p \in Procs PROVE
         /\ Cardinality(Procs) \in Nat /\ MaxTurns \in Nat /\ replies \in Nat /\ admitted \in Nat
         /\ turns \in Nat /\ proc[p].before \in Nat
         /\ Cardinality(Answering) \in Nat /\ Cardinality(Pending) \in Nat
         /\ Pending' \in SUBSET Procs
  BY <1>2, CountBound, CapsAssumption DEF TypeOK, Process, Answering, Pending
<1>11. ASSUME NEW p \in Procs, ReadTurn(p) PROVE TurnInv'
  <2> DEFINE r == [At(p, "counting") EXCEPT !.before = turns]
  <2>1. Becomes(p, r) /\ UNCHANGED <<turns, admitted, replies>> BY <1>11 DEF ReadTurn, Thread
  <2>2. /\ Role(r) /\ ~Answers(r) /\ ~Answers(proc[p])
        /\ Pends(r) <=> turns < MaxTurns
        /\ ~Pends(proc[p])
    BY <1>2, <1>11 DEF ReadTurn, At, Role, Answers, Pends, Process
  <2> HIDE DEF r
  <2>3. /\ \A q \in Procs : Role(proc'[q])
        /\ Cardinality(Answering') = Cardinality(Answering)
        /\ turns >= MaxTurns => Cardinality(Pending') = Cardinality(Pending)
    BY <1>10, <2>1, <2>2, TurnProcs DEF TurnInv
  <2>4. Cardinality(Pending') \in Nat /\ Cardinality(Pending') <= Cardinality(Procs)
    BY <1>10, CountBound
  <2>5. admitted + Cardinality(Pending') < MaxTurns + Cardinality(Procs)
    BY <1>10, <2>3, <2>4 DEF TurnInv
  <2> QED BY <1>10, <2>1, <2>3, <2>5 DEF TurnInv, Role
<1>12. ASSUME NEW p \in Procs, AddTurn(p) PROVE TurnInv'
  <2>1. /\ Role(Admit(p)) /\ ~Pends(Admit(p))
        /\ Role(At(p, "noting")) /\ ~Pends(At(p, "noting")) /\ ~Answers(At(p, "noting"))
    BY <1>2, <1>12 DEF Admit, AskTotals, At, Role, Answers, Pends, Process
  <2>2. PICK r : /\ Becomes(p, r) /\ Role(r) /\ ~Pends(r)
                 /\ Answers(r) => Within(p)
    BY <1>2, <1>12, <2>1 DEF AddTurn
  <2>3. ~Answers(proc[p]) /\ (Pends(proc[p]) <=> Within(p))
    BY <1>10, <1>12 DEF AddTurn, Answers, Pends, Within
  <2>4. /\ turns' = turns + 1 /\ replies' = replies
        /\ admitted' = IF Within(p) THEN admitted + 1 ELSE admitted
    BY <1>12 DEF AddTurn
  <2>5. /\ \A q \in Procs : Role(proc'[q])
        /\ Cardinality(Answering') \in Nat /\ Cardinality(Pending') \in Nat
        /\ Within(p) => /\ Cardinality(Answering') <= Cardinality(Answering) + 1
                        /\ Cardinality(Pending) = Cardinality(Pending') + 1
        /\ ~Within(p) => /\ Cardinality(Answering') = Cardinality(Answering)
                         /\ Cardinality(Pending') = Cardinality(Pending)
    BY <1>10, <2>2, <2>3, TurnProcs DEF TurnInv
  <2>6. /\ admitted' <= turns'
        /\ replies' + Cardinality(Answering') <= admitted'
        /\ admitted' + Cardinality(Pending') < MaxTurns + Cardinality(Procs)
    BY <1>10, <2>4, <2>5 DEF TurnInv
  <2> QED BY <2>5, <2>6 DEF TurnInv, Role
<1>13. ASSUME NEW p \in Procs, PostReply(p) PROVE TurnInv'
  <2>1. Becomes(p, Idle(p)) /\ turns' = turns /\ admitted' = admitted BY <1>13 DEF PostReply
  <2>2. /\ proc[p].pc = "posting" => Answers(proc[p])
        /\ proc[p].pc # "posting" => ~Answers(proc[p])
        /\ ~Pends(proc[p])
    BY <1>2, <1>13 DEF PostReply, Answers, Pends, Role
  <2>3. /\ \A q \in Procs : Role(proc'[q])
        /\ Cardinality(Answering') \in Nat /\ Cardinality(Pending') = Cardinality(Pending)
        /\ proc[p].pc = "posting" => Cardinality(Answering) = Cardinality(Answering') + 1
        /\ proc[p].pc # "posting" => Cardinality(Answering') = Cardinality(Answering)
    BY <1>2, <2>1, <2>2, TurnProcs DEF TurnInv
  <2>4. replies' = (IF proc[p].pc = "posting" THEN replies + 1 ELSE replies) BY <1>13 DEF PostReply
  <2>5. replies' + Cardinality(Answering') <= admitted BY <1>10, <2>3, <2>4 DEF TurnInv
  <2> QED BY <2>1, <2>3, <2>5 DEF TurnInv, Role
<1> QED BY <1>1, <1>3, <1>4, <1>5, <1>6, <1>7, <1>8, <1>9, <1>11, <1>12, <1>13 DEF Next

LEMMA TurnInvariant == Spec => []TurnInv
<1>1. ASSUME Init PROVE TurnInv
  <2>1. \A p \in Procs : proc[p].pc = "idle" /\ Role(proc[p]) BY <1>1 DEF Init, Task, Role
  <2>2. Answering = {} /\ Pending = {} BY <2>1 DEF Answering, Answers, Pending, Pends
  <2>3. Cardinality(Procs) \in Nat /\ MaxTurns \in Nat \ {0} BY CountBound, CapsAssumption
  <2> QED BY <1>1, <2>1, <2>2, <2>3, NobodyCounts DEF TurnInv, Init
<1>2. TypeOK /\ TypeOK' /\ TurnInv /\ [Next]_vars => TurnInv' BY TurnStep
<1> QED BY <1>1, <1>2, TypeCorrect, PTL DEF Spec

(* However the handlers of a thread race between the read and the write of *)
(* its turn count, the replies stay below the limit plus the handlers.     *)
THEOREM TurnsAreBounded == Spec => []TurnOvershootBounded
<1>1. ASSUME TypeOK, TurnInv PROVE TurnOvershootBounded
  <2>1. /\ Cardinality(Answering) \in Nat /\ Cardinality(Pending) \in Nat
        /\ Cardinality(Procs) \in Nat
    BY CountBound DEF Answering, Pending
  <2> QED BY <1>1, <2>1, CapsAssumption DEF TurnInv, TypeOK, TurnOvershootBounded
<1> QED BY <1>1, TurnInvariant, TypeCorrect, PTL

-----------------------------------------------------------------------------
(***************************************************************************)
(* The two caps: what a job or a day was charged, and what the calls that  *)
(* passed the check may still add to it.                                   *)
(***************************************************************************)

\* Calls whose total of the job was read below the cap; reviews that passed the
\* daily cap, or that will be checked against the total of another day.
Flies(r, j) ==
    r.wired /\ r.job = j /\ r.running <= Cap /\ r.pc \in {"daily", "calling", "recording"}
Spends(r, day) ==
    /\ r.wired /\ r.task = "review"
    /\ r.pc \in {"calling", "recording"} \/ (r.pc \in {"totals", "daily"} /\ r.date # day)
Flying(table, j) == MaxCost * Cardinality({q \in Procs : Flies(table[q], j)})
Spending(table, day) == MaxCost * Cardinality({q \in Procs : Spends(table[q], day)})
Slack == MaxCost * Cardinality(Procs)

\* What a call may cost leaves with the process that made it.
LEMMA WorthStep ==
    ASSUME NEW S \in SUBSET Procs, NEW T \in SUBSET Procs, NEW p \in Procs,
           \A q \in Procs : q # p => (q \in S <=> q \in T)
    PROVE  LET s == MaxCost * Cardinality(S)
               t == MaxCost * Cardinality(T) IN
           /\ s \in Nat /\ t \in Nat /\ Slack \in Nat /\ s <= Slack /\ t <= Slack
           /\ (p \in T => p \in S) => t <= s
           /\ p \in S /\ p \notin T => t + MaxCost = s
<1> DEFINE cs == Cardinality(S)
           ct == Cardinality(T)
           cp == Cardinality(Procs)
<1>1. cs \in Nat /\ ct \in Nat /\ cp \in Nat /\ cs <= cp /\ ct <= cp BY CountBound
<1>2. (p \in T => p \in S) => ct <= cs BY <1>1, CountStep
<1>3. p \in S /\ p \notin T => ct = cs - 1 BY <1>1, CountStep
<1> HIDE DEF cs, ct, cp
<1>4. MaxCost * cs \in Nat /\ MaxCost * ct \in Nat /\ MaxCost * cp \in Nat
  BY <1>1, CapsAssumption, TimesMonotone
<1>5. MaxCost * cs <= MaxCost * cp /\ MaxCost * ct <= MaxCost * cp
  BY <1>1, CapsAssumption, TimesMonotone
<1>6. (p \in T => p \in S) => MaxCost * ct <= MaxCost * cs
  BY <1>1, <1>2, CapsAssumption, TimesMonotone
<1>7. p \in S /\ p \notin T => MaxCost * ct + MaxCost = MaxCost * cs
  BY <1>1, <1>3, CapsAssumption, TimesLess
<1> QED BY <1>4, <1>5, <1>6, <1>7 DEF cs, ct, cp, Slack

\* How the step of one process to r changes the two sums.
LEMMA WorthProcs ==
    ASSUME TypeOK, NEW p \in Procs, NEW r, Becomes(p, r)
    PROVE  /\ proc'[p] = r /\ \A q \in Procs : q # p => proc'[q] = proc[q]
           /\ Slack \in Nat /\ Spending(proc, today) \in Nat /\ Spending(proc', today) \in Nat
           /\ Spending(proc, today) <= Slack /\ Spending(proc', today) <= Slack
           /\ (Spends(r, today) => Spends(proc[p], today)) =>
                 Spending(proc', today) <= Spending(proc, today)
           /\ Spends(proc[p], today) /\ ~Spends(r, today) =>
                 Spending(proc', today) + MaxCost = Spending(proc, today)
           /\ \A j \in Jobs :
                /\ Flying(proc, j) \in Nat /\ Flying(proc', j) \in Nat
                /\ Flying(proc', j) <= Slack
                /\ (Flies(r, j) => Flies(proc[p], j)) => Flying(proc', j) <= Flying(proc, j)
                /\ Flies(proc[p], j) /\ ~Flies(r, j) =>
                      Flying(proc', j) + MaxCost = Flying(proc, j)
<1>1. proc'[p] = r /\ \A q \in Procs : q # p => proc'[q] = proc[q] BY DEF Becomes, TypeOK
<1>2. /\ Slack \in Nat /\ Spending(proc, today) \in Nat /\ Spending(proc', today) \in Nat
      /\ Spending(proc, today) <= Slack /\ Spending(proc', today) <= Slack
      /\ (Spends(r, today) => Spends(proc[p], today)) =>
            Spending(proc', today) <= Spending(proc, today)
      /\ Spends(proc[p], today) /\ ~Spends(r, today) =>
            Spending(proc', today) + MaxCost = Spending(proc, today)
  <2> DEFINE S == {q \in Procs : Spends(proc[q], today)}
             T == {q \in Procs : Spends(proc'[q], today)}
  <2>1. /\ S \in SUBSET Procs /\ T \in SUBSET Procs
        /\ \A q \in Procs : q # p => (q \in S <=> q \in T)
        /\ p \in S <=> Spends(proc[p], today)
        /\ p \in T <=> Spends(r, today)
    BY <1>1
  <2>2. Spending(proc, today) = MaxCost * Cardinality(S) /\ Spending(proc', today) = MaxCost * Cardinality(T)
    BY DEF Spending
  <2> HIDE DEF S, T
  <2> QED BY <2>1, <2>2, WorthStep
<1>3. ASSUME NEW j \in Jobs
      PROVE  /\ Flying(proc, j) \in Nat /\ Flying(proc', j) \in Nat
             /\ Flying(proc', j) <= Slack
             /\ (Flies(r, j) => Flies(proc[p], j)) => Flying(proc', j) <= Flying(proc, j)
             /\ Flies(proc[p], j) /\ ~Flies(r, j) =>
                   Flying(proc', j) + MaxCost = Flying(proc, j)
  <2> DEFINE S == {q \in Procs : Flies(proc[q], j)}
             T == {q \in Procs : Flies(proc'[q], j)}
  <2>1. /\ S \in SUBSET Procs /\ T \in SUBSET Procs
        /\ \A q \in Procs : q # p => (q \in S <=> q \in T)
        /\ p \in S <=> Flies(proc[p], j)
        /\ p \in T <=> Flies(r, j)
    BY <1>1
  <2>2. Flying(proc, j) = MaxCost * Cardinality(S) /\ Flying(proc', j) = MaxCost * Cardinality(T)
    BY DEF Flying
  <2> HIDE DEF S, T
  <2> QED BY <2>1, <2>2, WorthStep
<1> QED BY <1>1, <1>2, <1>3

CapInv ==
    /\ \A j \in Jobs :
         /\ charged[j] <= rows[j]
         /\ Cap > 0 => charged[j] + Flying(proc, j) <= Cap + Slack
    /\ \A d \in 1..MaxDays :
         /\ reviewed[d] <= daily[d]
         /\ d > today => reviewed[d] = 0
         /\ DailyCap > 0 => reviewed[d] < DailyCap + Slack
    /\ DailyCap > 0 => reviewed[today] + Spending(proc, today) < DailyCap + Slack

\* A step that charges nothing and lets no new call past a check.
LEMMA CapQuiet ==
    ASSUME TypeOK, TypeOK', CapInv, NEW p \in Procs, NEW r, Becomes(p, r),
           UNCHANGED <<charged, reviewed, today>>,
           \A j \in Jobs : rows[j] <= rows'[j],
           \A d \in 1..MaxDays : daily[d] <= daily'[d],
           Cap > 0 => \A j \in Jobs : Flies(r, j) => Flies(proc[p], j),
           Spends(r, today) => Spends(proc[p], today)
    PROVE  CapInv'
<1>1. ASSUME NEW j \in Jobs
      PROVE  /\ charged'[j] <= rows'[j]
             /\ Cap > 0 => charged'[j] + Flying(proc', j) <= Cap + Slack
  <2>1. charged[j] \in Nat /\ rows[j] \in Nat /\ rows'[j] \in Nat BY DEF TypeOK
  <2>2. /\ Slack \in Nat /\ Flying(proc, j) \in Nat /\ Flying(proc', j) \in Nat
        /\ Cap > 0 => Flying(proc', j) <= Flying(proc, j)
    BY WorthProcs
  <2> QED BY <2>1, <2>2, CapsAssumption DEF CapInv
<1>2. ASSUME NEW d \in 1..MaxDays
      PROVE  /\ reviewed'[d] <= daily'[d]
             /\ d > today' => reviewed'[d] = 0
             /\ DailyCap > 0 => reviewed'[d] < DailyCap + Slack
  <2>1. reviewed[d] \in Nat /\ daily[d] \in Nat /\ daily'[d] \in Nat BY DEF TypeOK
  <2> QED BY <2>1 DEF CapInv
<1>3. DailyCap > 0 => reviewed'[today'] + Spending(proc', today) < DailyCap + Slack
  <2>1. reviewed[today] \in Nat BY DEF TypeOK
  <2>2. /\ Slack \in Nat /\ Spending(proc, today) \in Nat /\ Spending(proc', today) \in Nat
        /\ Spending(proc', today) <= Spending(proc, today)
    BY WorthProcs
  <2> QED BY <2>1, <2>2, CapsAssumption DEF CapInv
<1> QED BY <1>1, <1>2, <1>3 DEF CapInv, Flying, Spending, Slack, Flies, Spends

LEMMA SameRows ==
    ASSUME TypeOK, UNCHANGED <<rows, daily>>
    PROVE  /\ \A j \in Jobs : rows[j] <= rows'[j]
           /\ \A d \in 1..MaxDays : daily[d] <= daily'[d]
<1>1. ASSUME NEW j \in Jobs PROVE rows[j] <= rows'[j]
  <2>1. rows[j] \in Nat BY DEF TypeOK
  <2> QED BY <2>1
<1>2. ASSUME NEW d \in 1..MaxDays PROVE daily[d] <= daily'[d]
  <2>1. daily[d] \in Nat BY DEF TypeOK
  <2> QED BY <2>1
<1> QED BY <1>1, <1>2

LEMMA SpendingType ==
    ASSUME NEW p \in Procs, NEW day
    PROVE  Slack \in Nat /\ Spending(proc, day) \in Nat /\ Spending(proc, day) <= Slack
<1> DEFINE S == {q \in Procs : Spends(proc[q], day)}
<1>1. S \in SUBSET Procs OBVIOUS
<1>2. Spending(proc, day) = MaxCost * Cardinality(S) BY DEF Spending
<1> HIDE DEF S
<1> QED BY <1>1, <1>2, WorthStep

LEMMA CapStep ==
    ASSUME TypeOK, TypeOK', RefusalInv, TurnInv, CapInv, [Next]_vars
    PROVE  CapInv'
<1>1. CASE Finished \/ UNCHANGED vars
  BY <1>1 DEF Finished, vars, CapInv, Flying, Spending
<1>2. CASE NewDay
  <2>1. PICK p : p \in Procs BY ProcsAssumption
  <2>2. today' = today + 1 /\ today \in 1..MaxDays /\ today' \in 1..MaxDays
    BY <1>2 DEF NewDay, TypeOK
  <2>3. Slack \in Nat /\ Spending(proc, today + 1) \in Nat /\ Spending(proc, today + 1) <= Slack
    BY <2>1, SpendingType
  <2>4. UNCHANGED <<rows, daily, charged, reviewed, proc>> BY <1>2 DEF NewDay, Ledger
  <2>5. \A d \in 1..MaxDays : d > today + 1 => d > today BY <2>2
  <2>6. reviewed[today + 1] = 0 BY <2>2 DEF CapInv
  <2>7. DailyCap > 0 => reviewed[today + 1] + Spending(proc, today + 1) < DailyCap + Slack
    BY <2>3, <2>6, CapsAssumption
  <2> QED BY <2>2, <2>4, <2>5, <2>7 DEF CapInv, Flying, Spending, Flies, Spends
<1> DEFINE Quiet(p, r) ==
             /\ \A j \in Jobs : Flies(r, j) => Flies(proc[p], j)
             /\ Spends(r, today) => Spends(proc[p], today)
           Same == UNCHANGED <<rows, daily, charged, reviewed, today>>
<1>3. ASSUME NEW p \in Procs, NEW r, Becomes(p, r), Quiet(p, r), Same PROVE CapInv'
  <2>1. /\ \A j \in Jobs : rows[j] <= rows'[j]
        /\ \A d \in 1..MaxDays : daily[d] <= daily'[d]
    BY <1>3, SameRows
  <2> QED BY <1>3, <2>1, CapQuiet
<1>4. ASSUME NEW p \in Procs
      PROVE  /\ proc[p] \in Process /\ Sound(proc[p], rows) /\ Role(proc[p])
             /\ proc[p].job \in Jobs /\ proc[p].running \in Nat /\ proc[p].est \in Nat
             /\ Quiet(p, Idle(p))
  <2>1. proc[p] \in Process /\ Sound(proc[p], rows) /\ Role(proc[p])
    BY DEF TypeOK, RefusalInv, TurnInv
  <2>2. proc[p].job \in Jobs /\ proc[p].running \in Nat /\ proc[p].est \in Nat
    BY <2>1, CapsAssumption DEF Process, Cost
  <2>3. Quiet(p, Idle(p)) BY DEF Idle, Task, Flies, Spends
  <2> QED BY <2>1, <2>2, <2>3
<1>5. ASSUME NEW p \in Procs, Start(p) PROVE CapInv'
  <2>1. PICK r : Becomes(p, r) /\ Quiet(p, r) BY <1>5 DEF Start, Task, Flies, Spends
  <2> QED BY <1>3, <1>5, <2>1 DEF Start, Ledger
<1>6. ASSUME NEW p \in Procs, Throw(p) \/ Finish(p) \/ PostReply(p) PROVE CapInv'
  BY <1>3, <1>4, <1>6 DEF Throw, Finish, PostReply, Ledger
<1>7. ASSUME NEW p \in Procs, Preflight(p) PROVE CapInv'
  <2>1. \A est \in Cost : Quiet(p, [AskTotals(p) EXCEPT !.est = est])
    BY <1>4 DEF AskTotals, At, Flies, Spends, Process
  <2>2. ~proc[p].wired => \A est \in Cost : Quiet(p, [At(p, "calling") EXCEPT !.est = est])
    BY <1>4 DEF At, Flies, Spends, Process
  <2>3. PICK r : Becomes(p, r) /\ Quiet(p, r) BY <1>4, <1>7, <2>1, <2>2 DEF Preflight
  <2> QED BY <1>3, <1>7, <2>3 DEF Preflight, Ledger
<1>8. ASSUME NEW p \in Procs, Generate(p) PROVE CapInv'
  <2>1. proc[p].pc = "calling" BY <1>8 DEF Generate
  <2>2. \A c \in Cost : Quiet(p, Called(p, c))
    BY <1>4, <2>1 DEF Called, At, Flies, Spends, Process
  <2>3. Quiet(p, Revalidate(p)) BY <1>4, <2>1 DEF Revalidate, Flies, Spends, Process
  <2>4. PICK r : Becomes(p, r) /\ Quiet(p, r) BY <1>8, <2>2, <2>3 DEF Generate
  <2> QED BY <1>3, <1>8, <2>4 DEF Generate, Ledger
<1>9. ASSUME NEW p \in Procs, Refuse(p) PROVE CapInv'
  <2>1. PICK c \in Cost : Record(p, c)
    BY <1>4, <1>9, CapsAssumption DEF Refuse, RecordExceeded, Process, Cost
  <2>2. /\ \A j \in Jobs : rows[j] <= rows'[j]
        /\ \A d \in 1..MaxDays : daily[d] <= daily'[d]
    BY <2>1, RecordType
  <2>3. Becomes(p, Idle(p)) /\ UNCHANGED <<charged, reviewed, today>> BY <1>9 DEF Refuse
  <2> QED BY <1>4, <2>2, <2>3, CapQuiet
<1>10. ASSUME NEW p \in Procs, ReadTurn(p) PROVE CapInv'
  <2>1. Quiet(p, [At(p, "counting") EXCEPT !.before = turns])
    BY <1>4 DEF At, Flies, Spends, Process
  <2> QED BY <1>3, <1>10, <2>1 DEF ReadTurn, Ledger
<1>11. ASSUME NEW p \in Procs, AddTurn(p) PROVE CapInv'
  <2>1. proc[p].task = "reply" BY <1>4, <1>11 DEF AddTurn, Role
  <2>2. Quiet(p, At(p, "noting")) BY <1>4 DEF At, Flies, Spends, Process
  <2>3. /\ Cap > 0 => \A j \in Jobs : Flies(Admit(p), j) => Flies(proc[p], j)
        /\ ~Spends(Admit(p), today)
    BY <1>4, <2>1 DEF Admit, AskTotals, At, Flies, Spends, Process
  <2>4. PICK r : /\ Becomes(p, r)
                 /\ Cap > 0 => \A j \in Jobs : Flies(r, j) => Flies(proc[p], j)
                 /\ Spends(r, today) => Spends(proc[p], today)
    BY <1>4, <1>11, <2>2, <2>3 DEF AddTurn
  <2>5. UNCHANGED <<rows, daily, charged, reviewed, today>> BY <1>11 DEF AddTurn, Ledger
  <2>6. /\ \A j \in Jobs : rows[j] <= rows'[j]
        /\ \A d \in 1..MaxDays : daily[d] <= daily'[d]
    BY <2>5, SameRows
  <2> QED BY <2>4, <2>5, <2>6, CapQuiet
<1>12. ASSUME NEW p \in Procs, ReadRunning(p) PROVE CapInv'
  <2> DEFINE r == [At(p, "daily") EXCEPT !.running = rows[proc[p].job],
                                         !.late = <<proc[p].job, proc[p].date>> \in refused]
  <2>1. Becomes(p, r) /\ Same BY <1>12 DEF ReadRunning, Ledger
  <2>2. /\ r.pc = "daily" /\ r.job = proc[p].job /\ r.running = rows[proc[p].job]
        /\ r.wired = proc[p].wired /\ r.task = proc[p].task /\ r.date = proc[p].date
    BY <1>4 DEF At, Process
  <2> HIDE DEF r
  <2>3. Spends(r, today) => Spends(proc[p], today) BY <1>12, <2>2 DEF Spends, ReadRunning
  <2>4. ASSUME NEW j \in Jobs
        PROVE  /\ charged'[j] <= rows'[j]
               /\ Cap > 0 => charged'[j] + Flying(proc', j) <= Cap + Slack
    <3>1. charged[j] \in Nat /\ rows[j] \in Nat BY DEF TypeOK
    <3>2. /\ Slack \in Nat /\ Flying(proc, j) \in Nat /\ Flying(proc', j) \in Nat
          /\ Flying(proc', j) <= Slack
          /\ ~Flies(r, j) => Flying(proc', j) <= Flying(proc, j)
      BY <2>1, WorthProcs
    <3>3. Flies(r, j) => rows[j] <= Cap BY <2>2 DEF Flies
    <3> QED BY <2>1, <3>1, <3>2, <3>3, CapsAssumption DEF CapInv
  <2>5. DailyCap > 0 => reviewed[today] + Spending(proc', today) < DailyCap + Slack
    <3>1. reviewed[today] \in Nat BY DEF TypeOK
    <3>2. /\ Slack \in Nat /\ Spending(proc, today) \in Nat /\ Spending(proc', today) \in Nat
          /\ Spending(proc', today) <= Spending(proc, today)
      BY <2>1, <2>3, WorthProcs
    <3> QED BY <3>1, <3>2, CapsAssumption DEF CapInv
  <2> QED BY <2>1, <2>4, <2>5 DEF CapInv, Flying, Spending, Slack, Flies, Spends
<1>13. ASSUME NEW p \in Procs, ReadDaily(p) PROVE CapInv'
  <2>1. proc[p].pc = "daily" /\ Same BY <1>13 DEF ReadDaily, Ledger
  <2>2. daily[proc[p].date] \in Nat /\ (IF proc[p].task = "review" THEN DailyCap ELSE 0) \in Nat
    BY <1>4, CapsAssumption DEF TypeOK, Process
  <2>3. ~Stops(Decision(p)) /\ proc[p].task = "review" /\ DailyCap > 0 =>
           daily[proc[p].date] < DailyCap
    BY <1>4, <2>2, DecisionSound DEF Decision
  <2>4. CASE Stops(Decision(p))
    <3>1. \A b \in BOOLEAN : Quiet(p, [At(p, "refusing") EXCEPT !.capped = b])
      BY <1>4 DEF At, Flies, Spends, Process
    <3>2. PICK r : Becomes(p, r) /\ Quiet(p, r) BY <1>4, <1>13, <2>4, <3>1 DEF ReadDaily
    <3> QED BY <1>3, <2>1, <3>2
  <2>5. CASE ~Stops(Decision(p)) /\ (proc[p].task = "reply" \/ ~proc[p].wired \/ proc[p].date # today)
    <3>1. Becomes(p, At(p, "calling")) BY <1>13, <2>5 DEF ReadDaily
    <3>2. Quiet(p, At(p, "calling")) BY <1>4, <2>1, <2>5 DEF At, Flies, Spends, Process
    <3> QED BY <1>3, <2>1, <3>1, <3>2
  <2>6. CASE ~Stops(Decision(p)) /\ proc[p].task = "review" /\ proc[p].date = today
    <3>1. Becomes(p, At(p, "calling")) BY <1>13, <2>6 DEF ReadDaily
    <3>2. \A j \in Jobs : Flies(At(p, "calling"), j) => Flies(proc[p], j)
      BY <1>4, <2>1 DEF At, Flies, Process
    <3>3. ASSUME NEW j \in Jobs
          PROVE  /\ charged'[j] <= rows'[j]
                 /\ Cap > 0 => charged'[j] + Flying(proc', j) <= Cap + Slack
      <4>1. charged[j] \in Nat /\ rows[j] \in Nat BY DEF TypeOK
      <4>2. /\ Slack \in Nat /\ Flying(proc, j) \in Nat /\ Flying(proc', j) \in Nat
            /\ Flying(proc', j) <= Flying(proc, j)
        BY <3>1, <3>2, WorthProcs
      <4> QED BY <2>1, <4>1, <4>2, CapsAssumption DEF CapInv
    <3>4. DailyCap > 0 => reviewed[today] + Spending(proc', today) < DailyCap + Slack
      <4>1. reviewed[today] \in Nat /\ reviewed[today] <= daily[today] BY DEF TypeOK, CapInv
      <4>2. Slack \in Nat /\ Spending(proc', today) \in Nat /\ Spending(proc', today) <= Slack
        BY <3>1, WorthProcs
      <4> QED BY <2>2, <2>3, <2>6, <4>1, <4>2, CapsAssumption
    <3> QED BY <2>1, <3>3, <3>4 DEF CapInv, Flying, Spending, Slack, Flies, Spends
  <2>7. proc[p].task \in {"review", "reply"} BY <1>4 DEF Process
  <2> QED BY <2>4, <2>5, <2>6, <2>7
<1>14. ASSUME NEW p \in Procs, RecordSuccess(p) PROVE CapInv'
  <2> DEFINE c == proc[p].cost
             k == proc[p].job
  <2>1. proc[p].pc = "recording" /\ c \in Cost /\ c \in Nat /\ c <= MaxCost
    BY <1>4, <1>14, CapsAssumption DEF RecordSuccess, Process, Cost
  <2>2. proc[p].wired /\ (Cap > 0 => proc[p].running <= Cap)
    BY <1>4, <2>1, CapsAssumption DEF Sound
  <2>3. PICK pc \in {"posting", "exceeded", "finishing"} : Becomes(p, At(p, pc))
    BY <1>14 DEF RecordSuccess
  <2>4. \A j \in Jobs : ~Flies(At(p, pc), j) BY <1>4 DEF At, Flies, Process
  <2>5. ~Spends(At(p, pc), today) BY <1>4 DEF At, Spends, Process
  <2>6. /\ \A j \in Jobs : rows[j] <= rows'[j]
        /\ rows'[k] = rows[k] + c
        /\ \A d \in 1..MaxDays : daily[d] <= daily'[d]
        /\ daily'[today] = daily[today] + c
    BY <1>14, <2>1, RecordType DEF RecordSuccess
  <2>7. charged' = [charged EXCEPT ![k] = @ + c] /\ today' = today /\ k \in Jobs
    BY <1>4, <1>14 DEF RecordSuccess
  <2>8. reviewed' = IF proc[p].task = "review" THEN [reviewed EXCEPT ![today] = @ + c] ELSE reviewed
    BY <1>14 DEF RecordSuccess
  <2>9. Flies(proc[p], k) \/ Cap = 0 BY <2>1, <2>2, CapsAssumption DEF Flies
  <2>10. proc[p].task = "review" => Spends(proc[p], today) BY <2>1, <2>2 DEF Spends
  <2> HIDE DEF c, k
  <2>11. ASSUME NEW j \in Jobs
         PROVE  /\ charged'[j] <= rows'[j]
                /\ Cap > 0 => charged'[j] + Flying(proc', j) <= Cap + Slack
    <3>1. charged[j] \in Nat /\ rows[j] \in Nat /\ rows'[j] \in Nat BY DEF TypeOK
    <3>2. charged'[j] = IF j = k THEN charged[j] + c ELSE charged[j]
      BY <2>7 DEF TypeOK
    <3>3. /\ Slack \in Nat /\ Flying(proc, j) \in Nat /\ Flying(proc', j) \in Nat
          /\ Flying(proc', j) <= Flying(proc, j)
          /\ j = k /\ Cap > 0 => Flying(proc', j) + MaxCost = Flying(proc, j)
      BY <2>3, <2>4, <2>9, WorthProcs
    <3> QED BY <2>1, <2>6, <3>1, <3>2, <3>3, CapsAssumption DEF CapInv
  <2>12. reviewed[today] \in Nat /\ today \in 1..MaxDays BY DEF TypeOK
  <2>13. /\ Slack \in Nat /\ Spending(proc, today) \in Nat /\ Spending(proc', today) \in Nat
         /\ Spending(proc', today) <= Spending(proc, today)
         /\ proc[p].task = "review" =>
               Spending(proc', today) + MaxCost = Spending(proc, today)
    BY <2>3, <2>5, <2>10, WorthProcs
  <2>14. reviewed'[today] = IF proc[p].task = "review" THEN reviewed[today] + c ELSE reviewed[today]
    BY <2>8, <2>12 DEF TypeOK
  <2>15. DailyCap > 0 => reviewed'[today] + Spending(proc', today) < DailyCap + Slack
    BY <2>1, <2>12, <2>13, <2>14, CapsAssumption DEF CapInv
  <2>16. ASSUME NEW d \in 1..MaxDays
         PROVE  /\ reviewed'[d] <= daily'[d]
                /\ d > today => reviewed'[d] = 0
                /\ DailyCap > 0 => reviewed'[d] < DailyCap + Slack
    <3>1. reviewed[d] \in Nat /\ daily[d] \in Nat /\ daily'[d] \in Nat /\ reviewed'[d] \in Nat
      BY DEF TypeOK
    <3>2. CASE d = today
      BY <2>1, <2>6, <2>12, <2>13, <2>14, <2>15, <3>1, <3>2, CapsAssumption DEF CapInv
    <3>3. CASE d # today
      <4>1. reviewed'[d] = reviewed[d] BY <2>8, <3>3 DEF TypeOK
      <4> QED BY <2>6, <3>1, <4>1 DEF CapInv
    <3> QED BY <3>2, <3>3
  <2> QED BY <2>7, <2>11, <2>15, <2>16 DEF CapInv, Flying, Spending, Slack, Flies, Spends
<1> QED BY <1>1, <1>2, <1>5, <1>6, <1>7, <1>8, <1>9, <1>10, <1>11, <1>12, <1>13, <1>14 DEF Next

LEMMA CapInvariant == Spec => []CapInv
<1>1. ASSUME Init PROVE CapInv
  <2>1. \A p \in Procs : proc[p].pc = "idle" BY <1>1 DEF Init, Task
  <2>2. \A p \in Procs, j \in Jobs : ~Flies(proc[p], j) /\ ~Spends(proc[p], today)
    BY <2>1 DEF Flies, Spends
  <2>3. \A j \in Jobs : {q \in Procs : Flies(proc[q], j)} = {} BY <2>2
  <2>4. {q \in Procs : Spends(proc[q], today)} = {} BY <2>1 DEF Spends
  <2>5. MaxCost * 0 = 0 /\ Slack \in Nat
    <3>1. PICK p : p \in Procs BY ProcsAssumption
    <3> QED BY <3>1, SpendingType, CapsAssumption
  <2>6. (\A j \in Jobs : Flying(proc, j) = 0) /\ Spending(proc, today) = 0
    BY <2>3, <2>4, <2>5, NobodyCounts DEF Flying, Spending
  <2>7. today \in 1..MaxDays BY <1>1, BoundsAssumption DEF Init
  <2> QED BY <1>1, <2>5, <2>6, <2>7, CapsAssumption DEF CapInv, Init
<1>2. TypeOK /\ TypeOK' /\ RefusalInv /\ TurnInv /\ CapInv /\ [Next]_vars => CapInv'
  BY CapStep
<1> QED BY <1>1, <1>2, TypeCorrect, RefusalInvariant, TurnInvariant, PTL DEF Spec

(* However the calls of a job interleave, what it is charged passes        *)
(* max_usd_per_pr by at most one call for each process.                    *)
THEOREM PrCapHolds == Spec => []PrOvershootBounded
<1>1. ASSUME TypeOK, CapInv PROVE PrOvershootBounded
  <2>1. ASSUME Cap > 0, NEW j \in Jobs
        PROVE  charged[j] <= Cap + MaxCost * Cardinality(Procs)
    <3>1. PICK p : p \in Procs BY ProcsAssumption
    <3>2. Slack \in Nat BY <3>1, SpendingType
    <3> DEFINE S == {q \in Procs : Flies(proc[q], j)}
    <3>3. Flying(proc, j) = MaxCost * Cardinality(S) /\ S \in SUBSET Procs BY DEF Flying
    <3> HIDE DEF S
    <3>4. Flying(proc, j) \in Nat BY <3>1, <3>3, WorthStep
    <3>5. charged[j] \in Nat BY <1>1 DEF TypeOK
    <3>6. charged[j] + Flying(proc, j) <= Cap + Slack BY <1>1, <2>1 DEF CapInv
    <3>7. charged[j] <= Cap + Slack BY <3>2, <3>4, <3>5, <3>6, CapsAssumption
    <3> QED BY <3>7 DEF Slack
  <2> QED BY <2>1 DEF PrOvershootBounded
<1> QED BY <1>1, CapInvariant, TypeCorrect, PTL

(* What reviews add to a day passes daily_cap_usd by less than one call    *)
(* for each process, also when a call ends on another day than it began.   *)
THEOREM DailyCapHolds == Spec => []DailyOvershootBounded
<1>1. ASSUME CapInv PROVE DailyOvershootBounded
  BY <1>1 DEF CapInv, Slack, DailyOvershootBounded
<1> QED BY <1>1, CapInvariant, PTL
=============================================================================
