-------------------------------- MODULE MCJobs --------------------------------
(***************************************************************************)
(* A review job from two sides that share no state: the steps of one job,  *)
(* as in MCReviewJob, and the model calls of an installation with the      *)
(* ledger that bounds them.  Where `step` is "cost" the latter is explored *)
(* and the steps keep a fixed value; elsewhere nothing has been charged.   *)
(***************************************************************************)
EXTENDS MCReviewJob, CostControl, TLC

\* Processes are interchangeable, and so are the jobs of the ledger.
Symmetry == Permutations(Procs) \cup Permutations(Jobs)

CostOff == Init /\ \A p \in Procs : proc[p].job = CHOOSE j \in Jobs : TRUE

JobsInit ==
    \/ CostOff /\ JobInit
    \/ step = "cost" /\ Init /\ ConfigOff /\ PipelineOff /\ RetryOff /\ SpaceOff

JobsNext ==
    \/ JobNext /\ UNCHANGED vars
    \/ /\ step = "cost" /\ Next
       /\ UNCHANGED <<step, configVars, pipelineVars, retryVars, spaceVars>>

JobsSpec ==
    JobsInit /\ [][JobsNext]_<<step, configVars, pipelineVars, retryVars, spaceVars, vars>>
=============================================================================
