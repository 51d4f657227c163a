------------------------------- MODULE MCTables -------------------------------
(***************************************************************************)
(* Two tables of the server that many processes append to and a command    *)
(* cuts, the audit log and review_history.  They share no state; each is   *)
(* explored on its own, while the other stays empty.                       *)
(***************************************************************************)
EXTENDS AuditLog, FeedbackLoop, TLC

VARIABLE table   \* the table explored

\* Two rejections of one finding, on two PRs, and a thumbs-up for another.
MCFindingOf == <<"f", "f", "g">>
MCPrOf == <<1, 2, 2>>

\* Appenders are interchangeable, and so are workers; the cfg file gives them
\* the same names.
Symmetry == Permutations(Workers)

TablesInit ==
    /\ table \in {"audit_log", "review_history"}
    /\ Init /\ FeedbackInit
    /\ table = "review_history" => ~scoped

TablesNext ==
    /\ UNCHANGED table
    /\ \/ table = "audit_log"      /\ Next /\ UNCHANGED feedbackVars
       \/ table = "review_history" /\ FeedbackNext /\ UNCHANGED vars

TablesSpec == TablesInit /\ [][TablesNext]_<<table, vars, feedbackVars>>
=============================================================================
