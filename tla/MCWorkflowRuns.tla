--------------------------- MODULE MCWorkflowRuns ---------------------------
(* Review by both of two titles, a check by one of them, a release by      *)
(* either.  A rejected or returned release sends the run back to the       *)
(* review; any other rejection ends it.                                    *)
EXTENDS WorkflowRuns

CONSTANTS qm, om, admin, clerk, Quality, Operations, review, check, release

MCSteps == {review, check, release}
MCTitleOf == [u \in {qm, om, admin, clerk} |->
                CASE u = qm -> Quality [] u = om -> Operations [] OTHER -> Nothing]
MCAsksFor == [n \in MCSteps |-> IF n = check THEN {Quality} ELSE {Quality, Operations}]
MCMayDecide == [n \in MCSteps |-> IF n = check THEN {qm} ELSE {qm, om, clerk}]
MCLeads == [n \in MCSteps |-> [d \in Decisions |->
              CASE n = review /\ d = "approved" -> check
                [] n = check /\ d = "approved" -> release
                [] n = release /\ d # "approved" -> review
                [] OTHER -> End]]
=============================================================================
