---------------------------- MODULE WorkflowRuns ----------------------------
(***************************************************************************)
(* The decisions of people on one workflow run: the row of workflow_runs,  *)
(* POST /workflow/runs/:id/decision of workflow.runs.ts and                *)
(* nextApprovalState of assignees.ts.                                      *)
(*                                                                         *)
(* A decision is a transaction.  It reads the row without a lock, runs the *)
(* steps after the approval and writes the row back by id alone.  A step   *)
(* that fails rolls back what was written, not what left the process.      *)
(* The walk through the graph is WorkflowEngine; here it is the constant   *)
(* Leads, and only its pauses are seen.  Not covered: the first articles,  *)
(* whose decisions also need a PIN, and runs deleted with their workflow.  *)
(***************************************************************************)
EXTENDS Naturals, Sequences, FiniteSets

CONSTANTS
  Requests,      \* decisions that may be under way
  People, FullAccess,  \* users, and those with a full-access role
  Titles, TitleOf,     \* titles stored on steps; the one a user's role matches
  Steps, First,  \* approval steps of the workflow, and the one a run comes to first
  AsksFor,       \* the titles of a step
  AnyOf,         \* steps whose approvalMode is "any"
  MayDecide,     \* who may decide a step, by title or by department
  Routes,        \* decisions besides approved and rejected
  Leads,         \* where a decision of a step leads the run
  Nothing,       \* no step, no title, nobody
  End,           \* the end of the run
  MaxDecisions,  \* bound on the decisions a run records
  MaxFailures    \* bound on resumes that fail

Decisions == {"approved", "rejected"} \cup Routes

ASSUME StepsAssumption ==
  /\ First \in Steps /\ Nothing \notin Steps /\ End \notin Steps /\ End # Nothing
  /\ Leads \in [Steps -> [Decisions -> Steps \cup {End}]]
ASSUME PeopleAssumption ==
  /\ FullAccess \subseteq People /\ Nothing \notin People
  /\ TitleOf \in [People -> Titles \cup {Nothing}] /\ Nothing \notin Titles
  /\ AsksFor \in [Steps -> SUBSET Titles] /\ \A n \in Steps : IsFiniteSet(AsksFor[n])
  /\ MayDecide \in [Steps -> SUBSET People]
ASSUME BoundsAssumption == MaxDecisions \in Nat /\ MaxFailures \in Nat

VARIABLES
  run,        \* the row
  req,        \* what each request has read and decided
  ran,        \* history: times the steps after n ran, their outcome kept or not
  arrivals,   \* history: times the run came to wait at n
  failures,   \* resumes that failed
  answered,   \* history: titles that answered n without rejecting it
  overridden, \* history: steps that one answer settled, or sent another way
  settled     \* history: steps whose answers resumed the run

vars == <<run, req, ran, arrivals, failures, answered, overridden, settled>>

Approval == [node : Steps, by : People, decision : Decisions]

\* status, runState.waitingNodeId, and of the context: pendingApproval.nodeId, the
\* trail of approvals, and approvedTitles.
Run == [status : {"none", "waiting_approval", "completed", "failed"},
        state : Steps \cup {Nothing}, pending : Steps \cup {Nothing},
        approvals : Seq(Approval), approvedTitles : [Steps -> SUBSET Titles]]

Request == [phase : {"idle", "read", "resume"}, run : Run,
            user : People \cup {Nothing}, decision : Decisions]

TypeOK ==
  /\ run \in Run
  /\ req \in [Requests -> Request]
  /\ ran \in [Steps -> Nat] /\ arrivals \in [Steps -> Nat] /\ failures \in Nat
  /\ answered \in [Steps -> SUBSET Titles]
  /\ overridden \subseteq Steps /\ settled \subseteq Steps

NoRun == [status |-> "none", state |-> Nothing, pending |-> Nothing, approvals |-> <<>>,
          approvedTitles |-> [n \in Steps |-> {}]]
Idle == [phase |-> "idle", run |-> NoRun, user |-> Nothing, decision |-> "approved"]

Init ==
  /\ run = NoRun /\ req = [r \in Requests |-> Idle]
  /\ ran = [n \in Steps |-> 0] /\ arrivals = [n \in Steps |-> 0] /\ failures = 0
  /\ answered = [n \in Steps |-> {}] /\ overridden = {} /\ settled = {}

-----------------------------------------------------------------------------
(* The row once the engine stopped at `next`.  Mutants: waiting_approval   *)
(* is stored whatever the engine returned; a finished run stays as it was; *)
(* the position of a pause is not saved.                                   *)
AlwaysWaits(row, next) ==
  [row EXCEPT !.status = "waiting_approval", !.state = next, !.pending = next]
StaysOpen(row, next) ==
  IF next = End THEN row
  ELSE [row EXCEPT !.status = "waiting_approval", !.state = next, !.pending = next]
NotSaved(row, next) ==
  IF next = End
    THEN [row EXCEPT !.status = "completed", !.state = Nothing, !.pending = Nothing]
    ELSE [row EXCEPT !.status = "waiting_approval", !.pending = next]
StoppedAt(row, next) ==
  IF next = End
    THEN [row EXCEPT !.status = "completed", !.state = Nothing, !.pending = Nothing]
    ELSE [row EXCEPT !.status = "waiting_approval", !.state = next, !.pending = next]

Arrived(next) == [n \in Steps |-> arrivals[n] + IF n = next THEN 1 ELSE 0]

(* A run is started: it comes to its first approval, or a worker's fails.  *)
(* Of a run a person starts and that fails, nothing is left.               *)
Start ==
  /\ run.status = "none"
  /\ \/ run' = StoppedAt(run, First) /\ arrivals' = Arrived(First)
     \/ run' = [run EXCEPT !.status = "failed"] /\ UNCHANGED arrivals
  /\ UNCHANGED <<req, ran, failures, answered, overridden, settled>>

(* Only a waiting run with its position saved can be decided, by those who *)
(* may decide its pending step.                                            *)
Read(r, u, d) ==
  /\ req[r].phase = "idle"
  /\ run.status = "waiting_approval" /\ run.state # Nothing
  /\ run.pending # Nothing /\ u \in FullAccess \cup MayDecide[run.pending]
  /\ Len(run.approvals) < MaxDecisions
  /\ req' = [req EXCEPT ![r] = [phase |-> "read", run |-> run, user |-> u, decision |-> d]]
  /\ UNCHANGED <<run, ran, arrivals, failures, answered, overridden, settled>>

-----------------------------------------------------------------------------
(* nextApprovalState.  A route that is not "rejected" counts as approved.  *)

FinishesNow(q) ==
  \/ q.decision = "rejected" \/ q.user \in FullAccess
  \/ Cardinality(AsksFor[q.run.pending]) <= 1 \/ q.run.pending \in AnyOf

Mine(q) == {TitleOf[q.user]} \cap AsksFor[q.run.pending]

\* Mutant: one approval is enough.
OneIsEnough(q) == AsksFor[q.run.pending]
ApprovedTitles(q) ==
  IF FinishesNow(q) THEN AsksFor[q.run.pending]
  ELSE q.run.approvedTitles[q.run.pending] \cup Mine(q)

Waiting(q) == ~FinishesNow(q) /\ ~(AsksFor[q.run.pending] \subseteq ApprovedTitles(q))

\* Mutant: the trail starts anew.
TrailAnew(q) == <<[node |-> q.run.pending, by |-> q.user, decision |-> q.decision]>>
Trail(q) ==
  Append(q.run.approvals, [node |-> q.run.pending, by |-> q.user, decision |-> q.decision])

(* `signed`: the context with the decision in it.                          *)
Signed(q) == [q.run EXCEPT !.approvals = Trail(q),
                           !.approvedTitles[q.run.pending] = ApprovedTitles(q)]

Answers(q) ==
  answered' = [answered EXCEPT ![q.run.pending] =
                 IF q.decision = "rejected" THEN @ ELSE @ \cup Mine(q)]

(* The step still waits for a title: the context is written, and nothing   *)
(* of the position.                                                        *)
Partial(r) ==
  LET q == req[r]
      s == Signed(q)
  IN /\ q.phase = "read" /\ Waiting(q)
     /\ run' = [s EXCEPT !.status = "waiting_approval", !.state = run.state]
     /\ req' = [req EXCEPT ![r] = Idle]
     /\ Answers(q)
     /\ UNCHANGED <<ran, arrivals, failures, overridden, settled>>

(* resumeWorkflow from the position that was read: the steps run.          *)
Resume(r) ==
  LET q == req[r]
  IN /\ q.phase = "read" /\ ~Waiting(q)
     /\ ran' = [ran EXCEPT ![q.run.state] = @ + 1]
     /\ req' = [req EXCEPT ![r].phase = "resume"]
     /\ UNCHANGED <<run, arrivals, failures, answered, overridden, settled>>

(* The row is written where the engine stopped, and the request commits.   *)
Finish(r) ==
  LET q == req[r]
      next == Leads[q.run.state][q.decision]
  IN /\ q.phase = "resume"
     /\ run' = StoppedAt(Signed(q), next)
     /\ arrivals' = Arrived(next)
     /\ req' = [req EXCEPT ![r] = Idle]
     /\ Answers(q)
     /\ overridden' = IF FinishesNow(q) THEN overridden \cup {q.run.pending} ELSE overridden
     /\ settled' = settled \cup {q.run.pending}
     /\ UNCHANGED <<ran, failures>>

(* A step fails, or a required field is missing: the run is marked failed, *)
(* the error goes up, and the transaction takes the mark back with it.     *)
Fail(r) ==
  /\ req[r].phase = "resume"
  /\ failures < MaxFailures
  /\ failures' = failures + 1
  /\ req' = [req EXCEPT ![r] = Idle]
  /\ UNCHANGED <<run, ran, arrivals, answered, overridden, settled>>

Next ==
  \/ Start
  \/ \E r \in Requests : \/ \E u \in People, d \in Decisions : Read(r, u, d)
                         \/ Partial(r) \/ Resume(r) \/ Finish(r) \/ Fail(r)

Spec == Init /\ [][Next]_vars

-----------------------------------------------------------------------------
(* Properties.                                                             *)

(* An open run can be decided: it has a position to resume from, and the   *)
(* step people are asked about is that position ("stays open, with its     *)
(* position saved, until someone decides").                                *)
OpenRunKeepsPosition ==
  run.status = "waiting_approval" => run.state # Nothing /\ run.pending = run.state

(* "Management approval waits until every stored title has approved": the  *)
(* answers to a step, unless one of them finishes it at once, resume the   *)
(* run only when each of its titles has given one, also when they cross.   *)
EveryTitleAnswers == \A n \in settled \ overridden : AsksFor[n] \subseteq answered[n]

(* The steps after an approval run once each time the run waits there, and *)
(* once more for a resume that failed: mails and events are not taken back.*)
StepsRunOncePerWait == \A n \in Steps : ran[n] <= arrivals[n] + failures

(* No decision takes another's entry off the trail of approvals.           *)
TrailGrows ==
  [][Len(run'.approvals) >= Len(run.approvals)
     /\ SubSeq(run'.approvals, 1, Len(run.approvals)) = run.approvals]_vars
=============================================================================
