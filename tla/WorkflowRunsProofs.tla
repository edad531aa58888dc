------------------------- MODULE WorkflowRunsProofs -------------------------
(* Why no step of a workflow is settled without the answers it asks for,    *)
(* for any number of decisions that overlap.                               *)
EXTENDS WorkflowRuns, TLAPS

-----------------------------------------------------------------------------
(* The inductive invariant. *)

\* The titles a row, or a copy of it that was read, stores as having approved did
\* answer, or the step was finished by one answer.
Backed(row) ==
  \A n \in Steps \ overridden : row.approvedTitles[n] \subseteq answered[n]

\* A request that is under way decides a step, and resumes only when none waits.
UnderWay(q) ==
  /\ q.phase # "idle" => q.run.pending \in Steps /\ q.run.state \in Steps /\ q.user \in People
  /\ q.phase = "resume" => ~Waiting(q)

IInv ==
  /\ TypeOK
  /\ Backed(run) /\ \A r \in Requests : Backed(req[r].run)
  /\ \A r \in Requests : UnderWay(req[r])
  /\ EveryTitleAnswers

-----------------------------------------------------------------------------
(* Types *)

\* No run yet, and a request that has not begun.
LEMMA IdleType == NoRun \in Run /\ Idle \in Request
<1>1. NoRun \in Run
  BY DEF NoRun, Run
<1>. QED BY <1>1 DEF Idle, Request, Decisions

\* What a decision adds to the context it read is a context.
LEMMA SignedType ==
  ASSUME NEW q \in Request, q.run.pending \in Steps, q.user \in People
  PROVE  /\ Signed(q) \in Run
         /\ \A n \in Steps : Signed(q).approvedTitles[n] =
              IF n = q.run.pending THEN ApprovedTitles(q) ELSE q.run.approvedTitles[n]
<1>1. q.run \in Run /\ q.decision \in Decisions
  BY DEF Request
<1>2. Trail(q) \in Seq(Approval)
  BY <1>1 DEF Trail, Run, Approval
<1>3. ApprovedTitles(q) \in SUBSET Titles
  BY <1>1, PeopleAssumption DEF ApprovedTitles, Mine, Run
<1>. QED BY <1>1, <1>2, <1>3 DEF Signed, Run

\* Where the engine stops is a state of the row.
LEMMA StoppedType ==
  ASSUME NEW row \in Run, NEW next \in Steps \cup {End}
  PROVE  /\ StoppedAt(row, next) \in Run
         /\ StoppedAt(row, next).approvedTitles = row.approvedTitles
BY DEF StoppedAt, Run

\* An answer is counted for the titles of its step, and none is forgotten.
LEMMA AnswersType ==
  ASSUME TypeOK, NEW q \in Request, q.run.pending \in Steps, q.user \in People, Answers(q)
  PROVE  /\ answered' \in [Steps -> SUBSET Titles]
         /\ \A n \in Steps : answered[n] \subseteq answered'[n]
         /\ q.decision # "rejected" => Mine(q) \subseteq answered'[q.run.pending]
BY PeopleAssumption DEF TypeOK, Answers, Mine

\* Every step keeps the variables well typed.
LEMMA TypeStep == IInv /\ [Next]_vars => TypeOK'
<1>. SUFFICES ASSUME IInv, [Next]_vars
     PROVE  TypeOK'
  OBVIOUS
<1>. USE DEF TypeOK, IInv
<1>1. CASE Start
  <2>1. run' \in Run
    <3>1. StoppedAt(run, First) \in Run
      BY StoppedType, StepsAssumption
    <3>2. [run EXCEPT !.status = "failed"] \in Run
      BY DEF Run
    <3>. QED BY <1>1, <3>1, <3>2 DEF Start
  <2>2. arrivals' \in [Steps -> Nat]
    BY <1>1 DEF Start, Arrived
  <2>. QED BY <1>1, <2>1, <2>2 DEF Start
<1>2. ASSUME NEW r \in Requests, NEW u \in People, NEW d \in Decisions, Read(r, u, d)
      PROVE  TypeOK'
  BY <1>2 DEF Read, Request
<1>3. ASSUME NEW r \in Requests, Partial(r)
      PROVE  TypeOK'
  <2>1. req[r] \in Request /\ req[r].run.pending \in Steps /\ req[r].user \in People
    BY <1>3 DEF Partial, UnderWay
  <2>2. run' \in Run
    BY <1>3, <2>1, SignedType DEF Partial, Run
  <2>3. answered' \in [Steps -> SUBSET Titles]
    BY <1>3, <2>1, AnswersType DEF Partial
  <2>. QED BY <1>3, <2>2, <2>3, IdleType DEF Partial
<1>4. ASSUME NEW r \in Requests, Resume(r)
      PROVE  TypeOK'
  <2>1. req[r] \in Request /\ req[r].run.state \in Steps
    BY <1>4 DEF Resume, UnderWay
  <2>2. ran' \in [Steps -> Nat]
    BY <1>4, <2>1 DEF Resume
  <2>3. req' \in [Requests -> Request]
    BY <1>4, <2>1 DEF Resume, Request
  <2>. QED BY <1>4, <2>2, <2>3 DEF Resume
<1>5. ASSUME NEW r \in Requests, Finish(r)
      PROVE  TypeOK'
  <2>1. /\ req[r] \in Request /\ req[r].run.pending \in Steps /\ req[r].user \in People
        /\ Leads[req[r].run.state][req[r].decision] \in Steps \cup {End}
    BY <1>5, StepsAssumption DEF Finish, UnderWay, Request
  <2>2. run' \in Run
    BY <1>5, <2>1, SignedType, StoppedType DEF Finish
  <2>3. answered' \in [Steps -> SUBSET Titles]
    BY <1>5, <2>1, AnswersType DEF Finish
  <2>4. arrivals' \in [Steps -> Nat]
    BY <1>5 DEF Finish, Arrived
  <2>5. overridden' \subseteq Steps /\ settled' \subseteq Steps
    BY <1>5, <2>1 DEF Finish
  <2>. QED BY <1>5, <2>2, <2>3, <2>4, <2>5, IdleType DEF Finish
<1>6. ASSUME NEW r \in Requests, Fail(r)
      PROVE  TypeOK'
  BY <1>6, IdleType DEF Fail
<1>7. CASE UNCHANGED vars
  BY <1>7 DEF vars
<1>. QED BY <1>1, <1>2, <1>3, <1>4, <1>5, <1>6, <1>7 DEF Next

-----------------------------------------------------------------------------
(* The steps *)

\* Answers and finished steps are never forgotten, so what was backed stays so.
LEMMA StaysBacked ==
  ASSUME NEW row, Backed(row), overridden \subseteq overridden',
         \A n \in Steps : answered[n] \subseteq answered'[n]
  PROVE  \A n \in Steps \ overridden' : row.approvedTitles[n] \subseteq answered'[n]
BY DEF Backed

\* A step that changes nothing of what was answered, and writes no new title.
LEMMA NothingAnswered ==
  ASSUME IInv, TypeOK', UNCHANGED <<answered, overridden, settled>>,
         run'.approvedTitles = run.approvedTitles,
         \A r \in Requests : Backed(req'[r].run) /\ UnderWay(req'[r])
  PROVE  IInv'
<1>1. Backed(run)' /\ \A r \in Requests : Backed(req[r].run)'
  BY DEF IInv, Backed
<1>2. \A r \in Requests : UnderWay(req[r])'
  BY DEF UnderWay, Waiting, FinishesNow, ApprovedTitles, Mine
<1>3. EveryTitleAnswers'
  BY DEF IInv, EveryTitleAnswers
<1>. QED BY <1>1, <1>2, <1>3 DEF IInv

\* A request that is idle has no title to back and nothing under way.
LEMMA IdleBacked == Backed(Idle.run) /\ UnderWay(Idle)
BY DEF Backed, UnderWay, Idle, NoRun

\* What a decision stores is backed by the answer it records.
LEMMA SignedBacked ==
  ASSUME IInv, NEW r \in Requests, req[r].phase # "idle", Answers(req[r]),
         FinishesNow(req[r]) => req[r].run.pending \in overridden',
         overridden \subseteq overridden'
  PROVE  /\ \A n \in Steps \ overridden' :
              Signed(req[r]).approvedTitles[n] \subseteq answered'[n]
         /\ \A n \in Steps : answered[n] \subseteq answered'[n]
<1>. DEFINE q == req[r]
<1>1. /\ q \in Request /\ q.run.pending \in Steps /\ q.user \in People
      /\ Backed(q.run)
  BY DEF IInv, TypeOK, UnderWay
<1>2. \A n \in Steps : answered[n] \subseteq answered'[n]
  BY <1>1, AnswersType DEF IInv
<1>3. ASSUME NEW n \in Steps \ overridden'
      PROVE  Signed(q).approvedTitles[n] \subseteq answered'[n]
  <2>1. q.run.approvedTitles[n] \subseteq answered'[n]
    BY <1>1, <1>2, <1>3, StaysBacked
  <2>2. CASE n # q.run.pending
    BY <1>1, <2>1, <2>2, SignedType
  <2>3. CASE n = q.run.pending
    <3>1. ~FinishesNow(q) /\ q.decision # "rejected"
      BY <1>3, <2>3 DEF FinishesNow
    <3>2. Mine(q) \subseteq answered'[n]
      BY <1>1, <2>3, <3>1, AnswersType DEF IInv
    <3>3. Signed(q).approvedTitles[n] = q.run.approvedTitles[n] \cup Mine(q)
      BY <1>1, <2>3, <3>1, SignedType DEF ApprovedTitles
    <3>. QED BY <2>1, <3>2, <3>3
  <2>. QED BY <2>2, <2>3
<1>. QED BY <1>2, <1>3

\* Recording a decision keeps the invariant: the partial one and the one that moves.
LEMMA DecisionStep ==
  ASSUME IInv, TypeOK', NEW r \in Requests, Partial(r) \/ Finish(r)
  PROVE  IInv'
<1>. DEFINE q == req[r]
<1>1. /\ q \in Request /\ q.phase # "idle" /\ q.run.pending \in Steps /\ q.user \in People
      /\ q.run.state \in Steps /\ Answers(q) /\ req' = [req EXCEPT ![r] = Idle]
      /\ overridden \subseteq overridden'
  BY DEF IInv, TypeOK, UnderWay, Partial, Finish
<1>2. FinishesNow(q) => q.run.pending \in overridden'
  BY DEF Partial, Finish, Waiting
<1>3. /\ \A n \in Steps \ overridden' : Signed(q).approvedTitles[n] \subseteq answered'[n]
      /\ \A n \in Steps : answered[n] \subseteq answered'[n]
  BY <1>1, <1>2, SignedBacked
<1>4. run'.approvedTitles = Signed(q).approvedTitles
  <2>1. Signed(q) \in Run
    BY <1>1, SignedType
  <2>2. CASE Partial(r)
    BY <2>1, <2>2 DEF Partial, Run
  <2>3. CASE Finish(r)
    <3>1. Leads[q.run.state][q.decision] \in Steps \cup {End}
      BY <1>1, StepsAssumption DEF Request
    <3>. QED BY <2>1, <2>3, <3>1, StoppedType DEF Finish
  <2>. QED BY <2>2, <2>3
<1>5. Backed(run)'
  BY <1>3, <1>4 DEF Backed
<1>6. ASSUME NEW p \in Requests
      PROVE  Backed(req[p].run)' /\ UnderWay(req[p])'
  <2>1. CASE p = r
    <3>1. req'[p] = Idle
      BY <1>1, <2>1 DEF IInv, TypeOK
    <3>. QED BY <3>1 DEF Backed, UnderWay, Idle, NoRun
  <2>2. CASE p # r
    <3>1. req'[p] = req[p]
      BY <1>1, <2>2 DEF IInv, TypeOK
    <3>2. Backed(req[p].run)'
      BY <1>1, <1>3, <3>1, StaysBacked DEF IInv, Backed
    <3>3. UnderWay(req[p])'
      BY <3>1 DEF IInv, UnderWay, Waiting, FinishesNow, ApprovedTitles, Mine
    <3>. QED BY <3>2, <3>3
  <2>. QED BY <2>1, <2>2
<1>7. EveryTitleAnswers'
  <2>. SUFFICES ASSUME NEW n \in settled' \ overridden'
       PROVE  AsksFor[n] \subseteq answered'[n]
    BY DEF EveryTitleAnswers
  <2>1. n \in Steps
    BY DEF TypeOK
  <2>2. CASE n \in settled
    BY <1>1, <1>3, <2>1, <2>2 DEF IInv, EveryTitleAnswers
  <2>3. CASE n \notin settled
    <3>1. Finish(r) /\ n = q.run.pending
      BY <2>3 DEF Partial, Finish
    <3>2. ~FinishesNow(q) /\ ~Waiting(q)
      BY <1>2, <3>1 DEF IInv, UnderWay, Finish
    <3>3. AsksFor[n] \subseteq ApprovedTitles(q)
      BY <3>1, <3>2 DEF Waiting
    <3>4. Signed(q).approvedTitles[n] = ApprovedTitles(q)
      BY <1>1, <3>1, SignedType
    <3>. QED BY <1>3, <2>1, <3>3, <3>4
  <2>. QED BY <2>2, <2>3
<1>. QED BY <1>5, <1>6, <1>7 DEF IInv

\* Every step keeps the invariant.
LEMMA NextIInv == IInv /\ [Next]_vars => IInv'
<1>. SUFFICES ASSUME IInv, [Next]_vars
     PROVE  IInv'
  OBVIOUS
<1>0. TypeOK'
  BY TypeStep
<1>. USE DEF IInv, TypeOK
<1>1. CASE Start
  <2>1. run'.approvedTitles = run.approvedTitles
    <3>1. StoppedAt(run, First).approvedTitles = run.approvedTitles
      BY StoppedType, StepsAssumption
    <3>2. [run EXCEPT !.status = "failed"].approvedTitles = run.approvedTitles
      BY DEF Run
    <3>. QED BY <1>1, <3>1, <3>2 DEF Start
  <2>. QED BY <1>0, <1>1, <2>1, NothingAnswered DEF Start
<1>2. ASSUME NEW r \in Requests, NEW u \in People, NEW d \in Decisions, Read(r, u, d)
      PROVE  IInv'
  <2>1. \A p \in Requests : Backed(req'[p].run) /\ UnderWay(req'[p])
    BY <1>2 DEF Read, UnderWay, Run
  <2>. QED BY <1>0, <1>2, <2>1, NothingAnswered DEF Read
<1>3. ASSUME NEW r \in Requests, Partial(r) \/ Finish(r)
      PROVE  IInv'
  BY <1>0, <1>3, DecisionStep
<1>4. ASSUME NEW r \in Requests, Resume(r)
      PROVE  IInv'
  <2>1. \A p \in Requests : Backed(req'[p].run) /\ UnderWay(req'[p])
    <3>1. /\ req[r] \in Request /\ req[r].phase = "read" /\ ~Waiting(req[r])
          /\ req' = [req EXCEPT ![r] = [req[r] EXCEPT !.phase = "resume"]]
      BY <1>4 DEF Resume
    <3>2. /\ req'[r].run = req[r].run /\ req'[r].user = req[r].user
          /\ req'[r].decision = req[r].decision
      BY <3>1 DEF Request
    <3>3. Waiting(req'[r]) = Waiting(req[r])
      BY <3>2, Zenon DEF Waiting, FinishesNow, ApprovedTitles, Mine
    <3>4. Backed(req'[r].run) /\ UnderWay(req'[r])
      BY <3>1, <3>2, <3>3 DEF UnderWay
    <3>5. ASSUME NEW p \in Requests, p # r
          PROVE  req'[p] = req[p]
      BY <3>1, <3>5
    <3>. QED BY <3>4, <3>5
  <2>. QED BY <1>0, <1>4, <2>1, NothingAnswered DEF Resume
<1>5. ASSUME NEW r \in Requests, Fail(r)
      PROVE  IInv'
  <2>1. \A p \in Requests : Backed(req'[p].run) /\ UnderWay(req'[p])
    BY <1>5, IdleBacked DEF Fail
  <2>. QED BY <1>0, <1>5, <2>1, NothingAnswered DEF Fail
<1>6. CASE UNCHANGED vars
  BY <1>0, <1>6, NothingAnswered DEF vars
<1>. QED BY <1>1, <1>2, <1>3, <1>4, <1>5, <1>6 DEF Next

\* The invariant holds before the run is started.
LEMMA InitIInv == Init => IInv
BY IdleType, IdleBacked DEF Init, IInv, TypeOK, Backed, EveryTitleAnswers, NoRun

\* The invariant holds in every state of every behaviour.
THEOREM AlwaysIInv == Spec => []IInv
BY InitIInv, NextIInv, PTL DEF Spec

\* The row, the requests and the history keep their types.
THEOREM TypeCorrect == Spec => []TypeOK
<1>1. IInv => TypeOK
  BY DEF IInv
<1>. QED BY <1>1, AlwaysIInv, PTL

\* nextApprovalState with the decision handler: however decisions overlap, the answers to a
\* step that no single answer finished resume the run only when every title has answered.
THEOREM ResumedByEveryAnswer == Spec => []EveryTitleAnswers
<1>1. IInv => EveryTitleAnswers
  BY DEF IInv
<1>. QED BY <1>1, AlwaysIInv, PTL
-----------------------------------------------------------------------------
(* One decision at a time.  The next three results need it: the handler    *)
(* takes no lock, and WorkflowRunsRace shows what two decisions that cross *)
(* do to the row.                                                          *)

OneAtATime == \A r, s \in Requests : r = s

\* What a request under way has read is the row, which waits for its decision.
ReadIsCurrent(q) == q.phase # "idle" => q.run = run /\ run.status = "waiting_approval"

\* The run waits at n, and nobody has run the steps after n since it came there.
Owed(n) ==
  /\ run.status = "waiting_approval" /\ run.state = n
  /\ \A r \in Requests : req[r].phase # "resume"

\* What is still to run once has been paid for already.
PaidFor(n) == ran[n] + (IF Owed(n) THEN 1 ELSE 0) <= arrivals[n] + failures

SerialInv ==
  /\ IInv
  /\ \A r \in Requests : ReadIsCurrent(req[r])
  /\ OpenRunKeepsPosition
  /\ \A n \in Steps : PaidFor(n)

\* Nothing is under way before a run, nor owed.
LEMMA InitSerial == Init => SerialInv
<1>. SUFFICES ASSUME Init
     PROVE  SerialInv
  OBVIOUS
<1>1. IInv
  BY InitIInv
<1>2. \A r \in Requests : ReadIsCurrent(req[r])
  BY DEF Init, ReadIsCurrent, Idle
<1>3. OpenRunKeepsPosition /\ \A n \in Steps : PaidFor(n)
  BY DEF Init, OpenRunKeepsPosition, PaidFor, Owed, NoRun
<1>. QED BY <1>1, <1>2, <1>3 DEF SerialInv

\* Where the engine stopped, the row waits at that step or has ended.
LEMMA StoppedPosition ==
  ASSUME NEW row \in Run, NEW next \in Steps \cup {End}
  PROVE  LET to == StoppedAt(row, next) IN
         /\ to.status = "waiting_approval" <=> next # End
         /\ next # End => to.state = next /\ to.pending = next
         /\ to.approvals = row.approvals
BY DEF StoppedAt, Run

\* A decision taken alone works on the row as it is.
LEMMA AloneReads ==
  ASSUME OneAtATime, SerialInv, NEW r \in Requests, req[r].phase # "idle"
  PROVE  /\ req[r] \in Request /\ req[r].run = run /\ run \in Run
         /\ run.status = "waiting_approval" /\ run.state \in Steps /\ run.pending = run.state
         /\ req[r].user \in People /\ req[r].decision \in Decisions
         /\ \A s \in Requests : s = r
<1>1. /\ req[r] \in Request /\ req[r].run = run /\ run \in Run /\ req[r].user \in People
      /\ run.status = "waiting_approval" /\ run.state \in Steps
  BY DEF SerialInv, IInv, TypeOK, ReadIsCurrent, UnderWay
<1>. QED BY <1>1 DEF SerialInv, OpenRunKeepsPosition, OneAtATime, Request

\* Every step of a run decided by one request at a time keeps the invariant.
LEMMA NextSerial ==
  ASSUME OneAtATime, SerialInv, [Next]_vars
  PROVE  SerialInv'
<1>0. IInv /\ IInv' /\ TypeOK /\ TypeOK'
  BY NextIInv DEF SerialInv, IInv
<1>1. CASE Start
  <2>1. /\ run.status = "none" /\ run \in Run /\ req' = req /\ ran' = ran /\ failures' = failures
        /\ \A r \in Requests : req[r].phase = "idle"
    BY <1>0, <1>1 DEF Start, SerialInv, ReadIsCurrent, TypeOK
  <2>2. \A r \in Requests : ReadIsCurrent(req[r])'
    BY <2>1 DEF ReadIsCurrent
  <2>3. \A n \in Steps : ran[n] <= arrivals[n] + failures
    BY <1>0, <2>1 DEF SerialInv, PaidFor, Owed, TypeOK
  <2>4. CASE run' = StoppedAt(run, First) /\ arrivals' = Arrived(First)
    <3>1. run'.status = "waiting_approval" /\ run'.state = First /\ run'.pending = First
      BY <2>1, <2>4, StoppedPosition, StepsAssumption
    <3>2. OpenRunKeepsPosition'
      BY <3>1, StepsAssumption DEF OpenRunKeepsPosition
    <3>3. \A n \in Steps : PaidFor(n)'
      BY <1>0, <2>1, <2>3, <2>4, <3>1 DEF PaidFor, Owed, Arrived, TypeOK
    <3>. QED BY <1>0, <2>2, <3>2, <3>3 DEF SerialInv
  <2>5. CASE run' = [run EXCEPT !.status = "failed"] /\ arrivals' = arrivals
    <3>1. run'.status = "failed"
      BY <2>1, <2>5 DEF Run
    <3>2. \A n \in Steps : PaidFor(n)'
      BY <1>0, <2>1, <2>3, <2>5, <3>1 DEF PaidFor, Owed, TypeOK
    <3>. QED BY <1>0, <2>2, <3>1, <3>2 DEF SerialInv, OpenRunKeepsPosition
  <2>. QED BY <1>1, <2>4, <2>5 DEF Start
<1>2. ASSUME NEW r \in Requests, NEW u \in People, NEW d \in Decisions, Read(r, u, d)
      PROVE  SerialInv'
  <2>1. /\ run' = run /\ ran' = ran /\ arrivals' = arrivals /\ failures' = failures
        /\ run.status = "waiting_approval" /\ req[r].phase = "idle"
        /\ \A s \in Requests : s = r
    BY <1>2 DEF Read, OneAtATime
  <2>2. req'[r].phase = "read" /\ req'[r].run = run
    BY <1>0, <1>2 DEF Read, TypeOK
  <2>3. \A s \in Requests : ReadIsCurrent(req[s])'
    BY <2>1, <2>2 DEF ReadIsCurrent
  <2>4. \A n \in Steps : PaidFor(n)'
    BY <2>1, <2>2 DEF SerialInv, PaidFor, Owed
  <2>. QED BY <1>0, <2>1, <2>3, <2>4 DEF SerialInv, OpenRunKeepsPosition
<1>3. ASSUME NEW r \in Requests, Partial(r)
      PROVE  SerialInv'
  <2>1. /\ req[r].phase = "read" /\ run' = [Signed(req[r]) EXCEPT !.status = "waiting_approval", !.state = run.state]
        /\ req' = [req EXCEPT ![r] = Idle] /\ ran' = ran /\ arrivals' = arrivals /\ failures' = failures
    BY <1>3 DEF Partial
  <2>2. /\ req[r] \in Request /\ req[r].run = run /\ run.status = "waiting_approval"
        /\ run.state \in Steps /\ run.pending = run.state /\ req[r].user \in People
        /\ \A s \in Requests : s = r
    BY <2>1, AloneReads
  <2>3. Signed(req[r]) \in Run /\ Signed(req[r]).pending = run.pending
    BY <2>2, SignedType DEF Signed, Request, Run
  <2>4. run'.status = "waiting_approval" /\ run'.state = run.state /\ run'.pending = run.pending
    BY <2>1, <2>3 DEF Run
  <2>5. req'[r].phase = "idle"
    BY <1>0, <2>1 DEF TypeOK, Idle
  <2>6. \A s \in Requests : ReadIsCurrent(req[s])'
    BY <2>2, <2>5 DEF ReadIsCurrent
  <2>7. \A n \in Steps : PaidFor(n)'
    BY <2>1, <2>2, <2>4, <2>5 DEF SerialInv, PaidFor, Owed
  <2>. QED BY <1>0, <2>2, <2>4, <2>6, <2>7, StepsAssumption DEF SerialInv, OpenRunKeepsPosition
<1>4. ASSUME NEW r \in Requests, Resume(r)
      PROVE  SerialInv'
  <2>1. /\ req[r].phase = "read" /\ ran' = [ran EXCEPT ![req[r].run.state] = @ + 1]
        /\ req' = [req EXCEPT ![r].phase = "resume"]
        /\ run' = run /\ arrivals' = arrivals /\ failures' = failures
    BY <1>4 DEF Resume
  <2>2. /\ req[r] \in Request /\ req[r].run = run /\ run.status = "waiting_approval"
        /\ run.state \in Steps /\ \A s \in Requests : s = r
    BY <2>1, AloneReads
  <2>3. req'[r].phase = "resume" /\ req'[r].run = run
    BY <1>0, <2>1, <2>2 DEF TypeOK, Request
  <2>4. \A s \in Requests : ReadIsCurrent(req[s])'
    BY <2>1, <2>2, <2>3 DEF ReadIsCurrent
  <2>5. Owed(run.state) /\ \A n \in Steps : ~Owed(n)'
    BY <2>1, <2>2, <2>3 DEF Owed
  <2>6. ASSUME NEW n \in Steps
        PROVE  PaidFor(n)'
    <3>1. /\ ran[n] \in Nat /\ arrivals[n] \in Nat /\ failures \in Nat /\ PaidFor(n)
          /\ ran'[n] = IF n = run.state THEN ran[n] + 1 ELSE ran[n]
      BY <1>0, <2>1, <2>2 DEF TypeOK, SerialInv
    <3>. QED BY <2>1, <2>5, <3>1 DEF PaidFor
  <2>. QED BY <1>0, <2>1, <2>4, <2>6 DEF SerialInv, OpenRunKeepsPosition
<1>5. ASSUME NEW r \in Requests, Finish(r)
      PROVE  SerialInv'
  <2>. DEFINE next == Leads[req[r].run.state][req[r].decision]
  <2>1. /\ req[r].phase = "resume" /\ run' = StoppedAt(Signed(req[r]), next)
        /\ arrivals' = Arrived(next) /\ req' = [req EXCEPT ![r] = Idle]
        /\ ran' = ran /\ failures' = failures
    BY <1>5 DEF Finish
  <2>2. /\ req[r] \in Request /\ req[r].run = run /\ run.state \in Steps /\ run.pending = run.state
        /\ req[r].user \in People /\ req[r].decision \in Decisions /\ \A s \in Requests : s = r
    BY <2>1, AloneReads
  <2>3. next \in Steps \cup {End} /\ Signed(req[r]) \in Run
    BY <2>2, SignedType, StepsAssumption
  <2>4. /\ run'.status = "waiting_approval" <=> next # End
        /\ next # End => run'.state = next /\ run'.pending = next /\ next \in Steps
    BY <2>1, <2>3, StoppedPosition
  <2>5. req'[r].phase = "idle"
    BY <1>0, <2>1 DEF TypeOK, Idle
  <2>6. \A s \in Requests : ReadIsCurrent(req[s])'
    BY <2>2, <2>5 DEF ReadIsCurrent
  <2>7. ASSUME NEW n \in Steps
        PROVE  PaidFor(n)'
    <3>1. /\ ran[n] \in Nat /\ arrivals[n] \in Nat /\ failures \in Nat
          /\ ran[n] <= arrivals[n] + failures
      BY <1>0 DEF TypeOK, SerialInv, PaidFor
    <3>2. arrivals'[n] = arrivals[n] + IF n = next THEN 1 ELSE 0
      BY <2>1 DEF Arrived
    <3>3. Owed(n)' => n = next
      BY <2>3, <2>4 DEF Owed
    <3>4. ran'[n] = ran[n] /\ failures' = failures
      BY <2>1
    <3>5. ran[n] + (IF Owed(n)' THEN 1 ELSE 0) <= arrivals[n] + (IF n = next THEN 1 ELSE 0) + failures
      <4>1. \A a, b, k, l \in {0, 1} : (a = 1 => b = 1) /\ ran[n] <= arrivals[n] + failures
               => ran[n] + a <= arrivals[n] + b + failures
        BY <3>1
      <4>. QED BY <3>1, <3>3, <4>1
    <3>. QED BY <3>2, <3>4, <3>5 DEF PaidFor
  <2>. QED BY <1>0, <2>4, <2>6, <2>7, StepsAssumption DEF SerialInv, OpenRunKeepsPosition
<1>6. ASSUME NEW r \in Requests, Fail(r)
      PROVE  SerialInv'
  <2>1. /\ req[r].phase = "resume" /\ failures' = failures + 1 /\ req' = [req EXCEPT ![r] = Idle]
        /\ run' = run /\ ran' = ran /\ arrivals' = arrivals
    BY <1>6 DEF Fail
  <2>2. \A s \in Requests : s = r
    BY DEF OneAtATime
  <2>3. req'[r].phase = "idle"
    BY <1>0, <2>1 DEF TypeOK, Idle
  <2>4. \A s \in Requests : ReadIsCurrent(req[s])'
    BY <2>2, <2>3 DEF ReadIsCurrent
  <2>5. \A n \in Steps : PaidFor(n)'
    BY <1>0, <2>1 DEF TypeOK, SerialInv, PaidFor
  <2>. QED BY <1>0, <2>1, <2>4, <2>5 DEF SerialInv, OpenRunKeepsPosition
<1>7. CASE UNCHANGED vars
  BY <1>0, <1>7 DEF vars, SerialInv, ReadIsCurrent, OpenRunKeepsPosition, PaidFor, Owed
<1>. QED BY <1>1, <1>2, <1>3, <1>4, <1>5, <1>6, <1>7 DEF Next

\* The invariant holds as long as decisions do not overlap.
LEMMA AlwaysSerial ==
  ASSUME OneAtATime
  PROVE  Spec => []SerialInv
<1>1. SerialInv /\ [Next]_vars => SerialInv'
  BY NextSerial
<1>. QED BY <1>1, InitSerial, PTL DEF Spec

\* The decision handler: a run that waits keeps the position it is resumed from, and
\* that is the step people are asked about, whatever was decided, partly or not.
THEOREM OpenRunsCanBeDecided ==
  ASSUME OneAtATime
  PROVE  Spec => []OpenRunKeepsPosition
<1>1. SerialInv => OpenRunKeepsPosition
  BY DEF SerialInv
<1>. QED BY <1>1, AlwaysSerial, PTL

\* resumeWorkflow in its transaction: the steps after an approval run once for every
\* time the run came there, and once more for every resume that failed.
THEOREM StepsRunOnce ==
  ASSUME OneAtATime
  PROVE  Spec => []StepsRunOncePerWait
<1>1. SerialInv => StepsRunOncePerWait
  BY DEF SerialInv, StepsRunOncePerWait, PaidFor, IInv, TypeOK
<1>. QED BY <1>1, AlwaysSerial, PTL

\* nextApprovalState: every decision stays on the trail of approvals, in order.
THEOREM TrailIsKept ==
  ASSUME OneAtATime
  PROVE  Spec => TrailGrows
<1>. DEFINE Kept(t) == Len(t) >= Len(run.approvals) /\ SubSeq(t, 1, Len(run.approvals)) = run.approvals
<1>1. ASSUME SerialInv, [Next]_vars
      PROVE  Kept(run'.approvals)
  <2>0. run \in Run /\ run.approvals \in Seq(Approval) /\ Len(run.approvals) \in Nat
    BY <1>1 DEF SerialInv, IInv, TypeOK, Run
  <2>1. Kept(run.approvals)
    BY <2>0
  <2>2. ASSUME NEW a \in Approval
        PROVE  Kept(Append(run.approvals, a))
    BY <2>0
  <2>3. CASE Start
    <3>1. StoppedAt(run, First).approvals = run.approvals
      BY <2>0, StoppedPosition, StepsAssumption
    <3>2. [run EXCEPT !.status = "failed"].approvals = run.approvals
      BY <2>0 DEF Run
    <3>. QED BY <2>1, <2>3, <3>1, <3>2 DEF Start
  <2>4. ASSUME NEW r \in Requests, Partial(r) \/ Finish(r)
        PROVE  Kept(run'.approvals)
    <3>. DEFINE q == req[r]
    <3>1. /\ q \in Request /\ q.run = run /\ run.state \in Steps /\ run.pending = run.state
          /\ q.user \in People /\ q.decision \in Decisions
      <4>1. q.phase # "idle"
        BY <2>4 DEF Partial, Finish
      <4>. QED BY <1>1, <4>1, AloneReads
    <3>. DEFINE a == [node |-> run.pending, by |-> q.user, decision |-> q.decision]
    <3>2. a \in Approval
      BY <3>1 DEF Approval
    <3>3. Signed(q) \in Run /\ Signed(q).approvals = Append(run.approvals, a)
      BY <3>1, SignedType DEF Signed, Trail, Run
    <3>4. run'.approvals = Signed(q).approvals
      <4>1. CASE Partial(r)
        BY <3>3, <4>1 DEF Partial, Run
      <4>2. CASE Finish(r)
        <5>1. Leads[q.run.state][q.decision] \in Steps \cup {End}
          BY <3>1, StepsAssumption
        <5>. QED BY <3>3, <4>2, <5>1, StoppedPosition DEF Finish
      <4>. QED BY <2>4, <4>1, <4>2
    <3>. QED BY <2>2, <3>2, <3>3, <3>4
  <2>5. CASE run' = run
    BY <2>1, <2>5
  <2>. QED BY <1>1, <2>3, <2>4, <2>5 DEF Next, Read, Resume, Fail, vars
<1>2. SerialInv /\ [Next]_vars => [Kept(run'.approvals)]_vars
  BY <1>1
<1>. QED BY <1>2, AlwaysSerial, PTL DEF TrailGrows, Spec
=============================================================================
