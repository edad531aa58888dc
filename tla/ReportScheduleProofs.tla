------------------------ MODULE ReportScheduleProofs ------------------------
(* Why a report schedule is sent once, and once more per fault at most,    *)
(* for any number of processes, polls, schedules and faults.               *)
EXTENDS ReportSchedule, FiniteSetTheorems, TLAPS

-----------------------------------------------------------------------------
(* The inductive invariant. *)

\* A poll that may still send s from the list it read.
Holds(p, s) == s \in poll[p].todo \/ (poll[p].step = "deliver" /\ poll[p].at = s)

\* Polls that lost the lock and may send s all the same.
Stale(s) == {p \in Polls : p # lock /\ (poll[p].step = "list" \/ Holds(p, s))}

\* The holder of the lock has sent s and has not moved its nextRunAt yet.
BeingMoved(s) == lock # Nobody /\ poll[lock].step = "update" /\ poll[lock].at = s

\* The holder of the lock, or the next one, may send s.
Sendable(s) == (s \in due \/ (lock # Nobody /\ Holds(lock, s))) /\ ~BeingMoved(s)

Fresh(s) == IF Sendable(s) THEN 1 ELSE 0

\* What a poll holds agrees with the step it is at.
PollOK(p) ==
  /\ poll[p].step = "idle" => poll[p].todo = {}
  /\ poll[p].step \in {"deliver", "update"} => poll[p].at \in Schedules \ poll[p].todo

\* Every stale poll was paid for by a fault, and so was every copy but one.
Paid(s) ==
  /\ Cardinality(Stale(s)) <= faults
  /\ sent[s] + Cardinality(Stale(s)) + Fresh(s) <= 1 + faults

IInv ==
  /\ TypeOK
  /\ \A p \in Polls : PollOK(p)
  /\ \A s \in Schedules : Paid(s)

-----------------------------------------------------------------------------
(* Type correctness and the steps of a poll *)

\* The state of a poll that does nothing is a poll.
LEMMA IdleType == Idle \in Poll
BY DEF Idle, Poll, Steps

\* A fault keeps the count of faults within its bound.
LEMMA FaultType ==
  ASSUME faults \in 0..MaxFaults, Fault
  PROVE  /\ faults' \in 0..MaxFaults /\ faults' = faults + 1
BY MaxFaultsAssumption DEF Fault

\* Every step keeps the variables well typed.
LEMMA TypeStep == TypeOK /\ [Next]_vars => TypeOK'
<1>. SUFFICES ASSUME TypeOK, [Next]_vars
     PROVE  TypeOK'
  OBVIOUS
<1>. USE DEF TypeOK
<1>1. ASSUME NEW s \in Schedules, ComesDue(s)
      PROVE  TypeOK'
  BY <1>1 DEF ComesDue
<1>2. ASSUME NEW s \in Schedules, Switch(s) \/ SendNow(s)
      PROVE  TypeOK'
  BY <1>2 DEF Switch, SendNow
<1>3. CASE SentNow
  BY <1>3 DEF SentNow
<1>4. ASSUME NEW i \in Instances, Start(i)
      PROVE  TypeOK'
  BY <1>4 DEF Start
<1>5. ASSUME NEW i \in Instances, Crash(i)
      PROVE  TypeOK'
  BY <1>5, IdleType, FaultType DEF Crash, WithoutHost
<1>6. ASSUME NEW p \in Polls, TryLock(p) \/ List(p)
      PROVE  TypeOK'
  BY <1>6 DEF TryLock, List, Owner, Poll, Steps
<1>7. ASSUME NEW p \in Polls, Take(p)
      PROVE  TypeOK'
  BY <1>7 DEF Take, Poll, Steps
<1>8. ASSUME NEW p \in Polls, Deliver(p)
      PROVE  TypeOK'
  <2>1. poll' \in [Polls -> Poll]
    BY <1>8 DEF Deliver, Poll, Steps
  <2>2. sent' \in [Schedules -> Nat]
    BY <1>8 DEF Deliver
  <2>. QED BY <1>8, <2>1, <2>2 DEF Deliver
<1>9. ASSUME NEW p \in Polls, Update(p) \/ Unlock(p)
      PROVE  TypeOK'
  BY <1>9, IdleType DEF Update, Unlock, Released, Moved, Poll, Steps
<1>10. ASSUME NEW p \in Polls, StatementFails(p)
       PROVE  TypeOK'
  BY <1>10, FaultType DEF StatementFails, Poll, Steps
<1>11. CASE LoseLock
  BY <1>11, FaultType DEF LoseLock
<1>12. CASE UNCHANGED vars
  BY <1>12 DEF vars
<1>. QED BY <1>1, <1>2, <1>3, <1>4, <1>5, <1>6, <1>7, <1>8, <1>9, <1>10, <1>11, <1>12
         DEF Next, Work

\* Every step keeps what a poll holds in agreement with the step it is at.
LEMMA PollStep ==
  ASSUME TypeOK, [Next]_vars, \A p \in Polls : PollOK(p)
  PROVE  \A p \in Polls : PollOK(p)'
<1>. SUFFICES ASSUME NEW p \in Polls
     PROVE  PollOK(p)'
  OBVIOUS
<1>. USE DEF TypeOK, PollOK
<1>1. CASE UNCHANGED poll
  BY <1>1
<1>2. ASSUME NEW q \in Polls, TryLock(q)
      PROVE  PollOK(p)'
  BY <1>2 DEF TryLock, Poll, Steps
<1>3. ASSUME NEW q \in Polls, List(q)
      PROVE  PollOK(p)'
  BY <1>3 DEF List, Poll, Steps
<1>4. ASSUME NEW q \in Polls, Take(q)
      PROVE  PollOK(p)'
  BY <1>4 DEF Take, Poll, Steps
<1>5. ASSUME NEW q \in Polls, Deliver(q)
      PROVE  PollOK(p)'
  BY <1>5 DEF Deliver, Poll, Steps
<1>6. ASSUME NEW q \in Polls, Update(q) \/ Unlock(q)
      PROVE  PollOK(p)'
  BY <1>6 DEF Update, Unlock, Idle, Poll, Steps
<1>7. ASSUME NEW q \in Polls, StatementFails(q)
      PROVE  PollOK(p)'
  BY <1>7 DEF StatementFails, Poll, Steps
<1>8. ASSUME NEW i \in Instances, Crash(i)
      PROVE  PollOK(p)'
  BY <1>8 DEF Crash, Idle
<1>9. UNCHANGED poll \/ (\E q \in Polls : Work(q) \/ StatementFails(q)) \/ \E i \in Instances : Crash(i)
  BY DEF Next, vars, ComesDue, Switch, SendNow, SentNow, Start, LoseLock
<1>. QED BY <1>1, <1>2, <1>3, <1>4, <1>5, <1>6, <1>7, <1>8, <1>9 DEF Work

-----------------------------------------------------------------------------
(* What a copy costs *)

\* The stale polls of a schedule can be counted.
LEMMA StaleFinite ==
  ASSUME NEW s
  PROVE  IsFiniteSet(Stale(s)) /\ Cardinality(Stale(s)) \in Nat
BY PollsAssumption, FS_Subset, FS_CardinalityType DEF Stale

\* The same, after a step.
LEMMA StaleFiniteNext ==
  ASSUME NEW s
  PROVE  IsFiniteSet(Stale(s)') /\ Cardinality(Stale(s)') \in Nat
BY PollsAssumption, FS_Subset, FS_CardinalityType DEF Stale

\* A step that makes no poll stale, and pays for the copies it adds.
LEMMA NoneGoesStale ==
  ASSUME NEW s \in Schedules, TypeOK, TypeOK', Paid(s),
         Stale(s)' \subseteq Stale(s), faults <= faults',
         sent'[s] + Fresh(s)' + faults <= sent[s] + Fresh(s) + faults'
  PROVE  Paid(s)'
<1>1. Cardinality(Stale(s)') <= Cardinality(Stale(s))
  BY StaleFinite, FS_Subset
<1>2. /\ faults \in Nat /\ faults' \in Nat
      /\ sent[s] \in Nat /\ sent'[s] \in Nat
      /\ Fresh(s) \in Nat /\ Fresh(s)' \in Nat
      /\ Cardinality(Stale(s)) \in Nat /\ Cardinality(Stale(s)') \in Nat
  BY StaleFinite, StaleFiniteNext, MaxFaultsAssumption DEF TypeOK, Fresh
<1>3. /\ Cardinality(Stale(s)) <= faults
      /\ sent[s] + Cardinality(Stale(s)) + Fresh(s) <= 1 + faults
  BY DEF Paid
<1>4. /\ Cardinality(Stale(s)') <= faults'
      /\ sent'[s] + Cardinality(Stale(s)') + Fresh(s)' <= 1 + faults'
  BY <1>1, <1>2, <1>3
<1>. QED BY <1>4 DEF Paid

\* Nobody sends and nothing fails: what can still be sent only shrinks.
LEMMA NothingNew ==
  ASSUME NEW s \in Schedules, TypeOK, TypeOK', Paid(s),
         Stale(s)' \subseteq Stale(s), UNCHANGED <<sent, faults>>,
         Sendable(s)' => Sendable(s)
  PROVE  Paid(s)'
BY NoneGoesStale, MaxFaultsAssumption DEF Fresh, TypeOK

-----------------------------------------------------------------------------
(* Every step is paid for *)

\* Coming due again starts a new count: the stale polls were paid for before.
LEMMA ComesDuePaid ==
  ASSUME IInv, TypeOK', NEW s \in Schedules, NEW t \in Schedules, ComesDue(t)
  PROVE  Paid(s)'
<1>1. Stale(s)' = Stale(s)
  BY DEF ComesDue, Stale, Holds
<1>2. CASE s = t
  <2>1. sent'[s] = 0 /\ faults' = faults
    BY <1>2 DEF ComesDue, IInv, TypeOK
  <2>2. faults \in Nat /\ Fresh(s)' \in {0, 1} /\ Cardinality(Stale(s)) <= faults
    BY MaxFaultsAssumption DEF IInv, TypeOK, Paid, Fresh
  <2>. QED BY <1>1, <2>1, <2>2, StaleFinite DEF Paid
<1>3. CASE s # t
  <2>1. Sendable(s)' => Sendable(s)
    BY <1>3 DEF ComesDue, Sendable, BeingMoved, Holds
  <2>2. sent'[s] = sent[s] /\ faults' = faults
    BY <1>3 DEF ComesDue, IInv, TypeOK
  <2>3. sent[s] \in Nat /\ faults \in Nat /\ Paid(s) /\ TypeOK
    BY MaxFaultsAssumption DEF IInv, TypeOK
  <2>. QED BY <1>1, <2>1, <2>2, <2>3, NoneGoesStale DEF Fresh
<1>. QED BY <1>2, <1>3

\* What happens beside the polls sends nothing from their lists.
LEMMA BesidePaid ==
  ASSUME IInv, TypeOK', NEW s \in Schedules,
         \/ \E t \in Schedules : Switch(t) \/ SendNow(t)
         \/ SentNow
         \/ \E i \in Instances : Start(i)
  PROVE  Paid(s)'
<1>1. Stale(s)' \subseteq Stale(s) /\ (Sendable(s)' => Sendable(s)) /\ UNCHANGED <<sent, faults>>
  BY DEF Switch, SendNow, SentNow, Start, Stale, Sendable, BeingMoved, Holds
<1>. QED BY <1>1, NothingNew DEF IInv

\* A poll that gets the lock, reads the list, goes on or ends sends nothing,
\* and reads only what is due.
LEMMA ReadPaid ==
  ASSUME IInv, TypeOK', NEW s \in Schedules, NEW p \in Polls,
         TryLock(p) \/ List(p) \/ Take(p) \/ Unlock(p)
  PROVE  Paid(s)'
<1>. USE DEF Holds, IInv, TypeOK, Poll, Steps
<1>0. p # Nobody /\ PollOK(p)
  BY NobodyAssumption
<1>1. ASSUME TryLock(p)
      PROVE  Stale(s)' \subseteq Stale(s) /\ (Sendable(s)' => Sendable(s))
  <2>1. /\ lock = Nobody /\ lock' = p /\ due' = due
        /\ poll'[p].step = "list" /\ poll'[p].todo = {}
        /\ \A q \in Polls \ {p} : poll'[q] = poll[q]
    BY <1>0, <1>1 DEF TryLock, LockFree, Owner, PollOK
  <2>2. Stale(s)' \subseteq Stale(s)
    BY <1>0, <2>1, NobodyAssumption DEF Stale
  <2>3. Sendable(s)' => Sendable(s)
    BY <1>0, <2>1 DEF Sendable, BeingMoved
  <2>. QED BY <2>2, <2>3
<1>2. ASSUME List(p)
      PROVE  Stale(s)' \subseteq Stale(s) /\ (Sendable(s)' => Sendable(s))
  BY <1>0, <1>2 DEF List, Stale, Sendable, BeingMoved
<1>3. ASSUME Take(p)
      PROVE  Stale(s)' \subseteq Stale(s) /\ (Sendable(s)' => Sendable(s))
  BY <1>0, <1>3 DEF Take, Stale, Sendable, BeingMoved
<1>4. ASSUME Unlock(p)
      PROVE  Stale(s)' \subseteq Stale(s) /\ (Sendable(s)' => Sendable(s))
  BY <1>0, <1>4 DEF Unlock, Released, Idle, Stale, Sendable, BeingMoved
<1>5. UNCHANGED <<sent, faults>>
  BY DEF TryLock, List, Take, Unlock
<1>. QED BY <1>1, <1>2, <1>3, <1>4, <1>5, NothingNew

\* Moving nextRunAt takes the schedule off what is due.
LEMMA UpdatePaid ==
  ASSUME IInv, TypeOK', NEW s \in Schedules, NEW p \in Polls, Update(p)
  PROVE  Paid(s)'
<1>. USE DEF Holds, IInv, TypeOK, Poll, Steps
<1>1. /\ p # Nobody /\ poll[p].step = "update" /\ poll[p].at \in Schedules \ poll[p].todo
      /\ due' = due \ {poll[p].at} /\ UNCHANGED <<lock, sent, faults>>
      /\ poll'[p].step = "next" /\ poll'[p].todo = poll[p].todo
      /\ \A q \in Polls \ {p} : poll'[q] = poll[q]
  BY NobodyAssumption DEF Update, Moved, PollOK
<1>2. Stale(s)' \subseteq Stale(s)
  BY <1>1 DEF Stale
<1>3. Sendable(s)' => Sendable(s)
  BY <1>1 DEF Sendable, BeingMoved
<1>. QED BY <1>1, <1>2, <1>3, NothingNew

\* A copy uses up the right of the holder of the lock, or of a stale poll.
LEMMA DeliverPaid ==
  ASSUME IInv, TypeOK', NEW s \in Schedules, NEW p \in Polls, Deliver(p)
  PROVE  Paid(s)'
<1>. USE DEF Holds, IInv, TypeOK, Poll, Steps
<1>1. /\ p # Nobody /\ poll[p].step = "deliver" /\ poll[p].at \in Schedules \ poll[p].todo
      /\ UNCHANGED <<lock, due, faults>>
      /\ poll'[p].step = "update" /\ poll'[p].todo = poll[p].todo /\ poll'[p].at = poll[p].at
      /\ \A q \in Polls \ {p} : poll'[q] = poll[q]
  BY NobodyAssumption DEF Deliver, PollOK
<1>2. /\ sent'[s] = sent[s] \/ (s = poll[p].at /\ sent'[s] = sent[s] + 1)
      /\ sent[s] \in Nat /\ faults \in Nat /\ Fresh(s) \in {0, 1} /\ Fresh(s)' \in {0, 1}
  BY MaxFaultsAssumption DEF Deliver, Fresh
<1>3. Stale(s)' \subseteq Stale(s)
  BY <1>1 DEF Stale
<1>4. Sendable(s)' => Sendable(s)
  BY <1>1 DEF Sendable, BeingMoved
<1>5. Fresh(s)' <= Fresh(s)
  BY <1>4 DEF Fresh
<1>6. CASE sent'[s] = sent[s]
  BY <1>1, <1>2, <1>3, <1>5, <1>6, NoneGoesStale
<1>7. CASE s = poll[p].at /\ sent'[s] = sent[s] + 1 /\ p = lock
  <2>1. Sendable(s) /\ ~Sendable(s)'
    BY <1>1, <1>7 DEF Sendable, BeingMoved
  <2>2. Fresh(s) = 1 /\ Fresh(s)' = 0
    BY <2>1 DEF Fresh
  <2>3. sent'[s] + Fresh(s)' + faults <= sent[s] + Fresh(s) + faults' /\ faults <= faults'
    BY <1>1, <1>2, <1>7, <2>2
  <2>. QED BY <1>3, <2>3, NoneGoesStale
<1>8. CASE s = poll[p].at /\ sent'[s] = sent[s] + 1 /\ p # lock
  <2>1. p \in Stale(s) /\ Stale(s)' \subseteq Stale(s) \ {p}
    BY <1>1, <1>3, <1>8 DEF Stale
  <2>2. /\ IsFiniteSet(Stale(s) \ {p})
        /\ Cardinality(Stale(s) \ {p}) = Cardinality(Stale(s)) - 1
    <3>1. /\ IsFiniteSet(Stale(s) \ {p})
          /\ Cardinality(Stale(s) \ {p}) =
               IF p \in Stale(s) THEN Cardinality(Stale(s)) - 1 ELSE Cardinality(Stale(s))
      BY StaleFinite, FS_RemoveElement, Zenon
    <3>. QED BY <2>1, <3>1
  <2>3. Cardinality(Stale(s)') <= Cardinality(Stale(s)) - 1
    BY <2>1, <2>2, FS_Subset
  <2>4. /\ Cardinality(Stale(s)) <= faults
        /\ sent[s] + Cardinality(Stale(s)) + Fresh(s) <= 1 + faults
    BY DEF Paid
  <2>5. /\ Cardinality(Stale(s)') <= faults'
        /\ sent'[s] + Cardinality(Stale(s)') + Fresh(s)' <= 1 + faults'
    BY <1>1, <1>2, <1>5, <1>8, <2>3, <2>4, StaleFinite, StaleFiniteNext
  <2>. QED BY <2>5 DEF Paid
<1>. QED BY <1>2, <1>6, <1>7, <1>8

\* A crash and a failed statement cost what the poll had sent and not recorded.
LEMMA FailurePaid ==
  ASSUME IInv, TypeOK', NEW s \in Schedules,
         \/ \E i \in Instances : Crash(i)
         \/ \E p \in Polls : StatementFails(p)
  PROVE  Paid(s)'
<1>. USE DEF Holds, IInv, TypeOK, Poll, Steps
<1>1. faults' = faults + 1 /\ faults \in Nat /\ sent' = sent /\ sent[s] \in Nat
  BY FaultType, MaxFaultsAssumption DEF Crash, StatementFails
<1>2. Fresh(s) \in {0, 1} /\ Fresh(s)' \in {0, 1}
  BY DEF Fresh
<1>3. ASSUME NEW i \in Instances, Crash(i)
      PROVE  Stale(s)' \subseteq Stale(s)
  BY <1>3, NobodyAssumption DEF Crash, WithoutHost, Idle, Stale
<1>4. ASSUME NEW p \in Polls, StatementFails(p)
      PROVE  Stale(s)' \subseteq Stale(s)
  BY <1>4 DEF StatementFails, Stale
<1>5. sent'[s] + Fresh(s)' + faults <= sent[s] + Fresh(s) + faults' /\ faults <= faults'
  BY <1>1, <1>2
<1>. QED BY <1>3, <1>4, <1>5, NoneGoesStale

\* A lost session makes one poll stale.
LEMMA LoseLockPaid ==
  ASSUME IInv, TypeOK', NEW s \in Schedules, LoseLock
  PROVE  Paid(s)'
<1>. USE DEF Holds, IInv, TypeOK
<1>1. /\ faults' = faults + 1 /\ faults \in Nat /\ sent' = sent /\ sent[s] \in Nat
      /\ lock \in Polls /\ lock' = Nobody /\ poll' = poll /\ due' = due
  BY FaultType, MaxFaultsAssumption DEF LoseLock
<1>2. Fresh(s) \in {0, 1} /\ Fresh(s)' \in {0, 1}
  BY DEF Fresh
<1>3. CASE poll[lock].step = "list" \/ Holds(lock, s)
  <2>1. Stale(s)' \subseteq Stale(s) \cup {lock}
    BY <1>1 DEF Stale
  <2>2. Cardinality(Stale(s)') <= Cardinality(Stale(s)) + 1
    <3>1. /\ IsFiniteSet(Stale(s) \cup {lock})
          /\ Cardinality(Stale(s) \cup {lock}) =
               IF lock \in Stale(s) THEN Cardinality(Stale(s)) ELSE Cardinality(Stale(s)) + 1
      BY StaleFinite, FS_AddElement, Zenon
    <3>2. Cardinality(Stale(s)') <= Cardinality(Stale(s) \cup {lock})
      BY <2>1, <3>1, FS_Subset
    <3>. QED BY <3>1, <3>2, StaleFinite, StaleFiniteNext
  <2>3. Sendable(s)' => Sendable(s)
    BY <1>1, <1>3 DEF Sendable, BeingMoved, PollOK
  <2>4. Fresh(s)' <= Fresh(s)
    BY <2>3 DEF Fresh
  <2>5. /\ Cardinality(Stale(s)) <= faults
        /\ sent[s] + Cardinality(Stale(s)) + Fresh(s) <= 1 + faults
    BY DEF Paid
  <2>6. /\ Cardinality(Stale(s)') <= faults'
        /\ sent'[s] + Cardinality(Stale(s)') + Fresh(s)' <= 1 + faults'
    BY <1>1, <1>2, <2>2, <2>4, <2>5, StaleFinite, StaleFiniteNext
  <2>. QED BY <2>6 DEF Paid
<1>4. CASE ~(poll[lock].step = "list" \/ Holds(lock, s))
  <2>1. Stale(s)' \subseteq Stale(s)
    BY <1>1, <1>4 DEF Stale
  <2>2. sent'[s] + Fresh(s)' + faults <= sent[s] + Fresh(s) + faults' /\ faults <= faults'
    BY <1>1, <1>2
  <2>. QED BY <2>1, <2>2, NoneGoesStale
<1>. QED BY <1>3, <1>4

-----------------------------------------------------------------------------
(* The theorems *)

\* The invariant holds at the start: no poll runs and nothing was sent.
LEMMA InitIInv == Init => IInv
<1>. SUFFICES ASSUME Init
     PROVE  IInv
  OBVIOUS
<1>1. TypeOK
  BY IdleType, MaxFaultsAssumption DEF Init, TypeOK
<1>2. \A p \in Polls : PollOK(p)
  BY DEF Init, PollOK, Idle
<1>3. ASSUME NEW s \in Schedules
      PROVE  Paid(s)
  <2>1. Stale(s) = {}
    BY DEF Init, Stale, Holds, Idle
  <2>2. Cardinality(Stale(s)) = 0 /\ Fresh(s) \in {0, 1} /\ sent[s] = 0 /\ faults = 0
    BY <2>1, FS_EmptySet DEF Init, Fresh
  <2>. QED BY <2>2 DEF Paid
<1>. QED BY <1>1, <1>2, <1>3 DEF IInv

\* Every step keeps the invariant.
LEMMA NextIInv == IInv /\ [Next]_vars => IInv'
<1>. SUFFICES ASSUME IInv, [Next]_vars
     PROVE  IInv'
  OBVIOUS
<1>1. TypeOK'
  BY TypeStep DEF IInv
<1>2. \A p \in Polls : PollOK(p)'
  BY PollStep DEF IInv
<1>3. ASSUME NEW s \in Schedules
      PROVE  Paid(s)'
  <2>1. CASE UNCHANGED vars
    <3>1. Stale(s)' \subseteq Stale(s) /\ (Sendable(s)' => Sendable(s)) /\ UNCHANGED <<sent, faults>>
      BY <2>1 DEF vars, Stale, Sendable, BeingMoved, Holds
    <3>. QED BY <1>1, <3>1, NothingNew DEF IInv
  <2>2. CASE Next
    BY <1>1, <2>2, ComesDuePaid, BesidePaid, ReadPaid, UpdatePaid, DeliverPaid, FailurePaid,
       LoseLockPaid DEF Next, Work
  <2>. QED BY <2>1, <2>2
<1>. QED BY <1>1, <1>2, <1>3 DEF IInv

\* The invariant holds in every state of every behaviour.
THEOREM AlwaysIInv == Spec => []IInv
BY InitIInv, NextIInv, PTL DEF Spec

\* The variables of the scheduler keep their types.
THEOREM TypeCorrect == Spec => []TypeOK
<1>1. IInv => TypeOK
  BY DEF IInv
<1>. QED BY <1>1, AlwaysIInv, PTL

\* pollDueSchedules: a due schedule is sent once, and once more for each crash,
\* lost session of the lock or failed statement at most, however many polls run.
THEOREM SentOnceMorePerFault == Spec => []OnceMorePerFault
<1>1. IInv => OnceMorePerFault
  <2>. SUFFICES ASSUME IInv, NEW s \in Schedules
       PROVE  sent[s] <= 1 + faults
    BY DEF OnceMorePerFault
  <2>1. /\ sent[s] \in Nat /\ faults \in Nat /\ Fresh(s) \in {0, 1}
        /\ Cardinality(Stale(s)) \in Nat
        /\ sent[s] + Cardinality(Stale(s)) + Fresh(s) <= 1 + faults
    BY StaleFinite, MaxFaultsAssumption DEF IInv, TypeOK, Paid, Fresh
  <2>. QED BY <2>1
<1>. QED BY <1>1, AlwaysIInv, PTL
=============================================================================
