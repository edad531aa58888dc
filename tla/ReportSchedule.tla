--------------------------- MODULE ReportSchedule ---------------------------
(***************************************************************************)
(* modules/reporting/reporting.scheduler.ts: every API process polls for   *)
(* due report schedules once a minute, whether or not its last poll has    *)
(* ended, behind one advisory lock that belongs to a database session.     *)
(*                                                                         *)
(* Covered: processes that die and are restarted, the session of the lock  *)
(* lost under a poll, statements that fail, Send Now beside a poll,        *)
(* switching a schedule off and on.  A schedule comes due again a day      *)
(* later at the earliest: not while it is being sent.                      *)
(***************************************************************************)
EXTENDS Naturals, FiniteSets

CONSTANTS
  Instances,  \* API processes
  Polls,      \* polls that may be under way
  HostOf,     \* the process of a poll
  Schedules,  \* rows of report_schedules
  MaxFaults,  \* bound on crashes, lost sessions and failed statements
  Nobody      \* no poll, no schedule

ASSUME PollsAssumption == IsFiniteSet(Polls)
ASSUME HostAssumption == HostOf \in [Polls -> Instances]
ASSUME NobodyAssumption == Nobody \notin Polls /\ Nobody \notin Schedules
ASSUME MaxFaultsAssumption == MaxFaults \in Nat

VARIABLES
  up,       \* processes that run
  lock,     \* the poll whose session holds the advisory lock, or Nobody
  poll,     \* poll[p]: where it is, the due list it read, the row it is at
  click,    \* the schedule a Send Now is about to mark as sent, or Nobody
  enabled,  \* schedules that are switched on
  due,      \* schedules whose nextRunAt has passed
  sent,     \* history: times polls sent a schedule since it last came due
  faults    \* faults so far

vars == <<up, lock, poll, click, enabled, due, sent, faults>>

Steps == {"idle", "list", "next", "deliver", "update", "unlock"}
Poll == [step : Steps, todo : SUBSET Schedules, at : Schedules \cup {Nobody}]

TypeOK ==
  /\ up \subseteq Instances
  /\ lock \in Polls \cup {Nobody}
  /\ poll \in [Polls -> Poll]
  /\ click \in Schedules \cup {Nobody}
  /\ enabled \subseteq Schedules
  /\ due \subseteq Schedules
  /\ sent \in [Schedules -> Nat]
  /\ faults \in 0..MaxFaults

Idle == [step |-> "idle", todo |-> {}, at |-> Nobody]

Init ==
  /\ up = {} /\ lock = Nobody
  /\ poll = [p \in Polls |-> Idle]
  /\ click = Nobody
  /\ enabled = Schedules /\ due = {}
  /\ sent = [s \in Schedules |-> 0]
  /\ faults = 0

-----------------------------------------------------------------------------

(* nextRunAt of a schedule passes.                                         *)
ComesDue(s) ==
  /\ s \notin due /\ click # s
  /\ \A p \in Polls : poll[p].at # s
  /\ due' = due \cup {s}
  /\ sent' = [sent EXCEPT ![s] = 0]
  /\ UNCHANGED <<up, lock, poll, click, enabled, faults>>

(* updateReportScheduleHandler, of the switch.                             *)
Switch(s) ==
  /\ enabled' = IF s \in enabled THEN enabled \ {s} ELSE enabled \cup {s}
  /\ UNCHANGED <<up, lock, poll, click, due, sent, faults>>

(* The supervisor starts the process; startReportingScheduler polls.       *)
Start(i) ==
  /\ i \notin up
  /\ up' = up \cup {i}
  /\ UNCHANGED <<lock, poll, click, enabled, due, sent, faults>>

(* pg_try_advisory_lock: who does not get it gives up until the next poll. *)
(* Mutant: the lock is not asked for.                                      *)
AlwaysFree == TRUE
LockFree == lock = Nobody

(* The lock is of the poll's own session.  Mutant: of its process.         *)
ProcessOwns(p) == HostOf[p]
Owner(p) == p

TryLock(p) ==
  /\ HostOf[p] \in up /\ poll[p].step = "idle"
  /\ LockFree
  /\ lock' = Owner(p)
  /\ poll' = [poll EXCEPT ![p].step = "list"]
  /\ UNCHANGED <<up, click, enabled, due, sent, faults>>

List(p) ==
  /\ poll[p].step = "list"
  /\ poll' = [poll EXCEPT ![p].step = "next", ![p].todo = enabled \cap due]
  /\ UNCHANGED <<up, lock, click, enabled, due, sent, faults>>

(* runReportSchedule for the rows of the list, one after the other.        *)
Take(p) ==
  /\ poll[p].step = "next"
  /\ \/ \E s \in poll[p].todo :
          poll' = [poll EXCEPT ![p] = [step |-> "deliver", todo |-> @.todo \ {s}, at |-> s]]
     \/ poll[p].todo = {} /\ poll' = [poll EXCEPT ![p].step = "unlock"]
  /\ UNCHANGED <<up, lock, click, enabled, due, sent, faults>>

(* The mails go out, or the report cannot be built.  Either is recorded.   *)
Deliver(p) ==
  /\ poll[p].step = "deliver"
  /\ \/ sent' = [sent EXCEPT ![poll[p].at] = @ + 1]
     \/ UNCHANGED sent
  /\ poll' = [poll EXCEPT ![p].step = "update"]
  /\ UNCHANGED <<up, lock, click, enabled, due, faults>>

Moved(s) == due \ {s}

Update(p) ==
  /\ poll[p].step = "update"
  /\ due' = Moved(poll[p].at)
  /\ poll' = [poll EXCEPT ![p].step = "next", ![p].at = Nobody]
  /\ UNCHANGED <<up, lock, click, enabled, sent, faults>>

Released(p) == lock' = IF lock = p THEN Nobody ELSE lock

Unlock(p) ==
  /\ poll[p].step = "unlock"
  /\ Released(p)
  /\ poll' = [poll EXCEPT ![p] = Idle]
  /\ UNCHANGED <<up, click, enabled, due, sent, faults>>

(* Send Now takes no lock: it sends, then moves nextRunAt.                 *)
SendNow(s) ==
  /\ click = Nobody
  /\ click' = s
  /\ UNCHANGED <<up, lock, poll, enabled, due, sent, faults>>

SentNow ==
  /\ click # Nobody
  /\ due' = due \ {click}
  /\ click' = Nobody
  /\ UNCHANGED <<up, lock, poll, enabled, sent, faults>>

-----------------------------------------------------------------------------
(* Faults.                                                                 *)

Fault == faults < MaxFaults /\ faults' = faults + 1

(* The sessions of a process end with it, and with them the lock.          *)
(* Mutant: the lock outlives its process.                                  *)
KeepsLock(i) == lock
WithoutHost(i) == IF lock # Nobody /\ HostOf[lock] = i THEN Nobody ELSE lock

Crash(i) ==
  /\ i \in up /\ Fault
  /\ up' = up \ {i}
  /\ poll' = [p \in Polls |-> IF HostOf[p] = i THEN Idle ELSE poll[p]]
  /\ lock' = WithoutHost(i)
  /\ UNCHANGED <<click, enabled, due, sent>>

(* The session of the lock ends; the poll does not use it until the end.   *)
LoseLock ==
  /\ lock # Nobody /\ Fault
  /\ lock' = Nobody
  /\ UNCHANGED <<up, poll, click, enabled, due, sent>>

(* A statement fails: the rest of the list is skipped.                     *)
StatementFails(p) ==
  /\ poll[p].step \in {"list", "deliver", "update"} /\ Fault
  /\ poll' = [poll EXCEPT ![p] = [step |-> "unlock", todo |-> {}, at |-> Nobody]]
  /\ UNCHANGED <<up, lock, click, enabled, due, sent>>

Work(p) == TryLock(p) \/ List(p) \/ Take(p) \/ Deliver(p) \/ Update(p) \/ Unlock(p)

Next ==
  \/ \E s \in Schedules : ComesDue(s) \/ Switch(s) \/ SendNow(s)
  \/ SentNow
  \/ \E i \in Instances : Start(i) \/ Crash(i)
  \/ \E p \in Polls : Work(p) \/ StatementFails(p)
  \/ LoseLock

(* The timer fires again and again, a poll goes on while its process runs, *)
(* and a process that exits is started again (src/index.ts).               *)
Fairness ==
  /\ \A i \in Instances : WF_vars(Start(i))
  /\ \A p \in Polls : WF_vars(Work(p))

Spec == Init /\ [][Next]_vars /\ Fairness

-----------------------------------------------------------------------------
(* Properties.                                                             *)

(* Two processes, or two polls of one, never send the same due schedule    *)
(* twice when nothing fails, Send Now or not: "two instances can't both    *)
(* pick up and send the same due schedule".  Each fault, a crash, a lost   *)
(* session of the lock or a failed statement, costs one more copy at most. *)
OnceMorePerFault == \A s \in Schedules : sent[s] <= 1 + faults

(* A schedule that is due and on is dealt with, whatever crashes: a poll   *)
(* that dies or loses its session never blocks the ones after it.          *)
DueIsDealtWith == \A s \in Schedules : s \in due ~> s \notin due \/ s \notin enabled
=============================================================================
