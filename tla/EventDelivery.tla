---------------------------- MODULE EventDelivery ----------------------------
(***************************************************************************)
(* The way of a lifecycle event from an API request to the runs it starts: *)
(* lib/eventBus.ts, the Redis stream with its consumer group, and the loop *)
(* of workers/workflow-worker.                                             *)
(*                                                                         *)
(* An event arrives at once, late or never; whether its request commits    *)
(* makes no difference to the worker and is left out.  The worker reads    *)
(* batches, runs every active definition with statements that commit one   *)
(* by one, and acknowledges.  Covered: a worker or Redis connection that   *)
(* dies at any step and is started again, statements of the worker that    *)
(* fail, handlers that throw.  Not covered: loss of the stream itself.     *)
(***************************************************************************)
EXTENDS Naturals, Sequences, FiniteSets, Functions

CONSTANTS
  Requests,     \* API requests, each of which publishes one event
  FollowUp,     \* the mark of an event that an action of a run published
  Definitions,  \* workflow definitions listening to the event
  Count,        \* COUNT of XREADGROUP
  MaxMessages,  \* bound on the stream
  MaxCrashes,   \* bound on deaths of the worker
  MaxErrors     \* bound on statements of the worker that fail

ASSUME CountAssumption == Count \in Nat \ {0}
ASSUME BoundsAssumption == MaxMessages \in Nat /\ MaxCrashes \in Nat /\ MaxErrors \in Nat

VARIABLES
  asked,      \* requests that have called publishEvent
  late,       \* those whose XADD timed out and may still reach Redis
  stream,     \* the stream: the request each message came from
  delivered,  \* last-delivered id of the consumer group
  pending,    \* the group's pending entries: read and not acknowledged
  up,         \* whether the worker process runs
  batch,      \* messages the worker has read and not finished, in order
  todo,       \* definitions it still has to run for the first of them
  phase,      \* where it is: one of Phases
  runs,       \* rows of workflow_runs
  handled,    \* history: messages handed to handleEvent
  crashes, errors

bus == <<asked, late, stream>>
group == <<delivered, pending>>
worker == <<up, batch, todo, phase>>
rows == <<runs, handled>>
faults == <<crashes, errors>>
vars == <<asked, late, stream, delivered, pending, up, batch, todo, phase, runs, handled, crashes, errors>>

(* "completed" and "waiting_approval" are phases too: the outcome about to *)
(* be saved.                                                               *)
Saving == {"completed", "waiting_approval"}
Phases == {"reading", "matching", "executing", "threw", "acking"} \cup Saving
Statuses == {"running", "failed"} \cup Saving

Message == 1..MaxMessages
Run == [msg : Message, def : Definitions, status : Statuses]

TypeOK ==
  /\ asked \subseteq Requests
  /\ late \subseteq asked
  /\ stream \in Seq(Requests \cup {FollowUp}) /\ Len(stream) <= MaxMessages
  /\ delivered \in 0..Len(stream)
  /\ pending \subseteq 1..delivered
  /\ up \in BOOLEAN
  /\ batch \in Seq(Message)
  /\ todo \subseteq Definitions
  /\ phase \in Phases
  /\ runs \in Seq(Run)
  /\ handled \subseteq Message
  /\ crashes \in 0..MaxCrashes
  /\ errors \in 0..MaxErrors

Init ==
  /\ asked = {} /\ late = {} /\ stream = <<>>
  /\ delivered = 0 /\ pending = {}
  /\ up = FALSE /\ batch = <<>> /\ todo = {} /\ phase = "reading"
  /\ runs = <<>> /\ handled = {}
  /\ crashes = 0 /\ errors = 0

-----------------------------------------------------------------------------
(* The API.                                                                *)

CanAppend == Len(stream) < MaxMessages

(* publishEvent: XADD lands, or is still under way when the call gives up, *)
(* or fails; the request goes on whatever happened.                        *)
Publish(q) ==
  /\ q \notin asked
  /\ asked' = asked \cup {q}
  /\ \/ CanAppend /\ stream' = Append(stream, q) /\ UNCHANGED late
     \/ late' = late \cup {q} /\ UNCHANGED stream
     \/ UNCHANGED <<late, stream>>
  /\ UNCHANGED <<group, worker, rows, faults>>

Arrive(q) ==
  /\ q \in late
  /\ CanAppend
  /\ stream' = Append(stream, q)
  /\ late' = late \ {q}
  /\ UNCHANGED <<asked, group, worker, rows, faults>>

-----------------------------------------------------------------------------
(* The worker.                                                             *)

\* Mutants: the group is made anew; it is created at the end of the stream.
StartAnew ==
  /\ ~up
  /\ up' = TRUE /\ delivered' = 0 /\ pending' = {}
  /\ UNCHANGED <<bus, batch, todo, phase, rows, faults>>
StartAtEnd ==
  /\ ~up
  /\ up' = TRUE /\ delivered' = IF delivered = 0 THEN Len(stream) ELSE delivered
  /\ UNCHANGED <<bus, pending, batch, todo, phase, rows, faults>>

(* The group is created at the start of the stream, unless it exists.      *)
Start ==
  /\ ~up
  /\ up' = TRUE
  /\ UNCHANGED <<bus, group, batch, todo, phase, rows, faults>>

(* The process dies, or its connection to Redis does, which makes it exit. *)
Crash ==
  /\ up
  /\ crashes < MaxCrashes
  /\ crashes' = crashes + 1
  /\ up' = FALSE /\ batch' = <<>> /\ todo' = {} /\ phase' = "reading"
  /\ UNCHANGED <<bus, group, rows, errors>>

(* XREADGROUP with id ">": what the group has never handed out.            *)
Unread == Len(stream) - delivered
\* Mutant: more is taken than there is.
TakenAll == Count
Taken == IF Unread < Count THEN Unread ELSE Count
Batch == [i \in 1..Taken |-> delivered + i]

Handed == (delivered + 1)..(delivered + Taken)

ReadGroup ==
  /\ up /\ phase = "reading" /\ batch = <<>>
  /\ Unread > 0
  /\ batch' = Batch
  /\ pending' = pending \cup Handed
  /\ delivered' = delivered + Taken
  /\ UNCHANGED <<bus, up, todo, phase, rows, faults>>

Current == Len(runs)
SetStatus(s) == runs' = [runs EXCEPT ![Current].status = s]

(* handleEvent selects the active definitions of the module.               *)
Match ==
  /\ up /\ phase = "reading" /\ batch # <<>>
  /\ todo' \in SUBSET Definitions
  /\ phase' = "matching"
  /\ handled' = handled \cup {Head(batch)}
  /\ UNCHANGED <<bus, group, up, batch, runs, faults>>

InsertRun ==
  /\ up /\ phase = "matching"
  /\ \E d \in todo :
       /\ runs' = Append(runs, [msg |-> Head(batch), def |-> d, status |-> "running"])
       /\ todo' = todo \ {d}
  /\ phase' = "executing"
  /\ UNCHANGED <<bus, group, up, batch, handled, faults>>

(* executeWorkflow: the run ends, waits for a person or throws; its        *)
(* handlers may have published events of their own.                        *)
Execute ==
  /\ up /\ phase = "executing"
  /\ phase' \in Saving \cup {"threw"}
  /\ \/ UNCHANGED stream
     \/ CanAppend /\ stream' = Append(stream, FollowUp)
  /\ UNCHANGED <<asked, late, group, up, batch, todo, rows, faults>>

SaveResult ==
  /\ up /\ phase \in Saving
  /\ SetStatus(phase)
  /\ phase' = "matching"
  /\ UNCHANGED <<bus, group, up, batch, todo, handled, faults>>

\* Mutant: a failure is logged and nothing else.
LogFailed ==
  /\ up /\ phase = "threw"
  /\ phase' = "matching"
  /\ UNCHANGED <<bus, group, up, batch, todo, rows, faults>>

MarkFailed ==
  /\ up /\ phase = "threw"
  /\ SetStatus("failed")
  /\ phase' = "matching"
  /\ UNCHANGED <<bus, group, up, batch, todo, handled, faults>>

\* Mutant: only a handler that returned is acknowledged.
Unacked == IF phase = "acking" THEN {} ELSE {Head(batch)}
Acked == {Head(batch)}

(* xAck in the finally of the message.                                     *)
Ack ==
  /\ up
  /\ phase = "acking" \/ (phase = "matching" /\ todo = {})
  /\ pending' = pending \ Acked
  /\ batch' = Tail(batch)
  /\ phase' = "reading"
  /\ UNCHANGED <<bus, delivered, up, todo, rows, faults>>

(* A statement fails.  Saving the result is inside the try: the run counts *)
(* as failed.  Anywhere else the error leaves handleEvent: the remaining   *)
(* definitions are skipped and the message is acknowledged.                *)
StatementFails ==
  /\ up
  /\ errors < MaxErrors
  /\ errors' = errors + 1
  /\ \/ /\ phase \in Saving
        /\ phase' = "threw" /\ UNCHANGED todo
        /\ UNCHANGED handled
     \/ /\ \/ phase = "threw"
           \/ phase = "matching" /\ todo # {}
           \/ phase = "reading" /\ batch # <<>>
        /\ phase' = "acking" /\ todo' = {}
        /\ handled' = handled \cup {Head(batch)}
  /\ UNCHANGED <<bus, group, up, batch, runs, crashes>>

Work == ReadGroup \/ Match \/ InsertRun \/ Execute \/ SaveResult \/ MarkFailed \/ Ack

Next ==
  \/ \E q \in Requests : Publish(q) \/ Arrive(q)
  \/ Start \/ Crash \/ StatementFails
  \/ Work

(* The worker's loop goes on by itself while the process lives.  Nothing   *)
(* in the repository restarts it, so Start is not fair.                    *)
Spec == Init /\ [][Next]_vars /\ WF_vars(Work)

-----------------------------------------------------------------------------
(* Properties.                                                             *)

(* An event starts a definition at most once, whatever crashes: a message  *)
(* is acknowledged or lost, never handed out a second time.                *)
AtMostOneRun ==
  \A i, j \in DOMAIN runs :
    runs[i].msg = runs[j].msg /\ runs[i].def = runs[j].def => i = j

Working == phase \in {"executing", "threw"} \cup Saving
Stuck == {i \in DOMAIN runs : runs[i].status = "running" /\ ~(Working /\ i = Current)}

(* A run row stays "running" with nobody working on it only through a      *)
(* crash or a failed statement, and each of those costs one run at most.   *)
StuckRunsHaveACause == Cardinality(Stuck) <= crashes + errors

Stranded == pending \ Range(batch)

(* Only a crash leaves an entry pending that nobody will look at again,    *)
(* and one crash leaves no more than a batch.                              *)
StrandedByCrash == Cardinality(Stranded) <= Count * crashes

(* While the worker stays up, every event on the stream is worked off and  *)
(* acknowledged, also one published before the worker was first started,   *)
(* unless an earlier crash stranded it.                                    *)
WorkedOff ==
  <>[]up => \A m \in Message :
              m \in DOMAIN stream ~> (m \in handled \ pending \/ m \in Stranded)
=============================================================================
