# Verification of AccuQual

AccuQual is a quality-management system: an Express/PostgreSQL API (`services/api`), Redis-fed
workers (`workers/*`) and a React client (`apps/web`). Its core logic is a set of record life cycles
(versions, holds, reports, runs) driven by HTTP requests and by a graph-walking workflow engine.
This directory models the parts where several people, requests, processes or branches meet.

Most requests run in one READ COMMITTED transaction (`lib/requestDb.ts`): it commits when the
answer is below status 400, and rolls back otherwise or when the client goes away. The handlers rarely
take row locks and often write back values they computed from an earlier SELECT. That is the source of
most of the hazards in `PROJECT.json`. Signing in, the workers and the schedulers use the database
without a transaction: there every statement commits by itself.

## Inventory

| Component | State | Operations | Hard part | What makes it correct |
|---|---|---|---|---|
| Version control engine (`modules/versioning`) | rows of `controlled_versions`, the live record, `is_active` | bootstrap, create, save, void, discard, submit, review, publish, roll back | requests overlap between their checks and their UPDATEs by id; deleting the only draft | one open and one published version; released versions frozen; only approved content comes into force |
| Document version control | the same rows, plus reviewer, effective date | the same with other guards | the same | the same |
| Quarantine holds (`modules/quarantine`, `inventoryHolds`) | records, places, decisions, held counters | open, patch, link, relocate, decide, complete a disposition, delete | counters and quantities written back as values | counters equal the open holds; decisions add up; closed is final |
| Inventory (`modules/inventory`) | on-hand per location, lot quantity, state, alerts, reorder requests | receive, issue, adjust, transfer, edit levels, mark, send, ignore, acknowledge | the state is saved, not derived when read; early returns; requests that outlive their shortage | held units are not issued; the state agrees with the stock; shortages are announced and ordered once |
| Reservations (`reserveStock` and its release) | allocated per location | reserve, release, release by age | check then write; the clamp at zero | no negative promise, held units never promised |
| Workflow engine (`workflow-engine.ts`) | stack, visited set, deferred joins, paused node | start, loop iteration, resume | joins, pauses, cycles, revisits | a step runs once, joins wait, nothing is lost, runs end |
| Runs and decisions (`workflow.runs.ts`) | the saved run, its trail of approvals and approved titles | start, decide | two decisions at once; a failing step rolls its own mark back | every title answers; steps run once per wait; an open run can be decided |
| Event bus and workers | Redis stream, consumer group, pending entries, run rows | publish, read, run, acknowledge | late appends, crash before acknowledge, statements that fail | no event acted on twice; each fault costs a bounded number of events and runs |
| Sessions | refresh tokens, version of the person, cookies | sign in, renew, sign out, reset, change, end a browser | tabs renew at once, lost answers, endings under a renewal | no false alarm; what was ended stays ended |
| Scheduled reports (`reporting.scheduler.ts`) | schedules, advisory lock | poll, send, Send Now, switch | several processes, a lost session, crashes | sent once; never blocked for good |
| NCR, receiving, change requests, CAPA, FAI, forms, the other sweeps, client | one row each, mostly | forms over it | few | not modelled, see `PROJECT.json` |

Interaction: request handlers share the database; the version engine writes the live workflow
definition that the workflow engine reads when a run starts; request handlers publish events that the
worker turns into runs; a person's decision resumes a run through the same engine; a nonconformance
report drives holds through its disposition, and holds restrict movements and reservations; workflow
actions call the other modules' services inside the transaction of the decision, or statement by
statement in the worker.

## Modules

| Module | What it is |
|---|---|
| `Versioning` | The version engine for one subject, with requests interleaved |
| `ReleaseCycle` | What version control promises: propose, review, release, and nothing else changes what is in force |
| `Quarantine` | Holds of one inventory item, one lot of it, and its stock |
| `StockLevels` | The stock of one item over its locations, its state, alerts, reorder requests and reservations |
| `WorkflowEngine` | One run of a workflow definition |
| `WorkflowRuns` | The decisions of people on one run, over the engine's walk reduced to its pauses |
| `EventDelivery` | An event from the request that publishes it to the runs it starts |
| `Sessions` | The sign-ins of one person |
| `ReportSchedule` | The pollers of scheduled reports |
| `VersioningProofs`, `QuarantineProofs`, `StockLevelsProofs`, `WorkflowEngineProofs`, `WorkflowRunsProofs`, `EventDeliveryProofs`, `SessionsProofs`, `ReportScheduleProofs` | Proofs about the module they are named after, checked by TLAPS |
| `MC...` | Small instances for TLC, one per module |

The modules meet where the components do. `WorkflowRuns` takes the graph as the constant `Leads`, which
abstracts what `WorkflowEngine` does between two pauses; `Execute` in `EventDelivery` is one whole walk.
`Hold` in `StockLevels` stands for everything `Quarantine` does to the held counter, and `Quarantine`
keeps the lots and the decisions that `StockLevels` leaves out.

### Versioning

A row of `versions` is a row of `controlled_versions`, `live` is what the adapter's `apply` writes,
`req[r]` is what request r has read. Each SELECT a request acts on later is one step (`ReadTarget`,
`CheckOpen`, `ReadPublished`, `ReadNumber`, `Load`, `ReadPrevious`, ...); all writes of a request are one
step with its COMMIT (`InsertDraft`, `Save`, `Submit`, `Review`, `Publish`, ...). Writes can be put
together since requests that write the same row wait for each other and nobody sees them before
the commit. The unique indexes are the guard `InsertAllowed`, the trigger `controlled_versions_freeze`
is `TriggerAllows`, and both make the request roll back. `Abort` is a failure or a client that
goes away at any step.

Abstractions: the payload is a value of `Contents`, `Blank` standing for what `adapter.validate`
refuses; the bootstrap inside create and roll back commits on its own; of the audit and notification
entries nothing is kept. Two initial states occur in the product: a record that pre-dates version
control (`LegacySpec`) and a new workflow created together with its first draft (`Spec` has both). The
variable `voidable` tells the management review and the context, whose versions may be voided, from workflows.
The document subject's own guards are not modelled.

### Quarantine

`records`, `rows` and `decided` are the three quarantine tables, `inv` holds on-hand and held of the item
and of the lot. A request reads the records, then the counters, then writes (`ReadForDecision`,
`ReadCounters`, `Decide`). Writes of counters are values computed from what was read, as in `bump`
and `setOnHand`. Completing an NCR's disposition resolves each of its records in turn; here they are one
commit. One item, one lot, one stock location, so transfers change nothing. Who acts
is left out; costing, opening a hold from a receiving line, and clearing the link when an
NCR is deleted are not modelled.

### StockLevels

An action is a request with all it calls: a movement writes the stock, then `recomputeState` settles the
state, and the state decides about the alerts. `Settled` is the decision of `recomputeState`; `Alerts` is
its early return, `raiseAlertIfNeeded` and `acknowledgeOpenAlerts` together. `alerts` holds the types of
which an alert is open, since a second one of a type is never raised; `pending` counts the reorder
requests that are neither sent nor ignored, since they differ in nothing the handlers ask. `told`, `orders` and
`ignored` are histories of the present shortage, which begins when the item gets below its minimum and
ends when it leaves the three states of being short. Requests do not overlap here. Left out: quantities
of reorder requests, the ledger of movements, costing, cycle counts and lots.

### WorkflowEngine

`walk` is `WorkflowRunState` with the local variables of `drive` (`deferred`, `forced`, `deferCount`).
An iteration of its loop is one step: `Skip` (a node pushed twice), `Defer` (a join that waits), one
action per node type, `Fail` (a handler throws) and `Finish`. `Resume` is `resumeWorkflow`, with the
decision and the input chosen freely. Conditions pass or fail freely, and transitions are pushed in every
order, whichever order the definition stores. `ran`, `reached` and `late` record what the properties
need: how often a node ran, which nodes a taken transition led to, and which of those had run before.
Custom approval routes are represented by the two decisions and by the `revisit` flag; required fields
that are missing appear as `Fail` in the walk and as a decision that does not happen in `Resume`.

### WorkflowRuns

`run` is the row of `workflow_runs`: its status, the `waitingNodeId` of its `runState`, and of its
context the pending approval, the trail of approvals and the approved titles. A decision reads the row
(`Read`), and then either writes a partial approval (`Partial`) or resumes the engine (`Resume`, where
handlers run and mails leave) and writes where it stopped (`Finish`); `Fail` is a step that throws, whose
transaction also takes back the mark "failed". `canDecide` is the constant `MayDecide`, a person's
answer to a role match is `TitleOf`. `answered`, `overridden` and `settled` are histories: what people
did answer, which steps a rejection, a full-access user, a single title or "any" finished, and which steps resumed.
An answer counts for every pass through a step, as `approvedTitles` in the code does when a run is sent
back; the property follows the code there. The two first-article workflows add a PIN and their own data
to a decision and are left out.

### EventDelivery

`stream`, `delivered` and `pending` are the Redis stream and its consumer group. `Publish` appends, gives
up with the append still under way (`late`), or fails: in each case the request goes on, and whether it
commits is nothing the worker can see. `ReadGroup` takes up to `Count` messages; for each one the worker
selects definitions (`Match`), inserts a run (`InsertRun`), walks it (`Execute`), saves the result
(`SaveResult`, or `MarkFailed` when anything inside the `try` threw) and acknowledges (`Ack`), in
statements that commit one by one. `Crash` ends the process at any of them, and covers the connection
to Redis, which is never reopened; `Start` is the next process, which finds the group in place.
`StatementFails` is any statement of the worker that throws. Runs may publish events themselves
(`FollowUp`). The stream itself is not lost, and Redis keeps the group.

### Sessions

A token is a row of `refresh_tokens` together with the version its JWT carries; `signIn` is a history
of the sign-in it descends from. A renewal joins one under way (`Renew`, `Followers`) or leads: past the
limiter (`Limit`), read of the person, of the row, the conditional UPDATE that claims it, and for the
loser the second read and `reuseIsBenign`; then `Insert`, `Link` and `Answer`. Every statement is a step,
since nothing here runs in a transaction. `EndAll`, `WriteVersion`, `RevokeAll` and `KeepBrowser` are
logout, reset and change of the password, `EndBrowser` ends one browser. An answer reaches any subset of
those who wait for it.

Assumptions: one API process, as `rateLimit.ts` says of its deployment; an answer arrives before the
browser's next request or never; a renewal takes less than the grace of 30 s; one whole-account ending
at a time, whose reads of the person and of the browser's own row are one step; signing in is one step.
Left out: expiry, deactivation, lockout, MFA, and tokens older than rotation.

### ReportSchedule

A poll is a call of `pollDueSchedules`: `TryLock`, `List`, then for each row `Take`, `Deliver` and
`Update`, then `Unlock`. The lock belongs to the poll's database session: `LoseLock` ends that session under
a poll, which goes on since its other statements use the pool, and `Crash` ends a process with all its
sessions. `StatementFails` skips the rest of a list. `SendNow` and `SentNow` send and move the next date
without the lock; its copy is asked for, so it does not count in `sent`. A schedule comes due again a day
later at the earliest, which is longer than any poll: `ComesDue` waits until nobody is at it. Deleting a
schedule and changing its frequency are left out.

## Runs

| Run | Shows | Bounds |
|---|---|---|
| `VersioningSerial` | the live record is the published content; whoever approved did not submit, unless full access; a draft follows the published version; the engine implements `ReleaseCycle` | one request at a time, 3 rows, 2 payloads and `Blank`, an author, a reviewer and an owner with full access |
| `VersioningConcurrent` | one open and one published version, and frozen rows stay frozen, whatever overlaps | two requests, 3 rows, a payload and `Blank` |
| `QuarantineSerial` | counters, places, decisions add up; closed is final; a lot has what is held of it | one request at a time, 2 records, 2 units, 2 places, 1 NCR |
| `StockLevels` | the saved state agrees with the stock, shortages are announced and ordered once | 2 locations, levels 0 and 2 or no maximum, 2 units a location, 2 pending requests, 1 ignored |
| `WorkflowEngine` | no step runs twice, joins wait when every transition is taken, an approval loses no join, a run ends | every acyclic graph of a trigger, a first step and three steps, conditions or approvals; handpicked graphs with a cycle, an endless loop, two joins that wait for one another, a revisit, a pause, a held fan-out; 3 decisions |
| `WorkflowRuns` | every title answers, the steps run once per wait or failure, an open run has its position, the trail only grows | decisions one at a time, 3 approvals (all of two titles, one title, any of two), four people, 5 decisions, 2 failures |
| `EventDelivery` | at most one run per event and definition, each fault costs one run and one batch at most, everything else is worked off | 2 requests and follow-ups, 2 messages, batches of 2, 2 definitions, 2 crashes, 1 failing statement |
| `Sessions` | no false alarm, what was ended stays ended, whoever waits is answered | 2 calls of a browser, 4 tokens, 2 endings |
| `ReportSchedule` | a due report is sent once and once more per fault, and dealt with in the end | 2 processes with a poll each, 2 schedules, 2 faults |
| `VersioningSaveRace`, `WorkflowRunsRace`, `SessionsSharedRenewal` | disagreements, below | two requests, or two browsers |

Why the bounds are enough. Three rows of versions hold a published version, its predecessor and an open one, so
supersession, roll back and a next draft all occur; two requests are what it takes for one to commit
between the other's read and write. Two records and two units allow partial decisions, two
holds of one lot and holds of part of the stock. With a minimum and a maximum of 0 or 2, an item
passes every state, also the minimum above the maximum; a second pending request is one that outlived its shortage.
Joins with two and three sources, joins in a row and
joins behind a condition or an approval need three steps after the first. TLC
also explored every graph with one step more (9.3 million states) without an error of
`JoinsWaitForAll` or `OncePerRun`; it takes too long to be a run here. Five decisions pass the three
approvals with a second answer and a return. Two messages in one batch leave one that was not begun when
the worker dies, and two crashes are what a bound "per crash" needs to be told from a bound "per run of
the worker". Four tokens are a sign-in, two renewals and a fourth that a sign-in or a change of password
adds. Two faults, two polls and two schedules let a poll that lost its lock meet another one in the
middle of its list.

Symmetry: payloads other than `Blank`, requests, places and stock locations are interchangeable; the runs
with liveness declare none. Deadlock is checked for
`Versioning`, `Quarantine`, `StockLevels` and `ReportSchedule`; a workflow run ends, a stream is worked off and
the bound on tokens is reached, so the other runs do not check it.

Fairness, each with its reason:

- `WorkflowEngine`, `WF_vars(Drive)`: the loop of `drive` goes on by itself once its handlers return, which is
  an assumption about them and about the process staying up; nothing makes a person decide, so
  `Decide` is not fair.
- `EventDelivery`, `WF_vars(Work)`: the worker's loop has no other way to stop than to die. `Start` is
  not fair, since nothing in the repository restarts a worker: `WorkedOff` says what holds from the
  moment a worker stays up.
- `Sessions`, weak fairness of each renewal that has begun: a handler returns. Nothing else has to happen.
- `ReportSchedule`, weak fairness of `Start` and of each poll's steps: the timer of `setInterval` fires again
  and again, and `src/index.ts` exits so that its supervisor starts it again. The other modules are
  about what may happen to data when anybody may stop at any time, and claim no liveness.

## Where code and comments disagree

Each has a run whose counterexample shows it, and an entry in `findings`.

- `VersioningSaveRace`: `saveDraft` checks the status, then updates by id: a draft sent for review
  in between is rewritten under the reviewer.
- `WorkflowRunsRace`: a partial approval writes `waiting_approval` by id, over a run that another decision
  completed meanwhile: the run is open with no position, and nobody can decide it any more.
- `SessionsSharedRenewal`: a renewal is shared by everybody signed in as the person, so two browsers that renew at
  the same moment get one refresh token, and ending one browser signs the other out.

Observed while modelling, with no run of their own:

- Version control: a publish can overtake a rejection the way a save overtakes a submit; when the
  version was sent back and discarded in between, the previous version is archived and nothing is published
  (`versioning.service.ts:410`); discarding the only draft of a new workflow makes the next read bootstrap a
  "published" version, so the first real publish does not activate the workflow (`:105`, `adapters.ts:68`);
  `rollbackTo` accepts a voided draft although its refusal speaks of published versions (`:476`).
- Quarantine: of two holds placed at once one is not counted (`inventoryHolds.service.ts:39`); two decisions at once open a
  closed hold again (`quarantine.service.ts:378`); a hold that is On Hold can be released after its link to
  the NCR is patched away (`:348`); two relocations at once leave places that do not add up; a
  metadata patch drops the pending disposition (`:286`); an issue that read the counters before a hold was
  placed takes the held units; a negative adjustment takes the stock below what is held.
- Inventory: when an item recovers from `reorder_pending` or `on_order`, or goes from short to overfull,
  its `below_min` alert stays open, although `recomputeState` says that alerts no longer do; consuming
  ignores what is reserved; the ledger stores the magnitude of an adjustment without its sign, so on-hand cannot be
  replayed from it as `schema/inventory.ts` says; ignoring a request resets the state of its item whatever it is.
- Workflows: all deferred joins are forced at once when the stack runs empty, so of two joins in a row
  behind an untaken condition the second can run first (`workflow-engine.ts:305`); a step that pauses for
  input saves the stack without the deferred joins (`:355`). Two decisions that overlap run the steps after
  the approval twice and one takes the other's entry off the trail. A failing step in a decision is meant to
  mark the run failed, but the mark is rolled back with the request (`workflow.runs.ts:282`). Answers
  given before a run was sent back count again, and any route other than "rejected" counts as an
  approval by its title.
- Sessions: detection of reuse writes the version it read plus one (`auth.service.ts:386`); when several endings
  happened in between, that takes the version back. `EndedStaysEnded` excepts this with `rewound`.
- Schedules: the frequency a person changes while a report is being sent is overwritten in effect by a
  next date computed from the old one (`reporting.scheduler.ts:67`).
- ERP: the retry loop of the webhook asks that no error was recorded, so it never retries (`settings.erpSync.ts:118`).

## Proofs

All proofs start from the named `ASSUME`s of their module, for every value of its constants: any
number of requests, people, definitions, graphs, processes, rows, locations or faults. Some theorems need
one more hypothesis, which they state:

- `OneAtATime`, at most one request: a request ends before the next one begins. That is what the code was
  written for and what its serial runs check; the handlers take no locks, and `VersioningSaveRace`,
  `WorkflowRunsRace` and the observations above show that the properties fail without it. Everything else
  is proved for requests that overlap in any way.
- `OneBrowser`, at most one browser: `NoFalseAlarm` is about the tabs of one. With two, a
  shared renewal gives both the same token, as `SessionsSharedRenewal` shows.
- `JoinsWait` assumes that no transition of a graph enters a trigger. The editor cannot draw one
  (`WorkflowCanvasEditor.tsx:55`: a trigger has no target handle); with a transition from one trigger that fires to
  another, the second is also pushed as a node, and could run behind the step that its firing had led to.

`VersioningProofs`:

- `TypeCorrect`: `Spec => []TypeOK`.
- `OneOfEachHolds`: `LegacySpec => []OneOfEach`. One open version is the work of a partial unique index.
  One published version has no index behind it when the first requests overlap: it follows from what the
  requests in flight have read. The inductive invariant `IInv` says that row numbers are unique, ids
  below the sequence, the first row frozen (`Rooted`), that a request past the bootstrap check finds rows
  (`PastBootstrap`), that a publish which read a predecessor still has the right one
  (`PreviousCurrent`), and that it loaded a row that was not a draft (`PublishLoaded`). It is stated for
  a subject that pre-dates version control; for a new workflow whose only draft is discarded under
  three or more overlapping requests it is not claimed.
- `FrozenForeverHolds`: `LegacySpec => FrozenForever`, from the same invariant and from the trigger
  alone: no request, however stale, rewrites or reopens a published or archived version. The property
  leaves out the decision column, which the trigger does not list.
- With `OneAtATime`: `LiveStaysPublished`, `FourEyesHolds`, `DraftsFollow`, `PublishedIsKept` and the
  refinement `EngineImplementsCycle`. The invariant `SerialInv` says that the tables agree (`Tables`: one
  open and one published row, the live record, proper reviews on open rows too, rows below the sequence)
  and that what the request has read is still so (`Fits`). A step of the engine maps to a stutter, except that
  saving, submitting, reviewing, voiding, discarding and inserting a draft are the steps of a proposal and
  `Publish` is `Release`: `SerialReads`, `SerialWrites`, `SerialInserts` and `SerialPublishes` show it, one action
  at a time, together with the invariant.

`QuarantineProofs`: `TypeCorrect` for any overlap, which says more than its name: quantities stay in
the natural numbers although handlers subtract from values that may be stale. It needs that a relocation takes what
its place held (`MayRelocate`) and that counters read are numbers (`MayCount`). With `OneAtATime`:
`CountersCountHolds`, `HeldUnitsStayInLot`, `PlacesAddUp`, `EveryUnitDecidedOnce` and `HistoryIsKept`, from
`SerialInv`: the books balance record by record (`Kept`) and in the counters (`Books`), and each request
in flight holds what a reader of the tables would see now (`Reviewed`, `Counted`, `Placing`,
`Relocating`). The sums over records and places are handled by lemmas about `Total`: of a pointwise sum, of a subset,
of a set with one member changed or removed, and of a place split in two.

`StockLevelsProofs`: `TypeCorrect`, `StateIsTrue`, `EveryShortageAnnounced`, `OneOrderPerShortage` and
`ReorderCanGoOn`, which no run checks. The invariant adds that an open alert counts as told, that orders are paid for by
ignored requests or by the one that is out (`OrdersPaid`), and that an item waiting to be ordered has a
request pending. The sum over the locations stays opaque: nothing depends on its value.

`WorkflowEngineProofs`, for every graph, cyclic or not: `TypeCorrect`, `NodesRunOnce` and `NoStepIsLost`. The
invariant `EngineInv` says that a visited node ran (`VisitedRan`), that without revisits a node that ran is
visited, and ran once (`MarkedOnce`), that a node a taken transition led to ran or is still pending
(`Owed`), and that a completed run has nothing pending. `Owed` is what deferring, releasing and
saving joins could break; that they do not rests on lemmas about the sequences they rearrange
(`JoinedSet`, `PoppedSet`, `DeletedSet`) and on an induction along `releaseReady`.

`JoinsWait` in the same module is `Spec => []JoinsWaitForAll`, for graphs whose triggers no transition enters. Its
invariant `JoinInv` holds of an acyclic graph without repeats. Either something is cut off for good (`CutOff`: a
transition out of a node that ran was not taken, and nothing ahead leads to its target), or the walk is `OnTrack`:

- a visited node is behind all its sources that are still to come (`SourcesFirst`), which is what `late = {}`
  needs after the next step;
- joins were never forced. drive forces the deferred joins when the stack is empty; then, of the joins that are left, take
  one the others do not lead to: its source cannot come any more, so the way to it was cut (`Held`, `RunsDry`);
- the limit `MaxDefer` never cuts a wait short. While its sources are coming a join is not released, so the times it was
  deferred and the times it is on the stack are at most the sources that pushed it, plus one for the triggers
  (`Counted`); an approval sets the count back, and saves each deferred join on the stack once (`DeferredOnce`).

Below it are the facts about reachability: `ReachFacts` (`ReachableBy` computes the least closed set, as
enough stages are taken for the number of nodes), `NoWayBack`, `FirstOfSome`, and `WaitsForSource`: in an acyclic graph
`sourceStillComing` of the code, which does not walk through the join, finds exactly the sources that can be reached.

`WorkflowRunsProofs`: `TypeCorrect` and `ResumedByEveryAnswer` for decisions that overlap, which lose answers but
never make one up: every copy of the row, also one that is about to overwrite a newer one, stores only titles that
did answer (`Backed`). With `OneAtATime`: `OpenRunsCanBeDecided`, `StepsRunOnce` and `TrailIsKept`, since the
copy a decision works on is the row (`SerialInv`), and each resume is paid for by an arrival or a failure (`PaidFor`).

`EventDeliveryProofs`: `TypeCorrect`, `StartedAtMostOnce`, `StuckRunsAreCounted`, `StrandedAreCounted`. The
invariant says that the worker holds the messages handed out last, in order (`BatchOK`), that runs belong
to messages at or before the one it is at, and that a definition it has still to run has no run of that
message (`RunsOK`). So a message that is handed out is newer than every run, and what a crash leaves
behind is one run and what is left of one batch.

`SessionsProofs`: `TypeCorrect` and `SignOutLasts` for any browsers, and `TabsRaiseNoAlarm` with `OneBrowser`. `Shape` says
that one renewal leads at a time and that the handlers under way have room for their rows (`RoomOK`).
What was ended carries a version below the person's, and so does any renewal that started from it (`Outdated`,
`Carries`): that is why a sign-out outlives the renewals under it. For the alarm, the invariant `AlarmInv` says that the
token the browser holds, and the one a leader is to present, is unused or was replaced within its
grace by an unused one (`Safe`, `UnusedIsLast`, `LeaderOK`).

`ReportScheduleProofs`: `TypeCorrect`, `SentOnceMorePerFault`. The bound on copies is not inductive. The
invariant counts, for each schedule, the polls that lost the lock and may send it all the same
(`Stale`) and whether the holder of the lock may (`Fresh`): copies, stale polls and the fresh one together are at
most one more than the faults, and each fault makes at most one poll stale.

Some of these results need induction over data. The library's induction theorems take an operator as a
parameter and cannot be used with the provers here; instead `SetInduction`, `BoundedInduction` and `SubsetInduction` speak
of a set of numbers or of subsets that is closed under the step, and are proved from the well-foundedness of `<`.
`RecursionExists` gives the functions that recursive definitions choose.

Model-checked only:

- `Terminates`, `WorkedOff`, `FollowersAnswered`, `DueIsDealtWith`: liveness is out of the prover's reach, as is
  ENABLED.
- The disagreements above, which are counterexamples.

## Not modelled

- The form modules (CAPA, audits, complaints, training, calibration, first articles, controlled lists, forms,
  validation reports) and the React client make up most of the repository's lines: handlers that write
  one row and an audit entry, layouts and arithmetic over user-made sheets. They have no steps to interleave
  beyond the read and the write that `Versioning` and `Quarantine` show.
- MFA, signature PINs and lockout: counters of one row and cryptography.
- Synchronisation with NetSuite and ERP systems: calls to the outside and field mapping.
- The other sweeps (NCR SLA, reminders, calibration and training digests): their hazards are listed.

## Plan

1. Done: `Versioning` and `ReleaseCycle`, `Quarantine`, `WorkflowEngine`, `WorkflowRuns`, `EventDelivery`,
   `Sessions`, `ReportSchedule`, `StockLevels`, and the eight modules of proofs.
2. Next: the sweeps that claim a reminder before they send it, and the NCR SLA sweep against a person's save;
   the holds and movements of several items with overlapping requests, over an abstract ledger that
   `Quarantine` implements.
3. Documents as an instance of `Versioning` with their reviewer and effective date; NCR and
   receiving on top of `Quarantine`.
4. Proofs: every safety invariant and action property the runs check is proved; what is added under 2 and 3 comes
   with its theorems.
