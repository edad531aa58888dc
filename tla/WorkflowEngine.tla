--------------------------- MODULE WorkflowEngine ---------------------------
(***************************************************************************)
(* One run of a workflow: how drive and resumeWorkflow of                  *)
(* workflow-engine.ts walk the graph of its definition.                    *)
(*                                                                         *)
(* Each iteration of the loop of drive is one step, since the handler it   *)
(* may call is awaited there.  The transitions of a node are a set: they   *)
(* are pushed in every order, whichever of them is the order stored.       *)
(***************************************************************************)
EXTENDS Integers, Sequences, FiniteSets, SequencesExt

CONSTANTS
  Nodes,        \* node ids
  NoNode,       \* no node at all
  Graphs,       \* the definitions a run may be started on
  MaxDecisions  \* bound on the decisions people make on a run

\* The node types, and the action nodes whose config makes the engine treat them
\* differently: pause has pauseUntil, signal has signalsJoin; hold is a parallel node
\* with holdBranches.
Types == {"trigger", "condition", "action", "pause", "signal", "approval", "parallel",
          "hold", "end"}

Branches == {"", "true", "false", "approved", "rejected", "join"}

Edge == [from : Nodes, to : Nodes, branch : Branches, revisit : BOOLEAN]

ASSUME NodesAssumption == IsFiniteSet(Nodes) /\ NoNode \notin Nodes
ASSUME GraphsAssumption ==
  \A g \in Graphs : g.type \in [Nodes -> Types] /\ g.edges \subseteq Edge
ASSUME DecisionsAssumption == MaxDecisions \in Nat

VARIABLES
  graph,      \* the definition the run walks
  simulated,  \* the decision a simulation takes at every approval; "no" in a real run
  walk,       \* the walk itself
  decisions,  \* how many decisions were made
  ran,        \* node -> how often it ran, counted up to Often
  reached,    \* the nodes a taken transition led to
  late        \* those of them that had run before it was taken

vars == <<graph, simulated, walk, decisions, ran, reached, late>>

\* Once, or more often: nothing here tells the higher counts apart.
Often == 2

-----------------------------------------------------------------------------
(* The graph *)

Out(n) == {e \in graph.edges : e.from = n}
In(n) == {e \in graph.edges : e.to = n}
Targets(edges) == {e.to : e \in edges}

\* matchesOutcome
Matches(branch, outcome) ==
  CASE outcome = "default" -> TRUE
    [] outcome \in {"true", "approved"} -> branch \in {"", outcome}
    [] OTHER -> branch = outcome

\* followable
Followable(n, outcome) == Targets({e \in Out(n) : Matches(e.branch, outcome)})

\* The nodes some path of `edges` leads to from `from`, those included.
ReachableBy(from, edges) ==
  LET within[k \in 0 .. Cardinality(Nodes)] ==
        IF k = 0 THEN from
        ELSE UNION {{n} \cup Targets({e \in edges : e.from = n}) : n \in within[k - 1]}
  IN within[Cardinality(Nodes)]

-----------------------------------------------------------------------------
(* The walk *)

Walk == [status : {"running", "waiting_approval", "completed", "failed"},
         stack : Seq(Nodes),            \* nodes still to visit, the next one last
         visited : SUBSET Nodes,
         deferred : Seq(Nodes),         \* joins that wait for a branch
         forced : SUBSET Nodes,         \* joins that wait no longer
         deferCount : [Nodes -> Nat],
         waiting : Nodes \cup {NoNode}, \* the node the run is paused on
         ready : SUBSET Nodes,          \* pausing nodes whose input has been given
         join : Nodes \cup {NoNode},    \* context.__join: its target,
         remaining : Int]               \* and the branches it still waits for

\* sourceStillComing: its source is pending, or can be reached from what is pending
\* without passing the join.
StillComing(w, source, join) ==
  /\ source \notin w.visited
  /\ source \in ReachableBy(ToSet(w.stack) \cup ToSet(w.deferred),
                            {e \in graph.edges : e.from # join /\ e.to # join})

\* Mutant: a join waits for nobody.
NeverWaits(w, n) == FALSE

\* waitingOnOthers
WaitsOnOthers(w, n) ==
  /\ Cardinality(In(n)) > 1
  /\ \E e \in In(n) : StillComing(w, e.from, n)

\* The walk once join n was looked at.
Tried(w, n) ==
  IF WaitsOnOthers(w, n) THEN w
  ELSE [w EXCEPT !.deferred = RemoveFirst(@, n), !.stack = Append(@, n)]

\* releaseReady: one after the other, the joins that have nothing to wait for any more
\* go on the stack.
Released(w) ==
  LET after[i \in 0 .. Len(w.deferred)] ==
        IF i = 0 THEN w ELSE Tried(after[i - 1], w.deferred[i])
  IN after[Len(w.deferred)]

\* A walk at the start of an iteration: with nothing else to visit, every join that was
\* deferred has to run.
Loaded ==
  IF walk.stack = <<>>
    THEN [walk EXCEPT !.stack = walk.deferred, !.deferred = <<>>,
                      !.forced = @ \cup ToSet(walk.deferred)]
    ELSE walk

Running == walk.status = "running" /\ Loaded.stack # <<>>
Top == Last(Loaded.stack)

\* Mutant: a node that was visited already stays on the stack.
Peeked == IF Top \in Loaded.visited THEN Loaded ELSE [Loaded EXCEPT !.stack = Front(@)]

Popped == [Loaded EXCEPT !.stack = Front(@)]

\* drive defers a join at most this often.
MaxDefer == Cardinality(Nodes) + 2

MayDefer(n) ==
  /\ n \notin Popped.forced
  /\ WaitsOnOthers(Popped, n)
  /\ Popped.deferCount[n] < MaxDefer

\* Mutant: nodes are not marked.
NotMarked(w, n) == [w EXCEPT !.forced = @ \ {n}, !.deferred = RemoveFirst(@, n)]

\* The walk as it enters n.
Entered(w, n) ==
  [w EXCEPT !.forced = @ \ {n}, !.deferred = RemoveFirst(@, n), !.visited = @ \cup {n}]

\* push: the first of the ids ends up on top.
Push(w, s) == [w EXCEPT !.stack = @ \o s]

Init ==
  /\ graph \in Graphs
  /\ simulated \in {"no", "approved", "rejected"}
  /\ \E fired \in SUBSET {n \in Nodes : graph.type[n] = "trigger"} :
     \E s \in SetToSeqs(Targets({e \in graph.edges : e.from \in fired})) :
       /\ walk = [status |-> "running", stack |-> s, visited |-> {}, deferred |-> <<>>,
                  forced |-> {}, deferCount |-> [n \in Nodes |-> 0], waiting |-> NoNode,
                  ready |-> {}, join |-> NoNode, remaining |-> 0]
       /\ reached = ToSet(s)
  /\ decisions = 0
  /\ ran = [n \in Nodes |-> 0]
  /\ late = {}

-----------------------------------------------------------------------------
(* drive *)

\* A node that was pushed twice is visited once.  The joins are not looked at again here.
Skip ==
  /\ Running
  /\ Top \in Popped.visited
  /\ walk' = Popped
  /\ UNCHANGED <<graph, simulated, decisions, ran, reached, late>>

Defer ==
  /\ Running
  /\ Top \notin Popped.visited
  /\ MayDefer(Top)
  /\ walk' = [Popped EXCEPT !.deferred = IF Contains(@, Top) THEN @ ELSE Append(@, Top),
                            !.deferCount[Top] = @ + 1]
  /\ UNCHANGED <<graph, simulated, decisions, ran, reached, late>>

\* n is visited: a node of one of these types runs.
Visits(n, types) ==
  /\ Running
  /\ n = Top
  /\ n \notin Popped.visited
  /\ ~ MayDefer(n)
  /\ graph.type[n] \in types
  /\ ran' = [ran EXCEPT ![n] = IF @ = Often THEN @ ELSE @ + 1]
  /\ UNCHANGED <<graph, simulated, decisions>>

\* w goes on to the nodes `next`.
GoesOn(w, next) ==
  /\ \E s \in SetToSeqs(next) : walk' = Released(Push(w, s))
  /\ reached' = reached \cup next
  /\ late' = late \cup (next \cap w.visited)

\* A failed condition without a "false" transition ends its branch.
Taken(n, passed) == Followable(n, IF passed THEN "true" ELSE "false")

\* The node types: a condition, a step without anything special, an end.
Condition(n) ==
  /\ Visits(n, {"condition"})
  /\ \E passed \in BOOLEAN : GoesOn(Entered(Popped, n), Taken(n, passed))

Act(n) ==
  /\ Visits(n, {"trigger", "action", "parallel"})
  /\ GoesOn(Entered(Popped, n), Followable(n, "default"))

End(n) ==
  /\ Visits(n, {"end"})
  /\ GoesOn(Entered(Popped, n), {})

\* An action that needs input: it runs, then waits for it.
NeedsInput(n) == simulated = "no" /\ n \notin walk.ready

\* Mutant: an approval saves the stack only.
StackOnly(w) == w.stack

\* What an approval node saves of the stack: the joins go below it.
Saved(w) == w.deferred \o w.stack

\* Mutant: the status is misspelt.
StopsMisspelt(n, stack) ==
  /\ walk' = [Entered(Popped, n) EXCEPT !.status = "waiting", !.waiting = n, !.stack = stack]
  /\ UNCHANGED <<reached, late>>

\* The run stops at n with this saved stack.
Stops(n, stack) ==
  /\ walk' = [Entered(Popped, n) EXCEPT !.status = "waiting_approval", !.waiting = n,
                !.stack = stack, !.deferred = <<>>, !.forced = {},
                !.deferCount = [m \in Nodes |-> 0]]
  /\ UNCHANGED <<reached, late>>

Pause(n) ==
  /\ Visits(n, {"pause"})
  /\ IF NeedsInput(n) THEN Stops(n, Popped.stack)
     ELSE GoesOn(Entered(Popped, n), Followable(n, "default"))

\* A simulation never waits for a person: it takes the path it was told to.
Approval(n) ==
  /\ Visits(n, {"approval"})
  /\ IF simulated = "no" THEN Stops(n, Saved(Entered(Popped, n)))
     ELSE GoesOn(Entered(Popped, n), Followable(n, simulated))

\* The target of the join may run, again if it has to.
Opened(w, target) == Push([w EXCEPT !.visited = @ \ {target}], <<target>>)

\* A branch of a held fan-out is done; the last one opens the join.
Signal(n) ==
  LET w == Entered(Popped, n)
      left == w.remaining - 1
      told == [w EXCEPT !.remaining = left]
  IN /\ Visits(n, {"signal"})
     /\ GoesOn(IF w.join = NoNode THEN w ELSE IF left <= 0 THEN Opened(told, w.join) ELSE told,
               Followable(n, "default"))

\* A fan-out that holds its join back: the branches that apply go on.
FanOut(n) ==
  LET w == Entered(Popped, n)
      held == {e \in Out(n) : e.branch = "join"}
  IN /\ Visits(n, {"hold"})
     /\ \E live \in SUBSET (Out(n) \ held) :
          LET told(e) == [w EXCEPT !.join = e.to, !.remaining = Cardinality(live)]
          IN \/ held = {} /\ GoesOn(w, Targets(live))
             \/ \E e \in held :
                  GoesOn(IF live = {} THEN Opened(told(e), e.to) ELSE told(e), Targets(live))

\* A handler throws, or a required field is missing: the run fails on n.
Fail(n) ==
  /\ Visits(n, Types)
  /\ walk' = [Entered(Popped, n) EXCEPT !.status = "failed"]
  /\ UNCHANGED <<reached, late>>

Finish ==
  /\ walk.status = "running"
  /\ Loaded.stack = <<>>
  /\ walk' = [walk EXCEPT !.status = "completed"]
  /\ UNCHANGED <<graph, simulated, decisions, ran, reached, late>>

-----------------------------------------------------------------------------
(* resumeWorkflow *)

\* Somebody decides d; `input` says whether what a pausing node waits for was given.
Resume(d, input) ==
  LET n == walk.waiting
      edges == {e \in Out(n) : Matches(e.branch, d)}
      again == ReachableBy(Targets({e \in edges : e.revisit}), graph.edges)
      w == [walk EXCEPT !.status = "running", !.waiting = NoNode]
  IN /\ walk.status = "waiting_approval"
     /\ decisions < MaxDecisions
     /\ decisions' = decisions + 1
     /\ \/ /\ input /\ graph.type[n] = "pause"
           /\ walk' = Push([w EXCEPT !.ready = @ \cup {n}, !.visited = @ \ {n}], <<n>>)
           /\ UNCHANGED <<reached, late>>
        \/ /\ ~ (input /\ graph.type[n] = "pause")
           /\ \E s \in SetToSeqs(Targets(edges)) :
                walk' = Push([w EXCEPT !.visited = @ \ again], s)
           /\ reached' = reached \cup Targets(edges)
           /\ late' = late \cup ((Targets(edges) \cap w.visited) \ again)
     /\ UNCHANGED <<graph, simulated, ran>>

-----------------------------------------------------------------------------
Drive ==
  \/ Skip
  \/ Defer
  \/ \E n \in Nodes : \/ Condition(n) \/ Act(n) \/ End(n) \/ Pause(n) \/ Approval(n)
                      \/ Signal(n) \/ FanOut(n) \/ Fail(n)
  \/ Finish

Decide == \E d \in {"approved", "rejected"}, input \in BOOLEAN : Resume(d, input)

Next == Drive \/ Decide

\* Handlers return: the loop of drive goes on while there is something to visit.
Spec == Init /\ [][Next]_vars /\ WF_vars(Drive)

-----------------------------------------------------------------------------
(* Properties *)

TypeOK ==
  /\ graph.type \in [Nodes -> Types] /\ graph.edges \subseteq Edge
  /\ simulated \in {"no", "approved", "rejected"}
  /\ walk \in Walk
  /\ decisions \in 0 .. MaxDecisions
  /\ ran \in [Nodes -> 0 .. Often]
  /\ reached \subseteq Nodes /\ late \subseteq Nodes

Acyclic ==
  \A n \in Nodes : n \notin ReachableBy(Targets(Out(n)), graph.edges)

\* What makes a step run more than once on purpose.
Repeats ==
  \/ \E e \in graph.edges : e.revisit
  \/ \E n \in Nodes : graph.type[n] \in {"pause", "hold"}

\* "Every node runs at most once per run" (the head of workflow-engine.ts), however many
\* transitions lead to it and in whatever order joins are deferred and released, unless
\* the definition lets a step run again: a node entered a second time would repeat what
\* its handler did.
OncePerRun == ~ Repeats => \A n \in Nodes : ran[n] <= 1

\* Every transition out of a node that has run was taken: no condition, no approval
\* ended a branch.
AllTaken ==
  \A e \in graph.edges :
    ran[e.from] > 0 /\ e.from # walk.waiting => e.to \in reached

\* A join "waits until every branch that is still going to run has arrived" (the comment
\* of waitingOnOthers), so no transition is taken to a step that has run already: as long
\* as every transition is taken, on both sides of an approval.
JoinsWaitForAll == Acyclic /\ ~ Repeats /\ AllTaken => late = {}

\* A run that completes has run every step a taken transition led to: a join that waits
\* for a branch an untaken condition cut off runs in the end ("An untaken condition path
\* is not still coming, so it does not hold the join", the comment of waitingOnOthers).
NothingLost ==
  walk.status = "completed" => \A n \in reached : ran[n] > 0

\* The same of a definition that pauses for people at approval nodes only: what the run
\* saved there and what resumeWorkflow puts back holds every join still owed.
ApprovalsLoseNothing == (\A n \in Nodes : graph.type[n] # "pause") => NothingLost

\* "A cycle cannot spin forever" (workflow-canvas-engine.test.ts): with joins deferred and
\* put back at most MaxDefer times, a run completes, fails or waits for a person.
Terminates == walk.status = "running" ~> walk.status # "running"

=============================================================================
