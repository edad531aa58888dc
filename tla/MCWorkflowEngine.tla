-------------------------- MODULE MCWorkflowEngine --------------------------
(* Small graphs for WorkflowEngine: node 0 is the trigger and leads to node 1. *)
EXTENDS WorkflowEngine, TLC

FiveNodes == 0 .. 4

\* The branches of a node, told apart by the order of their targets.
Branch(type, i, j, pairs) ==
  LET first == \A k \in Nodes : <<i, k>> \in pairs => k >= j
  IN CASE type[i] = "condition" -> IF first THEN "true" ELSE "false"
       [] type[i] = "approval" -> IF first THEN "approved" ELSE "rejected"
       [] type[i] = "hold" -> IF first THEN "join" ELSE ""
       [] OTHER -> ""

\* The graph with these node types and transitions, `again` of them with revisit.
Graph(type, pairs, again) ==
  [type |-> type,
   edges |-> {[from |-> p[1], to |-> p[2], branch |-> Branch(type, p[1], p[2], pairs),
               revisit |-> p \in again] : p \in pairs}]

\* The types of nodes 1, 2, ... after the trigger.
Typed(types) == types @@ (0 :> "trigger")

Forward == {<<i, j>> \in FiveNodes \X FiveNodes : 0 < i /\ i < j}

\* Every acyclic graph of five nodes, none of them idle, whose last three have these types.
Explored(types) ==
  {Graph(Typed(<<"action">> \o t), pairs \cup {<<0, 1>>}, {}) :
     t \in [1 .. 3 -> types],
     pairs \in {S \in SUBSET Forward :
                  \A j \in 2 .. 4 : \E i \in FiveNodes : <<i, j>> \in S}}

\* A cycle a condition leaves, and one nothing leaves.
Cycle == Graph(Typed(<<"action", "condition", "action", "end">>),
               {<<0, 1>>, <<1, 2>>, <<2, 3>>, <<2, 4>>, <<3, 1>>}, {})
Loop == Graph(Typed(<<"action", "action", "action", "end">>),
              {<<0, 1>>, <<1, 2>>, <<2, 3>>, <<3, 2>>}, {})

\* Two joins that wait for one another.
Mutual == Graph(Typed(<<"action", "action", "action", "end">>),
                {<<0, 1>>, <<1, 2>>, <<1, 3>>, <<2, 3>>, <<3, 2>>, <<3, 4>>}, {})

\* A rejection sends the work back to the first step.
SentBack == Graph(Typed(<<"action", "approval", "end", "action">>),
                  {<<0, 1>>, <<1, 2>>, <<2, 3>>, <<2, 4>>, <<4, 1>>}, {<<2, 4>>})

\* A fan-out that holds its join back until both signals have come, and one without a join.
Held == Graph(Typed(<<"hold", "action", "signal", "signal">>),
              {<<0, 1>>, <<1, 2>>, <<1, 3>>, <<1, 4>>}, {})
Unheld == [Held EXCEPT !.edges = {e \in @ : e.branch # "join"}]

\* A step that pauses for input beside a join that waits for it, through a condition.
Paused == Graph(Typed(<<"action", "pause", "condition", "action">>),
                {<<0, 1>>, <<1, 2>>, <<1, 4>>, <<2, 3>>, <<3, 4>>}, {})

AllGraphs == Explored({"action", "condition", "approval"})
               \cup {Cycle, Loop, Mutual, SentBack, Held, Unheld, Paused}
=============================================================================
