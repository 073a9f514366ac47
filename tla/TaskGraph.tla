------------------------------ MODULE TaskGraph ------------------------------
(***************************************************************************)
(* The task graph of the cognitive loop and its repair overlays:           *)
(* src/src/runtime/cognitive/task_graph.cpp.                               *)
(*                                                                         *)
(* A graph is a record: what each node depends on, and the state of each   *)
(* node.  A node is <<n, "plan">>, the n-th task the micro planner made,   *)
(* or <<n, "repair">>, the task that repairs it ("<id>_repair").  The      *)
(* adjacency maps of the code are always those of the dependencies.        *)
(***************************************************************************)
EXTENDS Naturals, FiniteSets

TaskStates == {"PENDING", "READY", "RUNNING", "COMPLETED", "FAILED"}

Planned(n)  == <<n, "plan">>
RepairOf(t) == <<t[1], "repair">>

Nodes(g) == DOMAIN g.deps

EmptyGraph == [deps |-> <<>>, state |-> <<>>]

Outbound(g, S) == {t \in Nodes(g) : g.deps[t] \cap S # {}}

\* The nodes of S and all that follow them (collect_repair_subgraph): the least
\* set that has the ones and, with a node, what depends on it.
Downstream(g, S) ==
    {t \in Nodes(g) : \A C \in SUBSET Nodes(g) :
         (S \cap Nodes(g)) \cup Outbound(g, C) \subseteq C => t \in C}

\* refreshReadyStatesForNodes, on the nodes in S.
Refreshed(g, S) ==
    [g EXCEPT !.state =
        [t \in Nodes(g) |->
            IF t \notin S \/ g.state[t] \in {"COMPLETED", "FAILED", "RUNNING"}
            THEN g.state[t]
            ELSE IF \A d \in g.deps[t] : g.state[d] = "COMPLETED"
                 THEN "READY" ELSE "PENDING"]]

Refresh(g) == Refreshed(g, Nodes(g))

Mark(g, t, s) == Refresh([g EXCEPT !.state[t] = s])

Ready(g)     == {t \in Nodes(g) : g.state[t] = "READY"}
Failed(g)    == {t \in Nodes(g) : g.state[t] = "FAILED"}
AllDone(g)   == \A t \in Nodes(g) : g.state[t] = "COMPLETED"

\* What rebuildAdjacencyFromNodes accepts.
IsDag(g) ==
    /\ \A t \in Nodes(g) : g.deps[t] \subseteq Nodes(g) \ {t}
    /\ \A S \in SUBSET Nodes(g) : S # {} => \E t \in S : g.deps[t] \cap S = {}

\* MicroPlanner::generate_plan: each task after the previous one.
Chain(n) ==
    LET tasks == {Planned(k) : k \in 1..n}
    IN Refresh([deps  |-> [t \in tasks |-> {Planned(k) : k \in {t[1] - 1} \ {0}}],
                state |-> [t \in tasks |-> "PENDING"]])

-----------------------------------------------------------------------------
(* Repair overlays.  An overlay is [graph, affected]: the base graph with  *)
(* the overlay's nodes in place, and the nodes it may touch.  base is the  *)
(* graph it was made from.                                                 *)

\* Mutant of CreateOverlay: a second repair keeps the first among its own
\* dependencies.
CreateOverlayStale(base, ids, intel) ==
    LET asked    == ids \cap Nodes(base)
        repaired == {t \in asked : t \in intel \/ base.state[t] # "FAILED"}
        fresh    == {RepairOf(t) : t \in repaired}
        split    == repaired \ fresh
        nodes    == Nodes(base) \cup fresh
        affected == Downstream(base, asked) \cup fresh
        depsOf(t) == IF t \in split THEN base.deps[t] \cup {RepairOf(t)}
                     ELSE IF \E u \in split : t = RepairOf(u)
                          THEN base.deps[CHOOSE u \in split : t = RepairOf(u)]
                          ELSE base.deps[t]
    IN [graph |-> Refreshed([deps  |-> [t \in nodes |-> depsOf(t)],
                             state |-> [t \in nodes |-> IF t \in fresh
                                            THEN "PENDING" ELSE base.state[t]]],
                            affected),
        affected |-> affected]

\* create_repair_overlay.  A task of ids gets a repair task before it when the
\* kernel keeps failure intelligence of it (intel), or when it did not fail and
\* the verification is what asks; a repair task that is asked for is made anew.
CreateOverlay(base, ids, intel) ==
    LET asked    == ids \cap Nodes(base)
        repaired == {t \in asked : t \in intel \/ base.state[t] # "FAILED"}
        fresh    == {RepairOf(t) : t \in repaired}
        split    == repaired \ fresh
        nodes    == Nodes(base) \cup fresh
        affected == Downstream(base, asked) \cup fresh
        depsOf(t) == IF t \in split THEN base.deps[t] \cup {RepairOf(t)}
                     ELSE IF \E u \in split : t = RepairOf(u)
                          THEN base.deps[CHOOSE u \in split : t = RepairOf(u)] \ {t}
                          ELSE base.deps[t]
    IN [graph |-> Refreshed([deps  |-> [t \in nodes |-> depsOf(t)],
                             state |-> [t \in nodes |-> IF t \in fresh
                                            THEN "PENDING" ELSE base.state[t]]],
                            affected),
        affected |-> affected]

OverlayMark(o, S, s) ==
    [o EXCEPT !.graph =
        Refreshed([o.graph EXCEPT !.state =
                       [t \in Nodes(o.graph) |-> IF t \in S THEN s ELSE o.graph.state[t]]],
                  o.affected)]

\* Mutant of ToReopen: the tasks a repaired task waits for are done again too.
ToReopenAll(base, o, ids) ==
    {t \in Nodes(base) : base.state[t] # "PENDING"}

\* What reopen_task reopens.
ToReopen(base, o, ids) ==
    {t \in Downstream(base, ids) \cap o.affected : o.graph.state[t] # "PENDING"}

Reopened(base, o, ids) == OverlayMark(o, ToReopen(base, o, ids), "PENDING")

\* Mutant of CanSkip: a task is skipped whatever it waits for.
CanSkipAlways(o, t) == TRUE

\* mark_completed wants a task that is ready or running.
CanSkip(o, t) == o.graph.state[t] \in {"READY", "RUNNING"}

\* The overlay of a skipped task: reset_failed or else reopen_task.
ResetForSkip(base, o, t) ==
    IF o.graph.state[t] = "FAILED" THEN OverlayMark(o, {t}, "PENDING")
                                   ELSE Reopened(base, o, {t})
=============================================================================
