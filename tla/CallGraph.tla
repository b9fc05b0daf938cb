----------------------------- MODULE CallGraph -----------------------------
(***************************************************************************)
(* get_call_graph (call_graph.py, native_graph.py): a breadth-first walk   *)
(* over call sites, within budgets of depth, nodes, edges and bytes.       *)
(* A walk is a record: the methods found and their distance, the sites     *)
(* taken, the queue, the reasons why something was left out, and, without  *)
(* an index, the frontier whose sites the last scans have collected.       *)
(* Bytes are counted in rows of nodes and edges.                           *)
(***************************************************************************)
EXTENDS Pages

CONSTANTS
    Batch,         \* methods that one frontier scan may serve
    FrontierRoom,  \* rows that a frontier may keep
    GraphRoom,     \* rows of nodes, edges and sites that an answer holds
    SiteRoom       \* unresolved sites that an answer lists

GraphAssumption == {Batch, FrontierRoom, GraphRoom, SiteRoom} \subseteq Nat \ {0}
ASSUME GraphAssumption

OfMethods(sites) == Only(sites, {s \in ToSet(sites) : s.op \in MethodOps})

\* The call sites, in the order of a scan and so of the edges of an index.
Calls(input) == OfMethods(Sites(input))

End(site, column) == IF column = "source" THEN site.caller ELSE site.arg
Other(site, column) == IF column = "source" THEN site.arg ELSE site.caller

Columns(direction) ==
    CASE direction = "both" -> <<"source", "target">>
      [] direction = "outgoing" -> <<"source">>
      [] OTHER -> <<"target">>

EndingAt(calls, column, method) == Only(calls, {s \in ToSet(calls) : End(s, column) = method})

\* The first sites of a method in one direction: IndexedGraph.adjacent, and what
\* _prepare keeps of them, both limited to one more than the budget of edges.
Adjacent(input, method, column, limit) == First(EndingAt(Calls(input), column, method), limit)

\* root: a declared method, or one that some site calls.
Rooted(input, method) ==
    Declared(input, method) \/ \E i \in DOMAIN Calls(input) : Calls(input)[i].arg = method

-----------------------------------------------------------------------------
(* Without an index: FrontierGraph. *)

\* What one scan for a batch keeps: the capped rows, and the methods at their ends.
Columned(direction, first) ==
    {"source", "target"} \cap (ToSet(Columns(direction)) \cup IF first THEN {"target"} ELSE {})

Collected(input, batch, q, first) ==
    UNION {ToSet(Adjacent(input, m, c, q.max_edges + 1)) :
            m \in batch, c \in Columned(q.direction, first)}

Retained(input, known, batch, q, first) ==
    LET rows == Collected(input, batch, q, first)
        ends == {s.caller : s \in rows} \cup {s.arg : s \in rows} \cup batch
    IN  Cardinality(rows) + Cardinality(known \cup ends)

\* prepare: the batch is halved until its rows fit.
Halves(n) == {n \div (2 ^ k) : k \in 0..5} \ {0}

Fitting(input, known, names, q, first) ==
    {n \in Halves(Least(Batch, Len(names))) :
        Retained(input, known, ToSet(First(names, n)), q, first) <= FrontierRoom}

\* The frontier that serves the first of the names, or None: one method alone is
\* too dense, and the caller turns to the disk-bounded index.
Frontier(input, graph, names, q, first) ==
    LET fit == Fitting(input, {graph.nodes[i].name : i \in DOMAIN graph.nodes}, names, q, first)
    IN  IF names[1] \in graph.frontier THEN graph.frontier
        ELSE IF fit = {} THEN None
        ELSE ToSet(First(names, CHOOSE n \in fit : \A m \in fit : m <= n))

-----------------------------------------------------------------------------

Node(name, depth) == [name |-> name, depth |-> depth, status |-> "not_expanded"]

Found(graph) == {graph.nodes[i].name : i \in DOMAIN graph.nodes}
At(graph, name) == CHOOSE i \in DOMAIN graph.nodes : graph.nodes[i].name = name

Used(graph) == Len(graph.nodes) + Len(graph.edges) + Len(graph.sites)

NoGraph == [source |-> None, nodes |-> <<>>, edges |-> <<>>, sites |-> <<>>, queue |-> <<>>,
            reasons |-> {}, frontier |-> {}, stopped |-> FALSE, ended |-> FALSE]

Start(root, source, frontier) ==
    [NoGraph EXCEPT !.source = source, !.nodes = <<Node(root, 0)>>, !.queue = <<root>>,
                    !.frontier = frontier]

Stop(graph, reason) == [graph EXCEPT !.reasons = @ \cup {reason}, !.stopped = TRUE]

\* Mutant: a method that is met again is queued again.
TakenAgain(graph, q, site, column, distance) ==
    LET other == Other(site, column)
        new == other \notin Found(graph)
        rows == IF new THEN 2 ELSE 1
    IN  IF graph.stopped \/ site \in ToSet(graph.edges) THEN graph
        ELSE IF distance = q.depth THEN [graph EXCEPT !.reasons = @ \cup {"depth"}]
        ELSE IF Len(graph.edges) = q.max_edges THEN Stop(graph, "max_edges")
        ELSE IF new /\ Len(graph.nodes) = q.max_nodes THEN Stop(graph, "max_nodes")
        ELSE IF Used(graph) + rows > GraphRoom THEN Stop(graph, "output_bytes")
        ELSE [graph EXCEPT !.edges = Append(@, site),
                           !.nodes = IF new THEN Append(@, Node(other, distance + 1)) ELSE @,
                           !.queue = Append(@, other)]

\* One adjacent site of a method at a distance: seen, beyond a budget, or taken.
Take(graph, q, site, column, distance) ==
    LET other == Other(site, column)
        new == other \notin Found(graph)
        rows == IF new THEN 2 ELSE 1
    IN  IF graph.stopped \/ site \in ToSet(graph.edges) THEN graph
        ELSE IF distance = q.depth THEN [graph EXCEPT !.reasons = @ \cup {"depth"}]
        ELSE IF Len(graph.edges) = q.max_edges THEN Stop(graph, "max_edges")
        ELSE IF new /\ Len(graph.nodes) = q.max_nodes THEN Stop(graph, "max_nodes")
        ELSE IF Used(graph) + rows > GraphRoom THEN Stop(graph, "output_bytes")
        ELSE [graph EXCEPT !.edges = Append(@, site),
                           !.nodes = IF new THEN Append(@, Node(other, distance + 1)) ELSE @,
                           !.queue = IF new THEN Append(@, other) ELSE @]

\* The adjacent sites of a method, one after the other.
Along(graph, q, sites, column, distance) ==
    LET after[n \in 0..Len(sites)] ==
            IF n = 0 THEN graph ELSE Take(after[n - 1], q, sites[n], column, distance)
    IN  after[Len(sites)]

\* In each direction asked for, so many of them.
VisitUpTo(input, graph, q, limit) ==
    LET current == Head(graph.queue)
        distance == graph.nodes[At(graph, current)].depth
        visit(g, column) == Along(g, q, Adjacent(input, current, column, limit), column, distance)
        columns == Columns(q.direction)
        first == visit([graph EXCEPT !.queue = Tail(@)], columns[1])
    IN  IF Len(columns) = 1 THEN first ELSE visit(first, columns[2])

\* Mutant: one site too few is looked at to notice that the budget cuts some off.
VisitedWithin(input, graph, q) == VisitUpTo(input, graph, q, q.max_edges)

\* The loop's body for the method at the head of the queue.
Visit(input, graph, q) == VisitUpTo(input, graph, q, q.max_edges + 1)

\* The loop's body, and what the answer calls the method.
Expand(input, graph, q) ==
    LET i == At(graph, Head(graph.queue))
        after == Visit(input, graph, q)
        beyond == \E c \in ToSet(Columns(q.direction)) :
            ~ToSet(Adjacent(input, graph.nodes[i].name, c, q.max_edges + 1)) \subseteq ToSet(graph.edges)
    IN  [after EXCEPT !.nodes[i].status =
            IF after.stopped THEN "budget_boundary"
            ELSE IF graph.nodes[i].depth = q.depth /\ beyond THEN "depth_boundary" ELSE "expanded"]

\* The names that prepare is given: the current one, then the rest of its level.
Level(graph) ==
    SelectSeq(graph.queue, LAMBDA n :
        graph.nodes[At(graph, n)].depth = graph.nodes[At(graph, Head(graph.queue))].depth)

\* The sites whose target is unknown, of the methods found and in their order.
Unresolved(input, graph) ==
    LET sites == Sites(input)
        of(name) == {s \in ToSet(sites) : s.op \in DynamicOps /\ s.caller = name}
    IN  FlattenSeq([i \in DOMAIN graph.nodes |-> First(Only(sites, of(graph.nodes[i].name)), SiteRoom)])

\* prepare_diagnostics charges them to the rows that the last frontier keeps.
Diagnosable(input, graph, q) ==
    graph.source = "frontier" =>
        Retained(input, Found(graph), graph.frontier, q, graph.frontier = {graph.nodes[1].name})
            + Len(Unresolved(input, graph)) <= FrontierRoom

\* One of them is listed, until there is no room.
Note(graph, site) ==
    IF "output_bytes" \in graph.reasons \/ Len(graph.sites) >= SiteRoom THEN graph
    ELSE IF Used(graph) + 1 > GraphRoom THEN [graph EXCEPT !.reasons = @ \cup {"output_bytes"}]
    ELSE [graph EXCEPT !.sites = Append(@, site)]

Diagnose(input, graph) ==
    LET sites == Unresolved(input, graph)
        noted[n \in 0..Len(sites)] == IF n = 0 THEN graph ELSE Note(noted[n - 1], sites[n])
    IN  [noted[Len(sites)] EXCEPT !.ended = TRUE]

\* traversal_complete_within_depth
Complete(graph) == graph.reasons \subseteq {"depth"}
=============================================================================
