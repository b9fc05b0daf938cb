--------------------------- MODULE RequestsProofs ---------------------------
(***************************************************************************)
(* Proofs about Requests: the state of a call has its shape, a call graph  *)
(* that is answered says what it left out, and a client that follows the   *)
(* continuations receives the listing.                                     *)
(* Graphs.  The argument follows one walk: it takes the sites of a method  *)
(* one by one (TakeShape, TakeKeeps), all those of a direction             *)
(* (AlongKeeps), of all directions (VisitKeeps), and then labels the       *)
(* method (ExpandKeeps).  What holds between two methods, Between, gives   *)
(* at the end what the answer says (EndTold).  A walk starts only with     *)
(* budgets that the service has checked, whatever tool was called          *)
(* (WalksRanged).                                                          *)
(* Pages.  Each handler refuses a query on every page, or has a listing of *)
(* which every page is a part (RoutedServed, MetadataServed, ArchiveServed)*)
(* although one page is read from an index and the next from a scan        *)
(* (IndexIsScan, MembersAlike), from a heap or from a spool (SortedPart),  *)
(* cut to the response (FittedPart) or grouped (GroupedPart).  So the      *)
(* listing of any call is cut at certain points (Divided), and each page   *)
(* goes from one point to a later one (PageTurns, NextPages).              *)
(***************************************************************************)
EXTENDS Requests, DataProofs

-----------------------------------------------------------------------------
(***************************************************************************)
(* The call sites of a program, and the adjacent ones of a method.         *)
(***************************************************************************)

Legible(input) == Sites(input) \in Seq(ToSet(Sites(input))) /\ NoRepeats(Sites(input))

CallSites(input) == ToSet(Calls(input))
Ending(input, column, m) == {s \in CallSites(input) : End(s, column) = m}

\* No call site comes twice.
LEMMA CallsOnce ==
    ASSUME NEW input, Legible(input)
    PROVE  Calls(input) \in Seq(CallSites(input)) /\ Once(Calls(input))
<1> DEFINE sites == Sites(input)
           chosen == {s \in ToSet(sites) : s.op \in MethodOps}
<1>1. sites \in Seq(ToSet(sites)) /\ Once(sites)
    BY OnceCounted DEF Legible
<1>2. Calls(input) = Only(sites, chosen)
    BY DEF Calls, OfMethods
<1> HIDE DEF sites, chosen
<1>3. Calls(input) \in Seq(ToSet(sites)) /\ Once(Calls(input))
    BY <1>1, <1>2, OnlyKeeps
<1> QED BY <1>3, Elements DEF CallSites

\* The adjacent sites are the first ones that end at the method: all, if there
\* are fewer than asked for.
LEMMA AdjacentSites ==
    ASSUME NEW input, Legible(input), NEW m, NEW column, NEW limit \in Nat
    PROVE  LET sites == Adjacent(input, m, column, limit) IN
           /\ sites \in Seq(CallSites(input)) /\ Once(sites) /\ Len(sites) <= limit
           /\ ToSet(sites) \subseteq Ending(input, column, m)
           /\ Len(sites) < limit => ToSet(sites) = Ending(input, column, m)
<1> DEFINE calls == Calls(input)
           chosen == {s \in ToSet(calls) : End(s, column) = m}
           all == Only(calls, chosen)
<1>1. calls \in Seq(CallSites(input)) /\ Once(calls)
    BY CallsOnce
<1>2. chosen = Ending(input, column, m) /\ ToSet(calls) \cap chosen = chosen
    BY DEF Ending, CallSites
<1>3. Adjacent(input, m, column, limit) = First(all, limit)
    BY DEF Adjacent, EndingAt
<1> HIDE DEF calls, chosen
<1>4. all \in Seq(CallSites(input)) /\ Once(all) /\ ToSet(all) = chosen
    BY <1>1, <1>2, OnlyKeeps
<1> HIDE DEF all
<1>5. /\ First(all, limit) \in Seq(CallSites(input)) /\ Once(First(all, limit))
      /\ Len(First(all, limit)) <= limit /\ ToSet(First(all, limit)) \subseteq ToSet(all)
      /\ Len(First(all, limit)) < limit => First(all, limit) = all
    BY <1>4, FirstKeeps
<1> QED BY <1>2, <1>3, <1>4, <1>5

\* If one more site than the budget allows is looked at and all are taken, then
\* these are all there are.
LEMMA AdjacentComplete ==
    ASSUME NEW input, Legible(input), NEW m, NEW column, NEW budget \in Nat,
           NEW edges \in Seq(CallSites(input)), Once(edges), Len(edges) <= budget,
           ToSet(Adjacent(input, m, column, budget + 1)) \subseteq ToSet(edges)
    PROVE  Ending(input, column, m) \subseteq ToSet(edges)
<1> DEFINE sites == Adjacent(input, m, column, budget + 1)
<1>1. /\ sites \in Seq(CallSites(input)) /\ Once(sites) /\ Len(sites) <= budget + 1
      /\ Len(sites) < budget + 1 => ToSet(sites) = Ending(input, column, m)
    BY AdjacentSites
<1>2. ToSet(sites) \subseteq ToSet(edges)
    OBVIOUS
<1> HIDE DEF sites
<1>3. IsFiniteSet(ToSet(edges)) /\ Cardinality(ToSet(edges)) = Len(edges) /\ Len(edges) \in Nat
    BY OnceCounted, Elements
<1>4. Cardinality(ToSet(sites)) = Len(sites) /\ Len(sites) \in Nat
    BY <1>1, OnceCounted, Elements
<1>5. Cardinality(ToSet(sites)) <= Cardinality(ToSet(edges))
    BY <1>2, <1>3, FS_Subset
<1> QED BY <1>1, <1>2, <1>3, <1>4, <1>5

-----------------------------------------------------------------------------
(***************************************************************************)
(* What a walk has found so far.                                           *)
(***************************************************************************)

Directions == {"both", "outgoing", "incoming"}

Ranged(q) ==
    /\ q.depth \in Nat \ {0} /\ q.max_nodes \in Nat \ {0} /\ q.max_edges \in Nat \ {0}
    /\ q.direction \in Directions

\* The methods that a walk can meet, the sites at a method, and its neighbours.
Methodic(input, root) ==
    {root} \cup {s.caller : s \in CallSites(input)} \cup {s.arg : s \in CallSites(input)}

Around(input, q, m) == {s \in CallSites(input) : \E c \in ToSet(Columns(q.direction)) : End(s, c) = m}

Beside(input, q, m) ==
    UNION {{Other(s, c) : s \in {t \in CallSites(input) : End(t, c) = m}} :
            c \in ToSet(Columns(q.direction))}

\* The methods within each distance of the root.
Distances(near, input, q, root) ==
    /\ near \in [0..q.depth -> SUBSET Methodic(input, root)]
    /\ near[0] = {root}
    /\ \A j \in 1..q.depth : near[j] = near[j - 1] \cup UNION {Beside(input, q, m) : m \in near[j - 1]}

Setting(near, input, q, root) == Legible(input) /\ Ranged(q) /\ Distances(near, input, q, root)

Nodes(input, q, root) ==
    [name : Methodic(input, root), depth : 0..q.depth,
     status : {"not_expanded", "expanded", "depth_boundary", "budget_boundary"}]

\* The first k nodes have left the queue.
Queued(nodes, queue, k) ==
    /\ k \in 0..Len(nodes) /\ Len(queue) = Len(nodes) - k
    /\ \A i \in 1..Len(queue) : queue[i] = nodes[k + i].name

\* The nodes are kept in the order of their distance, each under a name of its own.
Layered(nodes, root, k) ==
    /\ Len(nodes) >= 1 /\ nodes[1].name = root /\ nodes[1].depth = 0
    /\ \A i, j \in 1..Len(nodes) : i <= j => nodes[i].depth <= nodes[j].depth
    /\ \A i, j \in 1..Len(nodes) : nodes[i].name = nodes[j].name => i = j
    /\ k = 0 => Len(nodes) = 1
    /\ k > 0 => \A i \in 1..Len(nodes) : nodes[i].depth <= nodes[k].depth + 1

\* A distance is the shortest.
Reached(nodes, near) ==
    \A i \in 1..Len(nodes) :
        /\ nodes[i].name \in near[nodes[i].depth]
        /\ nodes[i].depth > 0 => nodes[i].name \notin near[nodes[i].depth - 1]

\* A site that is taken is at a method nearer than the depth, and both ends are found.
Drawn(nodes, edges, input, q) ==
    /\ Once(edges)
    /\ \A s \in ToSet(edges) :
        /\ \E i \in 1..Len(nodes) : nodes[i].name = s.caller
        /\ \E i \in 1..Len(nodes) : nodes[i].name = s.arg
        /\ \E i \in 1..Len(nodes) : nodes[i].depth < q.depth /\ s \in Around(input, q, nodes[i].name)

\* A method that has been looked at: its sites are taken, its neighbours found.
Explored(nodes, edges, reasons, input, q, i) ==
    /\ nodes[i].depth < q.depth =>
        /\ Around(input, q, nodes[i].name) \subseteq ToSet(edges)
        /\ \A m \in Beside(input, q, nodes[i].name) :
            \E j \in 1..Len(nodes) : nodes[j].name = m /\ nodes[j].depth <= nodes[i].depth + 1
    /\ nodes[i].depth = q.depth =>
        Around(input, q, nodes[i].name) \subseteq ToSet(edges) \/ "depth" \in reasons

\* What the answer calls a method.
Labelled(nodes, edges, input, q, k) ==
    \A i \in 1..Len(nodes) :
        /\ nodes[i].status = "not_expanded" <=> i > k
        /\ nodes[i].status = "expanded" => Around(input, q, nodes[i].name) \subseteq ToSet(edges)

Budgeted(nodes, edges, q) ==
    Len(nodes) <= q.max_nodes /\ Len(edges) <= q.max_edges /\ Len(nodes) + Len(edges) <= GraphRoom

Halted(reasons, stopped) == IF stopped THEN ~(reasons \subseteq {"depth"}) ELSE reasons \subseteq {"depth"}
Reasons == {"depth", "max_nodes", "max_edges", "output_bytes"}

WalkOf(g, input, q, root) ==
    g \in [source : {g.source}, nodes : Seq(Nodes(input, q, root)), edges : Seq(CallSites(input)),
           sites : {<<>>}, queue : Seq(Methodic(input, root)), reasons : SUBSET Reasons,
           frontier : {g.frontier}, stopped : BOOLEAN, ended : {FALSE}]

Core(nodes, edges, queue, near, input, q, root, k) ==
    /\ Queued(nodes, queue, k)
    /\ Layered(nodes, root, k)
    /\ Reached(nodes, near)
    /\ Drawn(nodes, edges, input, q)
    /\ Budgeted(nodes, edges, q)

\* While the sites of the k-th method are taken.
Visiting(g, near, input, q, root, k) ==
    /\ WalkOf(g, input, q, root) /\ Halted(g.reasons, g.stopped)
    /\ k > 0 /\ Core(g.nodes, g.edges, g.queue, near, input, q, root, k)
    /\ Labelled(g.nodes, g.edges, input, q, k - 1)
    /\ \A i \in 1..(k - 1) : Explored(g.nodes, g.edges, g.reasons, input, q, i)

\* Between two methods.
Between(g, near, input, q, root, k) ==
    /\ WalkOf(g, input, q, root) /\ Halted(g.reasons, g.stopped)
    /\ Core(g.nodes, g.edges, g.queue, near, input, q, root, k)
    /\ Labelled(g.nodes, g.edges, input, q, k)
    /\ ~g.stopped => \A i \in 1..k : Explored(g.nodes, g.edges, g.reasons, input, q, i)

-----------------------------------------------------------------------------

\* The sets of methods within a distance grow.
LEMMA NearGrows ==
    ASSUME NEW near, NEW input, NEW q, NEW root, Setting(near, input, q, root),
           NEW i \in 0..q.depth, NEW j \in i..q.depth
    PROVE  near[i] \subseteq near[j]
<1>1. q.depth \in Nat /\ \A n \in 1..q.depth : near[n - 1] \subseteq near[n]
    BY DEF Setting, Ranged, Distances
<1> DEFINE D == q.depth
           S == {n \in 0..D : i <= n => near[i] \subseteq near[n]}
<1> HIDE DEF D
<1>2. 0 \in S
    BY <1>1 DEF D
<1>3. \A n \in 0..(D - 1) : n \in S => n + 1 \in S
  <2> TAKE n \in 0..(D - 1)
  <2> HAVE n \in S
  <2>1. n \in Nat /\ n + 1 \in 1..D /\ n + 1 - 1 = n /\ D \in Nat /\ i \in Nat
      BY <1>1 DEF D
  <2>2. near[n] \subseteq near[n + 1]
      BY <1>1, <2>1 DEF D
  <2>3. CASE i <= n
      BY <2>1, <2>2, <2>3
  <2>4. CASE ~(i <= n)
    <3>1. i <= n + 1 => i = n + 1
        BY <2>1, <2>4
    <3> QED BY <2>1, <3>1
  <2> QED BY <2>3, <2>4
<1>4. 0..D \subseteq S
  <2>1. D \in Nat
      BY <1>1 DEF D
  <2> HIDE DEF S
  <2> QED BY <1>2, <1>3, <2>1, UpTo
<1> QED BY <1>1, <1>4 DEF D

\* If every method nearer than n has been looked at, all the methods within n are
\* found, at their distance or nearer.
LEMMA NearFound ==
    ASSUME NEW near, NEW input, NEW q, NEW root, Setting(near, input, q, root),
           NEW nodes \in Seq(Nodes(input, q, root)), NEW edges, NEW reasons, NEW k \in Nat,
           Layered(nodes, root, k), NEW n \in 0..q.depth,
           \A i \in 1..Len(nodes) : nodes[i].depth < n => Explored(nodes, edges, reasons, input, q, i)
    PROVE  \A j \in 0..n : \A m \in near[j] : 
             \E i \in 1..Len(nodes) : nodes[i].name = m /\ nodes[i].depth <= j
<1> DEFINE Have(j) == \A m \in near[j] : \E i \in 1..Len(nodes) : nodes[i].name = m /\ nodes[i].depth <= j
           S == {j \in 0..n : Have(j)}
<1>1. /\ q.depth \in Nat /\ n \in Nat /\ near[0] = {root}
      /\ \A j \in 1..q.depth : near[j] = near[j - 1] \cup UNION {Beside(input, q, m) : m \in near[j - 1]}
    BY DEF Setting, Ranged, Distances
<1>2. 1 \in 1..Len(nodes) /\ nodes[1].name = root /\ nodes[1].depth = 0
    BY Elements DEF Layered
<1>3. \A i \in 1..Len(nodes) : nodes[i].depth \in 0..q.depth
  <2>1. \A i \in 1..Len(nodes) : nodes[i] \in Nodes(input, q, root)
      BY Elements
  <2> QED BY <2>1 DEF Nodes
<1>4. 0 \in S
    BY <1>1, <1>2
<1>5. \A j \in 0..(n - 1) : j \in S => j + 1 \in S
  <2> TAKE j \in 0..(n - 1)
  <2> HAVE j \in S
  <2>1. /\ j \in Nat /\ j + 1 \in 1..n /\ j + 1 \in 1..q.depth /\ j + 1 - 1 = j
        /\ Have(j) /\ j < n /\ n <= q.depth
      BY <1>1
  <2>2. near[j + 1] = near[j] \cup UNION {Beside(input, q, m) : m \in near[j]}
      BY <1>1, <2>1
  <2>3. ASSUME NEW m \in near[j + 1]
        PROVE  \E i \in 1..Len(nodes) : nodes[i].name = m /\ nodes[i].depth <= j + 1
    <3>1. CASE m \in near[j]
      <4>1. PICK i \in 1..Len(nodes) : nodes[i].name = m /\ nodes[i].depth <= j
          BY <2>1, <3>1
      <4> QED BY <1>3, <2>1, <4>1
    <3>2. CASE m \notin near[j]
      <4>1. PICK p \in near[j] : m \in Beside(input, q, p)
          BY <2>2, <3>2
      <4>2. PICK i \in 1..Len(nodes) : nodes[i].name = p /\ nodes[i].depth <= j
          BY <2>1
      <4>3. nodes[i].depth \in Nat /\ nodes[i].depth < n /\ nodes[i].depth < q.depth
          BY <1>1, <1>3, <2>1, <4>2
      <4>4. \E h \in 1..Len(nodes) : nodes[h].name = m /\ nodes[h].depth <= nodes[i].depth + 1
          BY <4>1, <4>2, <4>3 DEF Explored
      <4>5. PICK h \in 1..Len(nodes) : nodes[h].name = m /\ nodes[h].depth <= nodes[i].depth + 1
          BY <4>4
      <4>6. nodes[h].depth \in Nat
          BY <1>1, <1>3
      <4> QED BY <2>1, <4>2, <4>3, <4>5, <4>6
    <3> QED BY <3>1, <3>2
  <2>4. Have(j + 1)
      BY <2>3
  <2>5. j + 1 \in 0..n
      BY <2>1
  <2> HIDE DEF Have
  <2> QED BY <2>4, <2>5
<1>6. 0..n \subseteq S
  <2> HIDE DEF S
  <2> QED BY <1>1, <1>4, <1>5, UpTo
<1> QED BY <1>6

-----------------------------------------------------------------------------
(***************************************************************************)
(* One site is taken.                                                      *)
(***************************************************************************)

\* The parts of a walk.
LEMMA WalkParts ==
    ASSUME NEW input, NEW q, NEW root, NEW g, WalkOf(g, input, q, root)
    PROVE  \E source, frontier :
             \E nodes \in Seq(Nodes(input, q, root)), edges \in Seq(CallSites(input)),
                queue \in Seq(Methodic(input, root)), reasons \in SUBSET Reasons, stopped \in BOOLEAN :
                 g = [source |-> source, nodes |-> nodes, edges |-> edges, sites |-> <<>>, queue |-> queue,
                      reasons |-> reasons, frontier |-> frontier, stopped |-> stopped, ended |-> FALSE]
<1> DEFINE NS == Seq(Nodes(input, q, root))
           ES == Seq(CallSites(input))
           QS == Seq(Methodic(input, root))
           RS == SUBSET Reasons
<1>1. g \in [source : {g.source}, nodes : NS, edges : ES, sites : {<<>>}, queue : QS, reasons : RS,
             frontier : {g.frontier}, stopped : BOOLEAN, ended : {FALSE}]
    BY DEF WalkOf
<1> HIDE DEF NS, ES, QS, RS
<1>2. /\ g.nodes \in NS /\ g.edges \in ES /\ g.queue \in QS /\ g.reasons \in RS /\ g.stopped \in BOOLEAN
      /\ g = [source |-> g.source, nodes |-> g.nodes, edges |-> g.edges, sites |-> <<>>, queue |-> g.queue,
              reasons |-> g.reasons, frontier |-> g.frontier, stopped |-> g.stopped, ended |-> FALSE]
    BY <1>1
<1> QED BY <1>2 DEF NS, ES, QS, RS

\* A record of such parts is a walk.
LEMMA WalkMade ==
    ASSUME NEW input, NEW q, NEW root, NEW source, NEW frontier,
           NEW nodes \in Seq(Nodes(input, q, root)), NEW edges \in Seq(CallSites(input)),
           NEW queue \in Seq(Methodic(input, root)), NEW reasons \in SUBSET Reasons, NEW stopped \in BOOLEAN
    PROVE  WalkOf([source |-> source, nodes |-> nodes, edges |-> edges, sites |-> <<>>, queue |-> queue,
                   reasons |-> reasons, frontier |-> frontier, stopped |-> stopped, ended |-> FALSE],
                  input, q, root)
<1> DEFINE g == [source |-> source, nodes |-> nodes, edges |-> edges, sites |-> <<>>, queue |-> queue,
                 reasons |-> reasons, frontier |-> frontier, stopped |-> stopped, ended |-> FALSE]
           NS == Seq(Nodes(input, q, root))
           ES == Seq(CallSites(input))
           QS == Seq(Methodic(input, root))
           RS == SUBSET Reasons
<1> HIDE DEF NS, ES, QS, RS
<1>1. nodes \in NS /\ edges \in ES /\ queue \in QS /\ reasons \in RS
    BY DEF NS, ES, QS, RS
<1>2. g.source = source /\ g.frontier = frontier
    OBVIOUS
<1>3. g \in [source : {source}, nodes : NS, edges : ES, sites : {<<>>}, queue : QS, reasons : RS,
             frontier : {frontier}, stopped : BOOLEAN, ended : {FALSE}]
    BY <1>1
<1> HIDE DEF g
<1> QED BY <1>2, <1>3 DEF WalkOf, NS, ES, QS, RS, g

\* Nothing is drawn: the site is known, or something ends the walk or its depth.
Passed(g, t, q, site, distance) ==
    /\ t.nodes = g.nodes /\ t.edges = g.edges /\ t.queue = g.queue
    /\ g.reasons \subseteq t.reasons /\ Halted(t.reasons, t.stopped) /\ (g.stopped => t.stopped)
    /\ ~t.stopped => site \in ToSet(t.edges) \/ (distance = q.depth /\ "depth" \in t.reasons)

\* The site is drawn, within the budgets.
Taking(g, t, q, site, distance) ==
    /\ ~g.stopped /\ ~t.stopped /\ t.reasons = g.reasons /\ distance < q.depth
    /\ site \notin ToSet(g.edges) /\ t.edges = Append(g.edges, site) /\ Len(g.edges) # q.max_edges

Closing(g, t) ==
    /\ t.nodes = g.nodes /\ t.queue = g.queue
    /\ Len(g.nodes) + Len(g.edges) + 1 <= GraphRoom

Finding(g, t, q, other, distance) ==
    /\ t.nodes = Append(g.nodes, Node(other, distance + 1)) /\ t.queue = Append(g.queue, other)
    /\ Len(g.nodes) # q.max_nodes /\ Len(g.nodes) + Len(g.edges) + 2 <= GraphRoom

\* Take passes the site, or closes an edge between methods that are found, or finds a
\* method; nothing else of the walk changes.
LEMMA TakeShape ==
    ASSUME NEW input, NEW q, NEW root, NEW g, WalkOf(g, input, q, root), Ranged(q),
           Halted(g.reasons, g.stopped),
           NEW site \in CallSites(input), NEW column \in {"source", "target"}, NEW distance \in 0..q.depth
    PROVE  LET t == Take(g, q, site, column, distance)
               other == Other(site, column)
           IN  /\ WalkOf(t, input, q, root) /\ t.source = g.source /\ t.frontier = g.frontier
               /\ \/ Passed(g, t, q, site, distance)
                  \/ Taking(g, t, q, site, distance) /\ other \in Found(g) /\ Closing(g, t)
                  \/ Taking(g, t, q, site, distance) /\ other \notin Found(g) /\ Finding(g, t, q, other, distance)
<1> DEFINE other == Other(site, column)
           new == other \notin Found(g)
           deep == [g EXCEPT !.reasons = @ \cup {"depth"}]
           closing == [g EXCEPT !.edges = Append(@, site)]
           node == Node(other, distance + 1)
           finding == [g EXCEPT !.edges = Append(@, site), !.nodes = Append(@, node), !.queue = Append(@, other)]
           t == Take(g, q, site, column, distance)
<1>1. PICK source, frontier :
        \E nodes \in Seq(Nodes(input, q, root)), edges \in Seq(CallSites(input)),
           queue \in Seq(Methodic(input, root)), reasons \in SUBSET Reasons, stopped \in BOOLEAN :
            g = [source |-> source, nodes |-> nodes, edges |-> edges, sites |-> <<>>, queue |-> queue,
                 reasons |-> reasons, frontier |-> frontier, stopped |-> stopped, ended |-> FALSE]
    BY WalkParts
<1>0. PICK nodes \in Seq(Nodes(input, q, root)), edges \in Seq(CallSites(input)),
           queue \in Seq(Methodic(input, root)), reasons \in SUBSET Reasons, stopped \in BOOLEAN :
            g = [source |-> source, nodes |-> nodes, edges |-> edges, sites |-> <<>>, queue |-> queue,
                 reasons |-> reasons, frontier |-> frontier, stopped |-> stopped, ended |-> FALSE]
    BY <1>1
<1>2. q.depth \in Nat /\ distance \in Nat /\ Len(g.nodes) \in Nat /\ Len(g.edges) \in Nat
      /\ Used(g) = Len(g.nodes) + Len(g.edges)
  <2>1. Len(g.nodes) \in Nat /\ Len(g.edges) \in Nat
      BY <1>0, Elements
  <2>2. Used(g) = Len(g.nodes) + Len(g.edges) + Len(<<>>)
      BY <1>0 DEF Used
  <2> QED BY <2>1, <2>2 DEF Ranged
<1>17. \A n \in {1, 2} : ~(Used(g) + n > GraphRoom) => Len(g.nodes) + Len(g.edges) + n <= GraphRoom
  <2>1. GraphRoom \in Nat
      BY GraphAssumption DEF GraphAssumption
  <2> DEFINE a == Len(g.nodes)
             b == Len(g.edges)
  <2>2. a \in Nat /\ b \in Nat /\ Used(g) = a + b
      BY <1>2
  <2> HIDE DEF a, b
  <2>3. \A n \in {1, 2} : ~(Used(g) + n > GraphRoom) => a + b + n <= GraphRoom
      BY <2>1, <2>2
  <2> QED BY <2>3 DEF a, b
<1>3. t = IF g.stopped \/ site \in ToSet(g.edges) THEN g
          ELSE IF distance = q.depth THEN deep
          ELSE IF Len(g.edges) = q.max_edges THEN Stop(g, "max_edges")
          ELSE IF new /\ Len(g.nodes) = q.max_nodes THEN Stop(g, "max_nodes")
          ELSE IF Used(g) + (IF new THEN 2 ELSE 1) > GraphRoom THEN Stop(g, "output_bytes")
          ELSE IF new THEN finding ELSE closing
  <2>1. t = IF g.stopped \/ site \in ToSet(g.edges) THEN g
          ELSE IF distance = q.depth THEN deep
          ELSE IF Len(g.edges) = q.max_edges THEN Stop(g, "max_edges")
          ELSE IF new /\ Len(g.nodes) = q.max_nodes THEN Stop(g, "max_nodes")
          ELSE IF Used(g) + (IF new THEN 2 ELSE 1) > GraphRoom THEN Stop(g, "output_bytes")
          ELSE [g EXCEPT !.edges = Append(@, site),
                         !.nodes = IF new THEN Append(@, node) ELSE @,
                         !.queue = IF new THEN Append(@, other) ELSE @]
      BY DEF Take
  <2> DEFINE both == [g EXCEPT !.edges = Append(@, site),
                               !.nodes = IF new THEN Append(@, node) ELSE @,
                               !.queue = IF new THEN Append(@, other) ELSE @]
  <2> HIDE DEF new, node, other
  <2>2. new => both = finding
      OBVIOUS
  <2>3. ~new => both = closing
    <3>1. ~new => both = [g EXCEPT !.edges = Append(g.edges, site), !.nodes = g.nodes, !.queue = g.queue]
        OBVIOUS
    <3>2. g = [source |-> source, nodes |-> nodes, edges |-> edges, sites |-> <<>>, queue |-> queue,
               reasons |-> reasons, frontier |-> frontier, stopped |-> stopped, ended |-> FALSE]
        BY <1>0
    <3>3. g.nodes = nodes /\ g.queue = queue
        BY <3>2
    <3>4. PICK list : list = Append(g.edges, site)
        OBVIOUS
    <3>5. ASSUME NEW x, x = [g EXCEPT !.edges = list, !.nodes = nodes, !.queue = queue]
          PROVE  x = [source |-> source, nodes |-> nodes, edges |-> list, sites |-> <<>>, queue |-> queue,
                      reasons |-> reasons, frontier |-> frontier, stopped |-> stopped, ended |-> FALSE]
        BY <3>2, <3>5
    <3>6. ASSUME NEW x, x = [g EXCEPT !.edges = list]
          PROVE  x = [source |-> source, nodes |-> nodes, edges |-> list, sites |-> <<>>, queue |-> queue,
                      reasons |-> reasons, frontier |-> frontier, stopped |-> stopped, ended |-> FALSE]
        BY <3>2, <3>6
    <3>7. [g EXCEPT !.edges = list, !.nodes = nodes, !.queue = queue] = [g EXCEPT !.edges = list]
      <4>1. PICK x, z : x = [g EXCEPT !.edges = list, !.nodes = nodes, !.queue = queue] /\ z = [g EXCEPT !.edges = list]
          OBVIOUS
      <4>2. x = [source |-> source, nodes |-> nodes, edges |-> list, sites |-> <<>>, queue |-> queue,
                 reasons |-> reasons, frontier |-> frontier, stopped |-> stopped, ended |-> FALSE]
          BY <4>1, <3>5
      <4>3. z = [source |-> source, nodes |-> nodes, edges |-> list, sites |-> <<>>, queue |-> queue,
                 reasons |-> reasons, frontier |-> frontier, stopped |-> stopped, ended |-> FALSE]
          BY <4>1, <3>6
      <4>4. x = z
          BY <4>2, <4>3, Zenon
      <4> QED BY <4>1, <4>4, Zenon
    <3> QED BY <3>1, <3>3, <3>4, <3>7
  <2> HIDE DEF deep, finding, closing
  <2> QED BY <2>1, <2>2, <2>3
<1>4. ASSUME NEW x, x = deep
      PROVE  x = [source |-> source, nodes |-> nodes, edges |-> edges, sites |-> <<>>, queue |-> queue,
                    reasons |-> reasons \cup {"depth"}, frontier |-> frontier, stopped |-> stopped,
                    ended |-> FALSE]
    BY <1>0, <1>4
<1>14. ASSUME NEW r, NEW x, x = Stop(g, r)
       PROVE  x = [source |-> source, nodes |-> nodes, edges |-> edges, sites |-> <<>>, queue |-> queue,
                    reasons |-> reasons \cup {r}, frontier |-> frontier, stopped |-> TRUE, ended |-> FALSE]
    BY <1>0, <1>14 DEF Stop
<1>15. ASSUME NEW x, x = closing
       PROVE  x = [source |-> source, nodes |-> nodes, edges |-> Append(edges, site), sites |-> <<>>,
                    queue |-> queue, reasons |-> reasons, frontier |-> frontier, stopped |-> stopped, ended |-> FALSE]
    BY <1>0, <1>15
<1>16. ASSUME NEW x, x = finding
       PROVE  x = [source |-> source, nodes |-> Append(nodes, node), edges |-> Append(edges, site), sites |-> <<>>,
          queue |-> Append(queue, other),
                    reasons |-> reasons, frontier |-> frontier, stopped |-> stopped, ended |-> FALSE]
  <2> HIDE DEF node, other
  <2> QED BY <1>0, <1>16
<1>5. other \in Methodic(input, root)
    BY DEF Methodic, Other
<1>6. distance < q.depth => node \in Nodes(input, q, root)
  <2> HIDE DEF other
  <2> QED BY <1>2, <1>5 DEF Nodes, Node
<1>7. /\ Append(g.edges, site) \in Seq(CallSites(input))
      /\ Append(g.queue, other) \in Seq(Methodic(input, root))
      /\ distance < q.depth => Append(g.nodes, node) \in Seq(Nodes(input, q, root))
  <2> HIDE DEF other, node
  <2> QED BY <1>0, <1>5, <1>6, Appended
<1> HIDE DEF t, deep, closing, finding, node, other, new
<1>18. t.source = g.source /\ t.frontier = g.frontier
  <2>1. t \in {g, deep, Stop(g, "max_edges"), Stop(g, "max_nodes"), Stop(g, "output_bytes"), finding, closing}
      BY <1>3
  <2> QED BY <1>0, <1>4, <1>14, <1>15, <1>16, <2>1
<1>8. CASE g.stopped \/ site \in ToSet(g.edges)
  <2>1. t = g
      BY <1>3, <1>8
  <2> QED BY <1>8, <2>1 DEF Passed, t
<1>9. CASE ~(g.stopped \/ site \in ToSet(g.edges)) /\ distance = q.depth
  <2>1. t = deep
      BY <1>3, <1>9
  <2>2. WalkOf(t, input, q, root)
    <3>1. t = [source |-> source, nodes |-> nodes, edges |-> edges, sites |-> <<>>, queue |-> queue,
                 reasons |-> reasons \cup {"depth"}, frontier |-> frontier, stopped |-> stopped, ended |-> FALSE]
        BY <1>4, <2>1
    <3>2. reasons \cup {"depth"} \in SUBSET Reasons
        BY DEF Reasons
    <3> QED BY <3>1, <3>2, WalkMade
  <2>3. Passed(g, t, q, site, distance)
      BY <1>0, <1>4, <1>9, <2>1 DEF Passed, Halted
  <2> QED BY <1>18, <2>2, <2>3 DEF t
<1>10. CASE \E r \in Reasons \ {"depth"} : t = Stop(g, r)
  <2>1. PICK r \in Reasons \ {"depth"} : t = Stop(g, r)
      BY <1>10
  <2>2. t = [source |-> source, nodes |-> nodes, edges |-> edges, sites |-> <<>>, queue |-> queue,
               reasons |-> reasons \cup {r}, frontier |-> frontier, stopped |-> TRUE, ended |-> FALSE]
      BY <1>14, <2>1
  <2>3. WalkOf(t, input, q, root)
    <3>1. reasons \cup {r} \in SUBSET Reasons /\ TRUE \in BOOLEAN
        OBVIOUS
    <3> QED BY <2>2, <3>1, WalkMade
  <2>4. Passed(g, t, q, site, distance)
    <3>1. /\ t.nodes = g.nodes /\ t.edges = g.edges /\ t.queue = g.queue /\ t.reasons = g.reasons \cup {r}
          /\ t.stopped = TRUE
        BY <1>0, <2>2
    <3> QED BY <3>1 DEF Passed, Halted
  <2> QED BY <1>18, <2>3, <2>4 DEF t
<1>11. CASE /\ ~(g.stopped \/ site \in ToSet(g.edges)) /\ distance # q.depth /\ Len(g.edges) # q.max_edges
            /\ ~new /\ ~(Used(g) + 1 > GraphRoom)
  <2>1. t = closing
      BY <1>3, <1>11
  <2>2. WalkOf(t, input, q, root)
    <3>1. t = [source |-> source, nodes |-> nodes, edges |-> Append(edges, site), sites |-> <<>>, queue |-> queue,
                 reasons |-> reasons, frontier |-> frontier, stopped |-> stopped, ended |-> FALSE]
        BY <1>15, <2>1
    <3>2. Append(edges, site) \in Seq(CallSites(input))
        BY <1>0, <1>7
    <3> QED BY <3>1, <3>2, WalkMade
  <2>3. GraphRoom \in Nat
      BY GraphAssumption DEF GraphAssumption
  <2>4. Taking(g, t, q, site, distance)
      BY <1>0, <1>2, <1>15, <1>11, <2>1 DEF Taking
  <2>5. Closing(g, t)
    <3>1. t.nodes = g.nodes /\ t.queue = g.queue
        BY <1>0, <1>15, <2>1
    <3>2. Len(g.nodes) + Len(g.edges) + 1 <= GraphRoom
        BY <1>11, <1>17
    <3> QED BY <3>1, <3>2 DEF Closing
  <2> QED BY <1>11, <1>18, <2>2, <2>4, <2>5 DEF t, new, other
<1>12. CASE /\ ~(g.stopped \/ site \in ToSet(g.edges)) /\ distance # q.depth /\ Len(g.edges) # q.max_edges
            /\ new /\ Len(g.nodes) # q.max_nodes /\ ~(Used(g) + 2 > GraphRoom)
  <2>1. t = finding
      BY <1>3, <1>12
  <2>2. distance < q.depth
      BY <1>2, <1>12
  <2>3. WalkOf(t, input, q, root)
    <3>1. t = [source |-> source, nodes |-> Append(nodes, node), edges |-> Append(edges, site), sites |-> <<>>,
          queue |-> Append(queue, other),
                 reasons |-> reasons, frontier |-> frontier, stopped |-> stopped, ended |-> FALSE]
        BY <1>16, <2>1
    <3>2. /\ Append(edges, site) \in Seq(CallSites(input)) /\ Append(queue, other) \in Seq(Methodic(input, root))
          /\ Append(nodes, node) \in Seq(Nodes(input, q, root))
        BY <1>0, <1>7, <2>2
    <3> QED BY <3>1, <3>2, WalkMade
  <2>4. GraphRoom \in Nat
      BY GraphAssumption DEF GraphAssumption
  <2>5. Taking(g, t, q, site, distance)
      BY <1>0, <1>2, <1>16, <1>12, <2>1, <2>2 DEF Taking
  <2>6. Finding(g, t, q, other, distance)
      BY <1>0, <1>2, <1>16, <1>12, <2>1, <2>4 DEF Finding, node
  <2> QED BY <1>12, <1>18, <2>3, <2>5, <2>6 DEF t, new, other
<1>13. {"max_edges", "max_nodes", "output_bytes"} \subseteq Reasons \ {"depth"}
    BY DEF Reasons
<1> QED BY <1>3, <1>8, <1>9, <1>10, <1>11, <1>12, <1>13

-----------------------------------------------------------------------------
(***************************************************************************)
(* What a step of the walk keeps, part by part.                            *)
(***************************************************************************)

\* The nodes stay, the sites and the reasons grow.
Grown(nodes, edges, reasons, nodes2, edges2, reasons2) ==
    /\ Len(nodes) <= Len(nodes2) /\ \A i \in 1..Len(nodes) : nodes2[i] = nodes[i]
    /\ ToSet(edges) \subseteq ToSet(edges2) /\ reasons \subseteq reasons2

\* A method that has been looked at stays so when the walk grows.
LEMMA ExploredGrows ==
    ASSUME NEW input, NEW q, NEW nodes, NEW edges, NEW reasons, NEW nodes2, NEW edges2, NEW reasons2,
           Len(nodes) \in Nat, Len(nodes2) \in Nat, Grown(nodes, edges, reasons, nodes2, edges2, reasons2),
           NEW i \in 1..Len(nodes), Explored(nodes, edges, reasons, input, q, i)
    PROVE  Explored(nodes2, edges2, reasons2, input, q, i)
<1>1. /\ \A j \in 1..Len(nodes) : j \in 1..Len(nodes2) /\ nodes2[j] = nodes[j]
      /\ ToSet(edges) \subseteq ToSet(edges2) /\ reasons \subseteq reasons2
    BY DEF Grown
<1>2. ASSUME nodes2[i].depth < q.depth
      PROVE  /\ Around(input, q, nodes2[i].name) \subseteq ToSet(edges2)
             /\ \A m \in Beside(input, q, nodes2[i].name) :
                 \E j \in 1..Len(nodes2) : nodes2[j].name = m /\ nodes2[j].depth <= nodes2[i].depth + 1
  <2>1. /\ Around(input, q, nodes[i].name) \subseteq ToSet(edges)
        /\ \A m \in Beside(input, q, nodes[i].name) :
            \E j \in 1..Len(nodes) : nodes[j].name = m /\ nodes[j].depth <= nodes[i].depth + 1
      BY <1>1, <1>2 DEF Explored
  <2> QED BY <1>1, <2>1
<1>3. ASSUME nodes2[i].depth = q.depth
      PROVE  Around(input, q, nodes2[i].name) \subseteq ToSet(edges2) \/ "depth" \in reasons2
  <2>1. Around(input, q, nodes[i].name) \subseteq ToSet(edges) \/ "depth" \in reasons
      BY <1>1, <1>3 DEF Explored
  <2> QED BY <1>1, <2>1
<1> QED BY <1>2, <1>3 DEF Explored

\* A site at the current method, both of whose ends are found, is drawn.
LEMMA DrawnMore ==
    ASSUME NEW input, NEW q, NEW root, NEW nodes \in Seq(Nodes(input, q, root)),
           NEW edges \in Seq(CallSites(input)), Drawn(nodes, edges, input, q),
           NEW nodes2 \in Seq(Nodes(input, q, root)),
           Len(nodes) <= Len(nodes2), \A i \in 1..Len(nodes) : nodes2[i] = nodes[i],
           NEW s \in CallSites(input), s \notin ToSet(edges),
           \E i \in 1..Len(nodes2) : nodes2[i].name = s.caller,
           \E i \in 1..Len(nodes2) : nodes2[i].name = s.arg,
           NEW k \in 1..Len(nodes), nodes[k].depth < q.depth, s \in Around(input, q, nodes[k].name)
    PROVE  Drawn(nodes2, Append(edges, s), input, q)
<1>1. Len(nodes) \in Nat /\ Len(nodes2) \in Nat /\ \A i \in 1..Len(nodes) : i \in 1..Len(nodes2)
    BY Elements
<1> DEFINE drawn == Append(edges, s)
<1>2. ToSet(drawn) = ToSet(edges) \cup {s} /\ Once(drawn)
    BY Appended DEF Drawn
<1> HIDE DEF drawn
<1>3. ASSUME NEW e \in ToSet(drawn)
      PROVE  /\ \E i \in 1..Len(nodes2) : nodes2[i].name = e.caller
             /\ \E i \in 1..Len(nodes2) : nodes2[i].name = e.arg
             /\ \E i \in 1..Len(nodes2) : nodes2[i].depth < q.depth /\ e \in Around(input, q, nodes2[i].name)
  <2>1. CASE e = s
      BY <1>1, <2>1
  <2>2. CASE e \in ToSet(edges)
    <3>1. /\ \E i \in 1..Len(nodes) : nodes[i].name = e.caller
          /\ \E i \in 1..Len(nodes) : nodes[i].name = e.arg
          /\ \E i \in 1..Len(nodes) : nodes[i].depth < q.depth /\ e \in Around(input, q, nodes[i].name)
        BY <2>2 DEF Drawn
    <3> QED BY <1>1, <3>1
  <2> QED BY <1>2, <2>1, <2>2
<1>4. Drawn(nodes2, drawn, input, q)
    BY <1>2, <1>3 DEF Drawn
<1> QED BY <1>4 DEF drawn

\* A method that is found through the current one is at the end of the queue, one
\* further than it, and no nearer.
LEMMA FoundNext ==
    ASSUME NEW near, NEW input, NEW q, NEW root, Setting(near, input, q, root),
           NEW nodes \in Seq(Nodes(input, q, root)), NEW edges, NEW reasons,
           NEW queue \in Seq(Methodic(input, root)), NEW k \in Nat \ {0},
           Queued(nodes, queue, k), Layered(nodes, root, k), Reached(nodes, near),
           \A i \in 1..(k - 1) : Explored(nodes, edges, reasons, input, q, i),
           NEW m, \A i \in 1..Len(nodes) : nodes[i].name # m,
           nodes[k].depth < q.depth, m \in Beside(input, q, nodes[k].name), m \in Methodic(input, root)
    PROVE  LET found == Append(nodes, Node(m, nodes[k].depth + 1)) IN
           Queued(found, Append(queue, m), k) /\ Layered(found, root, k) /\ Reached(found, near)
<1> DEFINE d == nodes[k].depth
           node == Node(m, d + 1)
           found == Append(nodes, node)
           n == Len(nodes)
<1>1. /\ n \in Nat /\ k \in 1..n /\ Len(queue) \in Nat /\ Len(queue) = n - k
      /\ q.depth \in Nat /\ \A i \in 1..n : nodes[i].depth \in 0..q.depth
  <2>1. n \in Nat /\ Len(queue) \in Nat /\ k \in 1..n /\ Len(queue) = n - k
      BY Elements DEF Queued
  <2>2. \A i \in 1..n : nodes[i] \in Nodes(input, q, root)
      BY Elements
  <2> QED BY <2>1, <2>2 DEF Nodes, Setting, Ranged
<1>2. d \in Nat /\ d \in 0..q.depth /\ d + 1 \in 1..q.depth /\ d + 1 - 1 = d
    BY <1>1
<1>3. node.name = m /\ node.depth = d + 1 /\ node \in Nodes(input, q, root)
    BY <1>2 DEF Node, Nodes
<1>4. Len(found) = n + 1 /\ found[n + 1] = node /\ \A i \in 1..n : found[i] = nodes[i]
  <2> HIDE DEF node
  <2> QED BY <1>3, Appended
<1> HIDE DEF node, found
<1>5. m \in near[d + 1] /\ m \notin near[d]
  <2>1. nodes[k].name \in near[d]
      BY <1>1 DEF Reached
  <2>2. near[d + 1] = near[d] \cup UNION {Beside(input, q, p) : p \in near[d]}
      BY <1>2, SMTT(30) DEF Setting, Distances
  <2>3. \A i \in 1..n : nodes[i].depth < d => i \in 1..(k - 1)
    <3> TAKE i \in 1..n
    <3> HAVE nodes[i].depth < d
    <3>1. k <= i => nodes[k].depth <= nodes[i].depth
        BY <1>1 DEF Layered
    <3>2. nodes[i].depth \in Nat
        BY <1>1
    <3> QED BY <1>1, <1>2, <3>1, <3>2
  <2>4. \A j \in 0..d : \A p \in near[j] : \E i \in 1..Len(nodes) : nodes[i].name = p /\ nodes[i].depth <= j
    <3>1. \A i \in 1..Len(nodes) : nodes[i].depth < d => Explored(nodes, edges, reasons, input, q, i)
        BY <2>3
    <3> HIDE DEF d, n
    <3> QED BY <1>2, <3>1, NearFound, ZenonT(60)
  <2>5. d \in 0..d
      BY <1>2
  <2> QED BY <2>1, <2>2, <2>4, <2>5
<1>6. Queued(found, Append(queue, m), k)
  <2>1. /\ Len(Append(queue, m)) = Len(queue) + 1 /\ Append(queue, m)[Len(queue) + 1] = m
        /\ \A i \in 1..Len(queue) : Append(queue, m)[i] = queue[i]
      BY Appended
  <2>2. ASSUME NEW i \in 1..(Len(queue) + 1) PROVE Append(queue, m)[i] = found[k + i].name
    <3>1. CASE i = Len(queue) + 1
      <4>1. k + i = n + 1
          BY <1>1, <3>1
      <4> QED BY <1>3, <1>4, <2>1, <3>1, <4>1
    <3>2. CASE i \in 1..Len(queue)
      <4>1. k + i \in 1..n /\ queue[i] = nodes[k + i].name
          BY <1>1, <3>2, SMTT(30) DEF Queued
      <4> QED BY <1>4, <2>1, <3>2, <4>1
    <3> QED BY <1>1, <3>1, <3>2
  <2>3. k \in 0..Len(found) /\ Len(Append(queue, m)) = Len(found) - k
      BY <1>1, <1>4, <2>1
  <2> QED BY <2>1, <2>2, <2>3 DEF Queued
<1>7. Layered(found, root, k)
  <2>1. \A i \in 1..n : nodes[i].depth <= d + 1 /\ nodes[i].depth \in Nat
      BY <1>1 DEF Layered
  <2>2. \A i \in 1..(n + 1) : i \in 1..n \/ i = n + 1
      BY <1>1
  <2>3. ASSUME NEW i \in 1..(n + 1), NEW j \in 1..(n + 1), i <= j PROVE found[i].depth <= found[j].depth
    <3>1. CASE j \in 1..n
      <4>1. i \in 1..n
          BY <1>1, <2>3, <3>1
      <4>2. nodes[i].depth <= nodes[j].depth
          BY <2>3, <3>1, <4>1 DEF Layered
      <4> QED BY <1>4, <3>1, <4>1, <4>2
    <3>2. CASE j = n + 1
      <4>1. found[j].depth = d + 1
          BY <1>3, <1>4, <3>2
      <4>2. found[i].depth <= d + 1
        <5>1. CASE i \in 1..n
            BY <1>4, <2>1, <5>1
        <5>2. CASE i = n + 1
            BY <1>2, <1>3, <1>4, <5>2
        <5> QED BY <2>2, <5>1, <5>2
      <4> QED BY <4>1, <4>2
    <3> QED BY <2>2, <3>1, <3>2
  <2>4. ASSUME NEW i \in 1..(n + 1), NEW j \in 1..(n + 1), found[i].name = found[j].name PROVE i = j
    <3>1. CASE i \in 1..n /\ j \in 1..n
        BY <1>4, <2>4, <3>1 DEF Layered
    <3>2. CASE i = n + 1 /\ j = n + 1
        BY <3>2
    <3>3. CASE i \in 1..n /\ j = n + 1
        BY <1>3, <1>4, <2>4, <3>3
    <3>4. CASE i = n + 1 /\ j \in 1..n
        BY <1>3, <1>4, <2>4, <3>4
    <3> QED BY <2>2, <3>1, <3>2, <3>3, <3>4
  <2>5. \A i \in 1..(n + 1) : found[i].depth <= found[k].depth + 1
    <3> TAKE i \in 1..(n + 1)
    <3>1. found[k].depth = d
        BY <1>1, <1>4
    <3>2. CASE i \in 1..n
        BY <1>4, <2>1, <3>1, <3>2
    <3>3. CASE i = n + 1
        BY <1>2, <1>3, <1>4, <3>1, <3>3
    <3> QED BY <2>2, <3>2, <3>3
  <2>6. Len(found) >= 1 /\ found[1].name = root /\ found[1].depth = 0
    <3>1. n >= 1 /\ nodes[1].name = root /\ nodes[1].depth = 0
        BY DEF Layered
    <3> QED BY <1>1, <1>4, <3>1
  <2> QED BY <1>4, <2>3, <2>4, <2>5, <2>6 DEF Layered
<1>8. Reached(found, near)
  <2>1. ASSUME NEW i \in 1..(n + 1)
        PROVE  found[i].name \in near[found[i].depth]
               /\ (found[i].depth > 0 => found[i].name \notin near[found[i].depth - 1])
    <3>1. CASE i \in 1..n
        BY <1>4, <3>1 DEF Reached
    <3>2. CASE i = n + 1
      <4>1. found[i].name = m /\ found[i].depth = d + 1
          BY <1>3, <1>4, <3>2
      <4> HIDE DEF d
      <4> QED BY <1>2, <1>5, <4>1
    <3>3. i \in 1..n \/ i = n + 1
        BY <1>1
    <3> QED BY <3>1, <3>2, <3>3
  <2> QED BY <1>4, <2>1 DEF Reached
<1> QED BY <1>6, <1>7, <1>8 DEF found, node

\* The columns of a direction.
LEMMA ColumnSets ==
    ASSUME NEW q, Ranged(q)
    PROVE  \/ /\ Len(Columns(q.direction)) = 2
              /\ Columns(q.direction)[1] = "source" /\ Columns(q.direction)[2] = "target"
              /\ ToSet(Columns(q.direction)) = {"source", "target"}
           \/ /\ Len(Columns(q.direction)) = 1 /\ Columns(q.direction)[1] \in {"source", "target"}
              /\ ToSet(Columns(q.direction)) = {Columns(q.direction)[1]}
<1>1. CASE q.direction = "both"
  <2>1. Columns(q.direction) = <<"source", "target">>
      BY <1>1 DEF Columns
  <2> QED BY <2>1 DEF ToSet
<1>2. CASE q.direction = "outgoing"
  <2>1. Columns(q.direction) = <<"source">>
      BY <1>2 DEF Columns
  <2> QED BY <2>1 DEF ToSet
<1>3. CASE q.direction = "incoming"
  <2>1. Columns(q.direction) = <<"target">>
      BY <1>3 DEF Columns
  <2> QED BY <2>1 DEF ToSet
<1> QED BY <1>1, <1>2, <1>3 DEF Ranged, Directions

\* While the sites of the method m, at the distance d, are taken.
VisitingAt(g, near, input, q, root, k, m, d) ==
    /\ Visiting(g, near, input, q, root, k)
    /\ k \in 1..Len(g.nodes) /\ g.nodes[k].name = m /\ g.nodes[k].depth = d

Grew(g, t) ==
    Grown(g.nodes, g.edges, g.reasons, t.nodes, t.edges, t.reasons) /\ (g.stopped => t.stopped)

Settled(t, q, site, d) == t.stopped \/ site \in ToSet(t.edges) \/ (d = q.depth /\ "depth" \in t.reasons)

\* Types of the parts.
LEMMA WalkTypes ==
    ASSUME NEW input, NEW q, NEW root, NEW g, WalkOf(g, input, q, root), Ranged(q)
    PROVE  /\ g.nodes \in Seq(Nodes(input, q, root)) /\ Len(g.nodes) \in Nat
           /\ \A i \in 1..Len(g.nodes) :
               /\ g.nodes[i] \in Nodes(input, q, root)
               /\ g.nodes[i].depth \in 0..q.depth /\ g.nodes[i].name \in Methodic(input, root)
           /\ g.edges \in Seq(CallSites(input)) /\ Len(g.edges) \in Nat
           /\ g.queue \in Seq(Methodic(input, root)) /\ Len(g.queue) \in Nat
           /\ g.stopped \in BOOLEAN /\ g.sites = <<>> /\ ~g.ended /\ g.reasons \subseteq Reasons
           /\ Found(g) = {g.nodes[i].name : i \in 1..Len(g.nodes)}
<1>1. PICK source, frontier :
        \E nodes \in Seq(Nodes(input, q, root)), edges \in Seq(CallSites(input)),
           queue \in Seq(Methodic(input, root)), reasons \in SUBSET Reasons, stopped \in BOOLEAN :
            g = [source |-> source, nodes |-> nodes, edges |-> edges, sites |-> <<>>, queue |-> queue,
                 reasons |-> reasons, frontier |-> frontier, stopped |-> stopped, ended |-> FALSE]
    BY WalkParts
<1>2. PICK nodes \in Seq(Nodes(input, q, root)), edges \in Seq(CallSites(input)),
           queue \in Seq(Methodic(input, root)), reasons \in SUBSET Reasons, stopped \in BOOLEAN :
            g = [source |-> source, nodes |-> nodes, edges |-> edges, sites |-> <<>>, queue |-> queue,
                 reasons |-> reasons, frontier |-> frontier, stopped |-> stopped, ended |-> FALSE]
    BY <1>1
<1>3. /\ g.nodes = nodes /\ g.edges = edges /\ g.queue = queue /\ g.reasons = reasons /\ g.stopped = stopped
      /\ g.sites = <<>> /\ g.ended = FALSE
    BY <1>2
<1>4. /\ Len(nodes) \in Nat /\ Len(edges) \in Nat /\ Len(queue) \in Nat /\ DOMAIN nodes = 1..Len(nodes)
      /\ \A i \in 1..Len(nodes) : nodes[i] \in Nodes(input, q, root)
    BY Elements
<1>5. \A x \in Nodes(input, q, root) : x.depth \in 0..q.depth /\ x.name \in Methodic(input, root)
    BY DEF Nodes
<1>6. Found(g) = {g.nodes[i].name : i \in 1..Len(g.nodes)}
    BY <1>3, <1>4 DEF Found
<1> QED BY <1>3, <1>4, <1>5, <1>6

\* Sums of rows.
LEMMA Sums ==
    ASSUME NEW a \in Nat, NEW b \in Nat
    PROVE  /\ a + b + 1 <= GraphRoom => a + (b + 1) <= GraphRoom
           /\ a + b + 2 <= GraphRoom => (a + 1) + (b + 1) <= GraphRoom
BY GraphAssumption DEF GraphAssumption

\* One site of the current method is taken.
LEMMA TakeKeeps ==
    ASSUME NEW near, NEW input, NEW q, NEW root, Setting(near, input, q, root),
           NEW g, NEW k, NEW m, NEW d, VisitingAt(g, near, input, q, root, k, m, d),
           NEW column \in ToSet(Columns(q.direction)), NEW site \in Ending(input, column, m)
    PROVE  LET t == Take(g, q, site, column, d) IN
           VisitingAt(t, near, input, q, root, k, m, d) /\ Grew(g, t) /\ Settled(t, q, site, d)
<1> DEFINE t == Take(g, q, site, column, d)
           other == Other(site, column)
<1>1. /\ WalkOf(g, input, q, root) /\ Halted(g.reasons, g.stopped) /\ k > 0
      /\ Queued(g.nodes, g.queue, k) /\ Layered(g.nodes, root, k) /\ Reached(g.nodes, near)
      /\ Drawn(g.nodes, g.edges, input, q) /\ Budgeted(g.nodes, g.edges, q)
      /\ Labelled(g.nodes, g.edges, input, q, k - 1)
      /\ \A i \in 1..(k - 1) : Explored(g.nodes, g.edges, g.reasons, input, q, i)
      /\ k \in 1..Len(g.nodes) /\ g.nodes[k].name = m /\ g.nodes[k].depth = d
    BY DEF VisitingAt, Visiting, Core
<1>2. Ranged(q) /\ q.depth \in Nat /\ q.max_nodes \in Nat /\ q.max_edges \in Nat
    BY DEF Setting, Ranged
<1>3. /\ g.nodes \in Seq(Nodes(input, q, root)) /\ Len(g.nodes) \in Nat
      /\ g.edges \in Seq(CallSites(input)) /\ Len(g.edges) \in Nat
      /\ g.queue \in Seq(Methodic(input, root)) /\ g.stopped \in BOOLEAN
      /\ Found(g) = {g.nodes[i].name : i \in 1..Len(g.nodes)}
      /\ \A i \in 1..Len(g.nodes) : g.nodes[i].depth \in 0..q.depth
    BY <1>1, <1>2, WalkTypes
<1>4. /\ site \in CallSites(input) /\ End(site, column) = m /\ column \in {"source", "target"}
      /\ site \in Around(input, q, m) /\ other \in Beside(input, q, m) /\ other \in Methodic(input, root)
      /\ {site.caller, site.arg} = {m, other}
  <2>1. site \in CallSites(input) /\ End(site, column) = m
      BY DEF Ending
  <2>2. column \in {"source", "target"}
      BY <1>2, ColumnSets
  <2>3. {site.caller, site.arg} = {m, other}
      BY <2>1, <2>2 DEF End, Other
  <2> QED BY <2>1, <2>2, <2>3 DEF Around, Beside, Methodic, Other
<1>5. /\ WalkOf(t, input, q, root)
      /\ \/ Passed(g, t, q, site, d)
         \/ Taking(g, t, q, site, d) /\ other \in Found(g) /\ Closing(g, t)
         \/ Taking(g, t, q, site, d) /\ other \notin Found(g) /\ Finding(g, t, q, other, d)
    BY <1>1, <1>2, <1>3, <1>4, TakeShape, ZenonT(60)
<1> HIDE DEF t, other
<1>6. CASE Passed(g, t, q, site, d)
  <2>1. /\ t.nodes = g.nodes /\ t.edges = g.edges /\ t.queue = g.queue
        /\ g.reasons \subseteq t.reasons /\ Halted(t.reasons, t.stopped) /\ (g.stopped => t.stopped)
        /\ ~t.stopped => site \in ToSet(t.edges) \/ (d = q.depth /\ "depth" \in t.reasons)
      BY <1>6 DEF Passed
  <2>2. Grown(g.nodes, g.edges, g.reasons, t.nodes, t.edges, t.reasons)
      BY <1>3, <2>1 DEF Grown
  <2>3. \A i \in 1..(k - 1) : Explored(t.nodes, t.edges, t.reasons, input, q, i)
    <3> TAKE i \in 1..(k - 1)
    <3>1. i \in 1..Len(g.nodes) /\ Explored(g.nodes, g.edges, g.reasons, input, q, i)
        BY <1>1, <1>3
    <3> QED BY <1>3, <2>1, <2>2, <3>1, ExploredGrows
  <2>4. Visiting(t, near, input, q, root, k)
      BY <1>1, <1>5, <2>1, <2>3 DEF Visiting, Core
  <2> QED BY <1>1, <2>1, <2>2, <2>4 DEF VisitingAt, Grew, Settled, t
<1>7. ASSUME Taking(g, t, q, site, d),
             Len(g.nodes) <= Len(t.nodes), \A i \in 1..Len(g.nodes) : t.nodes[i] = g.nodes[i],
             \A i \in 1..Len(t.nodes) : i \in 1..Len(g.nodes) \/ t.nodes[i].status = "not_expanded",
             \E i \in 1..Len(t.nodes) : t.nodes[i].name = other,
             Queued(t.nodes, t.queue, k), Layered(t.nodes, root, k), Reached(t.nodes, near),
             Len(t.nodes) <= q.max_nodes, Len(t.nodes) + Len(t.edges) <= GraphRoom
      PROVE  VisitingAt(t, near, input, q, root, k, m, d) /\ Grew(g, t) /\ Settled(t, q, site, d)
  <2>1. /\ ~g.stopped /\ ~t.stopped /\ t.reasons = g.reasons /\ d < q.depth
        /\ site \notin ToSet(g.edges) /\ t.edges = Append(g.edges, site) /\ Len(g.edges) # q.max_edges
      BY <1>7 DEF Taking
  <2>2. ToSet(t.edges) = ToSet(g.edges) \cup {site} /\ Len(t.edges) = Len(g.edges) + 1
      BY <1>3, <1>4, <2>1, Appended
  <2>3. t.nodes \in Seq(Nodes(input, q, root)) /\ Len(t.nodes) \in Nat
      BY <1>2, <1>5, WalkTypes
  <2>4. Grown(g.nodes, g.edges, g.reasons, t.nodes, t.edges, t.reasons)
      BY <1>7, <2>1, <2>2 DEF Grown
  <2>5. \A i \in 1..(k - 1) : Explored(t.nodes, t.edges, t.reasons, input, q, i)
    <3> TAKE i \in 1..(k - 1)
    <3>1. i \in 1..Len(g.nodes) /\ Explored(g.nodes, g.edges, g.reasons, input, q, i)
        BY <1>1, <1>3
    <3> QED BY <1>3, <2>3, <2>4, <3>1, ExploredGrows
  <2>6. Drawn(t.nodes, t.edges, input, q)
    <3>1. k \in 1..Len(t.nodes) /\ t.nodes[k].name = m
        BY <1>1, <1>3, <1>7, <2>3
    <3>2. /\ \E i \in 1..Len(t.nodes) : t.nodes[i].name = site.caller
          /\ \E i \in 1..Len(t.nodes) : t.nodes[i].name = site.arg
        BY <1>4, <1>7, <3>1
    <3>3. g.nodes[k].depth < q.depth /\ site \in Around(input, q, g.nodes[k].name) /\ site \in CallSites(input)
        BY <1>1, <1>4, <2>1
    <3>4. Drawn(t.nodes, Append(g.edges, site), input, q)
        BY <1>1, <1>3, <1>7, <2>1, <2>3, <3>2, <3>3, DrawnMore
    <3> QED BY <2>1, <3>4
  <2>7. Budgeted(t.nodes, t.edges, q)
    <3>1. Len(t.edges) <= q.max_edges
        BY <1>1, <1>2, <1>3, <2>1, <2>2 DEF Budgeted
    <3> QED BY <1>7, <3>1 DEF Budgeted
  <2>8. Labelled(t.nodes, t.edges, input, q, k - 1)
    <3> SUFFICES ASSUME NEW i \in 1..Len(t.nodes)
                 PROVE  /\ t.nodes[i].status = "not_expanded" <=> i > k - 1
                        /\ t.nodes[i].status = "expanded" =>
                               Around(input, q, t.nodes[i].name) \subseteq ToSet(t.edges)
        BY DEF Labelled
    <3>1. CASE i \in 1..Len(g.nodes)
      <4>1. /\ g.nodes[i].status = "not_expanded" <=> i > k - 1
            /\ g.nodes[i].status = "expanded" => Around(input, q, g.nodes[i].name) \subseteq ToSet(g.edges)
          BY <1>1, <3>1 DEF Labelled
      <4> QED BY <1>7, <2>2, <3>1, <4>1
    <3>2. CASE i \notin 1..Len(g.nodes)
      <4>1. t.nodes[i].status = "not_expanded"
          BY <1>7, <3>2
      <4>2. i > k - 1
          BY <1>1, <1>3, <2>3, <3>2
      <4> QED BY <4>1, <4>2
    <3> QED BY <3>1, <3>2
  <2>9. Halted(t.reasons, t.stopped)
      BY <1>1, <2>1 DEF Halted
  <2>10. Visiting(t, near, input, q, root, k)
      BY <1>1, <1>5, <1>7, <2>5, <2>6, <2>7, <2>8, <2>9 DEF Visiting, Core
  <2>11. k \in 1..Len(t.nodes) /\ t.nodes[k].name = m /\ t.nodes[k].depth = d
      BY <1>1, <1>3, <1>7, <2>3, SMTT(30)
  <2> QED BY <2>1, <2>2, <2>4, <2>10, <2>11 DEF VisitingAt, Grew, Settled
<1>8. CASE Taking(g, t, q, site, d) /\ other \in Found(g) /\ Closing(g, t)
  <2>1. t.nodes = g.nodes /\ t.queue = g.queue /\ Len(g.nodes) + Len(g.edges) + 1 <= GraphRoom
      BY <1>8 DEF Closing
  <2>2. Len(t.edges) = Len(g.edges) + 1
      BY <1>3, <1>4, <1>8, Appended DEF Taking
  <2>3. Len(t.nodes) <= q.max_nodes /\ Len(t.nodes) + Len(t.edges) <= GraphRoom
    <3>1. Len(g.nodes) + (Len(g.edges) + 1) <= GraphRoom
        BY <1>3, <2>1, Sums
    <3> QED BY <1>1, <2>1, <2>2, <3>1 DEF Budgeted
  <2>4. \E i \in 1..Len(t.nodes) : t.nodes[i].name = other
      BY <1>3, <1>8, <2>1
  <2> QED BY <1>1, <1>3, <1>7, <1>8, <2>1, <2>3, <2>4 DEF t
<1>9. CASE Taking(g, t, q, site, d) /\ other \notin Found(g) /\ Finding(g, t, q, other, d)
  <2>1. /\ t.nodes = Append(g.nodes, Node(other, d + 1)) /\ t.queue = Append(g.queue, other)
        /\ Len(g.nodes) # q.max_nodes /\ Len(g.nodes) + Len(g.edges) + 2 <= GraphRoom
      BY <1>9 DEF Finding
  <2>2. d \in 0..q.depth /\ d + 1 \in 0..q.depth /\ d < q.depth
      BY <1>1, <1>2, <1>3, <1>9, SMTT(30) DEF Taking
  <2>3. /\ Node(other, d + 1) \in Nodes(input, q, root)
        /\ Node(other, d + 1).name = other /\ Node(other, d + 1).status = "not_expanded"
      BY <1>4, <2>2 DEF Node, Nodes
  <2>4. /\ Len(t.nodes) = Len(g.nodes) + 1 /\ t.nodes[Len(g.nodes) + 1] = Node(other, d + 1)
        /\ \A i \in 1..Len(g.nodes) : t.nodes[i] = g.nodes[i]
      BY <1>3, <2>1, <2>3, Appended
  <2>5. Queued(t.nodes, t.queue, k) /\ Layered(t.nodes, root, k) /\ Reached(t.nodes, near)
    <3>1. \A i \in 1..Len(g.nodes) : g.nodes[i].name # other
        BY <1>3, <1>9
    <3>2. k \in Nat \ {0}
        BY <1>1, <1>3
    <3>3. /\ g.nodes[k].depth < q.depth /\ other \in Beside(input, q, g.nodes[k].name)
          /\ other \in Methodic(input, root)
        BY <1>1, <1>4, <2>2
    <3> DEFINE found == Append(g.nodes, Node(other, g.nodes[k].depth + 1))
    <3>4. Queued(found, Append(g.queue, other), k) /\ Layered(found, root, k) /\ Reached(found, near)
        BY <1>1, <1>3, <3>1, <3>2, <3>3, FoundNext
    <3>5. t.nodes = found /\ t.queue = Append(g.queue, other)
        BY <1>1, <2>1
    <3> QED BY <3>4, <3>5
  <2>6. Len(t.edges) = Len(g.edges) + 1
      BY <1>3, <1>4, <1>9, Appended DEF Taking
  <2>7. Len(t.nodes) <= q.max_nodes /\ Len(t.nodes) + Len(t.edges) <= GraphRoom
    <3>1. Len(g.nodes) <= q.max_nodes
        BY <1>1 DEF Budgeted
    <3>2. Len(g.nodes) + 1 <= q.max_nodes
        BY <1>2, <1>3, <2>1, <3>1
    <3>3. Len(g.nodes) + 1 + (Len(g.edges) + 1) <= GraphRoom
        BY <1>3, <2>1, Sums
    <3> QED BY <2>4, <2>6, <3>2, <3>3
  <2>8. \E i \in 1..Len(t.nodes) : t.nodes[i].name = other
      BY <1>3, <2>3, <2>4
  <2>9. \A i \in 1..Len(t.nodes) : i \in 1..Len(g.nodes) \/ t.nodes[i].status = "not_expanded"
    <3> TAKE i \in 1..Len(t.nodes)
    <3>1. i \in 1..Len(g.nodes) \/ i = Len(g.nodes) + 1
        BY <1>3, <2>4
    <3> QED BY <2>3, <2>4, <3>1
  <2>10. Len(g.nodes) <= Len(t.nodes)
      BY <1>3, <2>4
  <2> QED BY <1>7, <1>9, <2>4, <2>5, <2>7, <2>8, <2>9, <2>10 DEF t
<1> QED BY <1>5, <1>6, <1>8, <1>9

\* What has grown once has grown since; what was settled is settled.
LEMMA GrewOn ==
    ASSUME NEW g, NEW t, NEW u, Len(g.nodes) \in Nat, Len(t.nodes) \in Nat, Len(u.nodes) \in Nat,
           Grew(g, t), Grew(t, u)
    PROVE  Grew(g, u)
<1>1. Len(g.nodes) <= Len(u.nodes)
    BY DEF Grew, Grown
<1>2. \A i \in 1..Len(g.nodes) : u.nodes[i] = g.nodes[i]
  <2> TAKE i \in 1..Len(g.nodes)
  <2>1. i \in 1..Len(t.nodes) /\ t.nodes[i] = g.nodes[i]
      BY DEF Grew, Grown
  <2> QED BY <2>1 DEF Grew, Grown
<1> QED BY <1>1, <1>2 DEF Grew, Grown

\* A settled site stays settled.
LEMMA StaysSettled ==
    ASSUME NEW g, NEW t, NEW q, NEW site, NEW d, Grew(g, t), Settled(g, q, site, d)
    PROVE  Settled(t, q, site, d)
BY DEF Grew, Grown, Settled

\* The walks that are at the method m, k-th to be looked at, with the given source and frontier.
Walkings(source, frontier, near, input, q, root, k, m, d) ==
    {g \in [source : {source}, nodes : Seq(Nodes(input, q, root)), edges : Seq(CallSites(input)),
            sites : {<<>>}, queue : Seq(Methodic(input, root)), reasons : SUBSET Reasons,
            frontier : {frontier}, stopped : BOOLEAN, ended : {FALSE}] :
        VisitingAt(g, near, input, q, root, k, m, d)}

\* Walks of one visit: they are of the visit, as its members are walks.
LEMMA WalkingsHold ==
    ASSUME NEW source, NEW frontier, NEW near, NEW input, NEW q, NEW root, NEW k, NEW m, NEW d, NEW g
    PROVE  g \in Walkings(source, frontier, near, input, q, root, k, m, d)
           <=> /\ VisitingAt(g, near, input, q, root, k, m, d)
               /\ g.source = source /\ g.frontier = frontier
<1> DEFINE NS == Seq(Nodes(input, q, root))
           ES == Seq(CallSites(input))
           QS == Seq(Methodic(input, root))
           RS == SUBSET Reasons
           V == VisitingAt(g, near, input, q, root, k, m, d)
           all == [source : {source}, nodes : NS, edges : ES, sites : {<<>>}, queue : QS, reasons : RS,
                   frontier : {frontier}, stopped : BOOLEAN, ended : {FALSE}]
<1>1. g \in Walkings(source, frontier, near, input, q, root, k, m, d) <=> g \in all /\ V
    BY DEF Walkings
<1>2. V => g \in [source : {g.source}, nodes : NS, edges : ES, sites : {<<>>}, queue : QS, reasons : RS,
                  frontier : {g.frontier}, stopped : BOOLEAN, ended : {FALSE}]
    BY DEF VisitingAt, Visiting, WalkOf
<1> HIDE DEF NS, ES, QS, RS, V
<1>3. g \in all => g.source = source /\ g.frontier = frontier
    OBVIOUS
<1>4. V /\ g.source = source /\ g.frontier = frontier => g \in all
    BY <1>2
<1> HIDE DEF all
<1> QED BY <1>1, <1>3, <1>4 DEF V

\* The adjacent sites of a column, one after the other.
LEMMA AlongKeeps ==
    ASSUME NEW near, NEW input, NEW q, NEW root, Setting(near, input, q, root),
           NEW g, NEW k, NEW m, NEW d, VisitingAt(g, near, input, q, root, k, m, d),
           NEW column \in ToSet(Columns(q.direction)),
           NEW sites \in Seq(CallSites(input)), ToSet(sites) \subseteq Ending(input, column, m)
    PROVE  LET t == Along(g, q, sites, column, d) IN
           /\ VisitingAt(t, near, input, q, root, k, m, d) /\ Grew(g, t)
           /\ \A s \in ToSet(sites) : Settled(t, q, s, d)
           /\ t.source = g.source /\ t.frontier = g.frontier
<1> DEFINE n == Len(sites)
           T == Walkings(g.source, g.frontier, near, input, q, root, k, m, d)
           Next1(j, h) == Take(h, q, sites[j], column, d)
           step == [p \in (1..n) \X T |-> Next1(p[1], p[2])]
<1>1. n \in Nat /\ \A j \in 1..n : sites[j] \in Ending(input, column, m)
    BY Elements
<1>2. g \in T
    BY WalkingsHold
<1>3. \A h \in T : Len(h.nodes) \in Nat /\ WalkOf(h, input, q, root)
  <2> TAKE h \in T
  <2>1. WalkOf(h, input, q, root) /\ Ranged(q)
      BY WalkingsHold DEF VisitingAt, Visiting, Setting
  <2> QED BY <2>1, WalkTypes
<1>4. ASSUME NEW j \in 1..n, NEW h \in T
      PROVE  Next1(j, h) \in T /\ Grew(h, Next1(j, h)) /\ Settled(Next1(j, h), q, sites[j], d)
  <2>1. /\ VisitingAt(h, near, input, q, root, k, m, d)
        /\ h.source = g.source /\ h.frontier = g.frontier
      BY WalkingsHold
  <2>2. sites[j] \in Ending(input, column, m)
      BY <1>1
  <2>3. /\ VisitingAt(Next1(j, h), near, input, q, root, k, m, d)
        /\ Grew(h, Next1(j, h)) /\ Settled(Next1(j, h), q, sites[j], d)
      BY <2>1, <2>2, TakeKeeps
  <2>4. Next1(j, h).source = h.source /\ Next1(j, h).frontier = h.frontier
    <3>1. /\ WalkOf(h, input, q, root) /\ Ranged(q) /\ Halted(h.reasons, h.stopped)
          /\ k \in 1..Len(h.nodes) /\ h.nodes[k].depth = d
        BY <2>1 DEF VisitingAt, Visiting, Setting
    <3>2. d \in 0..q.depth
        BY <3>1, WalkTypes
    <3>3. sites[j] \in CallSites(input) /\ column \in {"source", "target"}
        BY <2>2, <3>1, ColumnSets DEF Ending
    <3> QED BY <3>1, <3>2, <3>3, TakeShape
  <2> HIDE DEF Next1
  <2> QED BY <2>1, <2>3, <2>4, WalkingsHold
<1> HIDE DEF n, T
<1>5. step \in [(1..n) \X T -> T]
  <2>1. \A p \in (1..n) \X T : Next1(p[1], p[2]) \in T
    <3> HIDE DEF Next1
    <3> QED BY <1>4
  <2> HIDE DEF Next1
  <2> QED BY <2>1
<1>6. PICK f : Computes(f, T, g, n, step)
  <2>1. Recursive(T, g, n, step)
    <3> HIDE DEF step
    <3> QED BY <1>1, <1>2, <1>5 DEF Recursive
  <2> HIDE DEF step
  <2> QED BY <2>1, Recursion
<1>7. /\ f \in [0..n -> T] /\ f[0] = g
      /\ \A j \in 1..n : f[j - 1] \in T /\ f[j] = Next1(j, f[j - 1])
  <2>1. f \in [0..n -> T] /\ f[0] = g /\ \A j \in 1..n : f[j] = step[<<j, f[j - 1]>>]
    <3> HIDE DEF step
    <3> QED BY <1>6 DEF Computes
  <2>2. ASSUME NEW j \in 1..n PROVE f[j - 1] \in T /\ f[j] = Next1(j, f[j - 1])
    <3>1. j - 1 \in 0..n
        BY <1>1
    <3>2. f[j - 1] \in T
        BY <2>1, <3>1
    <3>3. step[<<j, f[j - 1]>>] = Next1(j, f[j - 1])
      <4>1. <<j, f[j - 1]>> \in (1..n) \X T
          BY <3>2
      <4> HIDE DEF Next1
      <4> QED BY <4>1
    <3> HIDE DEF Next1, step
    <3> QED BY <2>1, <3>2, <3>3
  <2> HIDE DEF Next1, step
  <2> QED BY <2>1, <2>2
<1> DEFINE Taken(h) == h = [j \in 0..n |-> IF j = 0 THEN g ELSE Take(h[j - 1], q, sites[j], column, d)]
<1>8. Taken(f)
  <2>1. \A j \in 0..n : f[j] = IF j = 0 THEN g ELSE Take(f[j - 1], q, sites[j], column, d)
    <3> TAKE j \in 0..n
    <3>1. CASE j = 0
        BY <1>7, <3>1
    <3>2. CASE j # 0
      <4>1. j \in 1..n
          BY <1>1, <3>2
      <4> QED BY <1>7, <3>2, <4>1
    <3> QED BY <3>1, <3>2
  <2>2. f = [j \in 0..n |-> f[j]]
      BY <1>7
  <2> QED BY <2>1, <2>2
<1> DEFINE after == CHOOSE h : Taken(h)
<1>9. Taken(after)
  <2> HIDE DEF Taken
  <2> QED BY <1>8
<1>10. Along(g, q, sites, column, d) = after[n]
    BY DEF Along, n
<1> HIDE DEF after
<1>11. after[0] = g /\ \A j \in 1..n : after[j] = Next1(j, after[j - 1])
  <2>1. \A j \in 0..n : after[j] = IF j = 0 THEN g ELSE Take(after[j - 1], q, sites[j], column, d)
      BY <1>9
  <2>2. 0 \in 0..n /\ \A j \in 1..n : j \in 0..n /\ j # 0
      BY <1>1
  <2> QED BY <2>1, <2>2
<1> HIDE DEF Next1
<1> DEFINE Good(j) == /\ after[j] \in T /\ Grew(g, after[j])
                      /\ \A i \in 1..j : Settled(after[j], q, sites[i], d)
           G == {j \in 0..n : Good(j)}
<1>12. 0 \in G
  <2>1. Grew(g, g)
      BY <1>2, <1>3 DEF Grew, Grown
  <2>2. Good(0)
      BY <1>2, <1>11, <2>1
  <2> HIDE DEF Good
  <2> QED BY <1>1, <2>2
<1>13. \A j \in 0..(n - 1) : j \in G => j + 1 \in G
  <2> TAKE j \in 0..(n - 1)
  <2> HAVE j \in G
  <2>1. Good(j) /\ j \in Nat /\ j + 1 \in 1..n /\ j + 1 - 1 = j
      BY <1>1
  <2>2. after[j + 1] = Next1(j + 1, after[j])
      BY <1>11, <2>1
  <2>3. after[j + 1] \in T /\ Grew(after[j], after[j + 1]) /\ Settled(after[j + 1], q, sites[j + 1], d)
      BY <1>4, <2>1, <2>2
  <2>4. Grew(g, after[j + 1])
    <3>1. Len(g.nodes) \in Nat /\ Len(after[j].nodes) \in Nat /\ Len(after[j + 1].nodes) \in Nat
        BY <1>2, <1>3, <2>1, <2>3
    <3> QED BY <2>1, <2>3, <3>1, GrewOn
  <2>5. \A i \in 1..(j + 1) : Settled(after[j + 1], q, sites[i], d)
    <3> TAKE i \in 1..(j + 1)
    <3>1. CASE i = j + 1
        BY <2>3, <3>1
    <3>2. CASE i \in 1..j
        BY <2>1, <2>3, <3>2, StaysSettled
    <3> QED BY <2>1, <3>1, <3>2
  <2>6. Good(j + 1)
      BY <2>3, <2>4, <2>5
  <2> HIDE DEF Good
  <2> QED BY <2>1, <2>6
<1>14. Good(n)
  <2> HIDE DEF Good
  <2>1. 0..n \subseteq G
    <3> HIDE DEF G
    <3> QED BY <1>1, <1>12, <1>13, UpTo
  <2>2. n \in 0..n
      BY <1>1
  <2> QED BY <2>1, <2>2
<1>15. /\ VisitingAt(after[n], near, input, q, root, k, m, d)
       /\ after[n].source = g.source /\ after[n].frontier = g.frontier
    BY <1>14, WalkingsHold DEF T
<1>16. \A s \in ToSet(sites) : \E i \in 1..n : s = sites[i]
    BY Elements DEF n
<1> QED BY <1>10, <1>14, <1>15, <1>16

-----------------------------------------------------------------------------
(***************************************************************************)
(* One method leaves the queue.                                            *)
(***************************************************************************)

\* A walk with another queue.
LEMMA QueueChanged ==
    ASSUME NEW input, NEW q, NEW root, NEW g, WalkOf(g, input, q, root),
           NEW other \in Seq(Methodic(input, root)), NEW t
    PROVE  t = [g EXCEPT !.queue = other] =>
            /\ WalkOf(t, input, q, root) /\ t.nodes = g.nodes /\ t.edges = g.edges /\ t.queue = other
            /\ t.reasons = g.reasons /\ t.stopped = g.stopped
<1>1. PICK source, frontier :
        \E nodes \in Seq(Nodes(input, q, root)), edges \in Seq(CallSites(input)),
           queue \in Seq(Methodic(input, root)), reasons \in SUBSET Reasons, stopped \in BOOLEAN :
            g = [source |-> source, nodes |-> nodes, edges |-> edges, sites |-> <<>>, queue |-> queue,
                 reasons |-> reasons, frontier |-> frontier, stopped |-> stopped, ended |-> FALSE]
    BY WalkParts
<1>2. PICK nodes \in Seq(Nodes(input, q, root)), edges \in Seq(CallSites(input)),
           queue \in Seq(Methodic(input, root)), reasons \in SUBSET Reasons, stopped \in BOOLEAN :
            g = [source |-> source, nodes |-> nodes, edges |-> edges, sites |-> <<>>, queue |-> queue,
                 reasons |-> reasons, frontier |-> frontier, stopped |-> stopped, ended |-> FALSE]
    BY <1>1
<1>3. ASSUME t = [g EXCEPT !.queue = other]
      PROVE  /\ WalkOf(t, input, q, root) /\ t.nodes = g.nodes /\ t.edges = g.edges /\ t.queue = other
             /\ t.reasons = g.reasons /\ t.stopped = g.stopped
  <2>1. t = [source |-> source, nodes |-> nodes, edges |-> edges, sites |-> <<>>, queue |-> other,
             reasons |-> reasons, frontier |-> frontier, stopped |-> stopped, ended |-> FALSE]
      BY <1>2, <1>3
  <2>2. WalkOf(t, input, q, root)
      BY <2>1, WalkMade
  <2> QED BY <1>2, <2>1, <2>2
<1> QED BY <1>3

\* A walk with another frontier.
LEMMA FrontierChanged ==
    ASSUME NEW input, NEW q, NEW root, NEW g, WalkOf(g, input, q, root),
           NEW other, NEW t
    PROVE  t = [g EXCEPT !.frontier = other] =>
            /\ WalkOf(t, input, q, root) /\ t.nodes = g.nodes /\ t.edges = g.edges /\ t.queue = g.queue
            /\ t.reasons = g.reasons /\ t.stopped = g.stopped
<1>1. PICK source, frontier :
        \E nodes \in Seq(Nodes(input, q, root)), edges \in Seq(CallSites(input)),
           queue \in Seq(Methodic(input, root)), reasons \in SUBSET Reasons, stopped \in BOOLEAN :
            g = [source |-> source, nodes |-> nodes, edges |-> edges, sites |-> <<>>, queue |-> queue,
                 reasons |-> reasons, frontier |-> frontier, stopped |-> stopped, ended |-> FALSE]
    BY WalkParts
<1>2. PICK nodes \in Seq(Nodes(input, q, root)), edges \in Seq(CallSites(input)),
           queue \in Seq(Methodic(input, root)), reasons \in SUBSET Reasons, stopped \in BOOLEAN :
            g = [source |-> source, nodes |-> nodes, edges |-> edges, sites |-> <<>>, queue |-> queue,
                 reasons |-> reasons, frontier |-> frontier, stopped |-> stopped, ended |-> FALSE]
    BY <1>1
<1>3. ASSUME t = [g EXCEPT !.frontier = other]
      PROVE  /\ WalkOf(t, input, q, root) /\ t.nodes = g.nodes /\ t.edges = g.edges /\ t.queue = g.queue
             /\ t.reasons = g.reasons /\ t.stopped = g.stopped
  <2>1. t = [source |-> source, nodes |-> nodes, edges |-> edges, sites |-> <<>>, queue |-> queue,
             reasons |-> reasons, frontier |-> other, stopped |-> stopped, ended |-> FALSE]
      BY <1>2, <1>3
  <2>2. WalkOf(t, input, q, root)
      BY <2>1, WalkMade
  <2> QED BY <1>2, <2>1, <2>2
<1> QED BY <1>3

\* A walk with other nodes.
LEMMA NodesChanged ==
    ASSUME NEW input, NEW q, NEW root, NEW g, WalkOf(g, input, q, root),
           NEW other \in Seq(Nodes(input, q, root)), NEW t
    PROVE  t = [g EXCEPT !.nodes = other] =>
            /\ WalkOf(t, input, q, root) /\ t.nodes = other /\ t.edges = g.edges /\ t.queue = g.queue
            /\ t.reasons = g.reasons /\ t.stopped = g.stopped
<1>1. PICK source, frontier :
        \E nodes \in Seq(Nodes(input, q, root)), edges \in Seq(CallSites(input)),
           queue \in Seq(Methodic(input, root)), reasons \in SUBSET Reasons, stopped \in BOOLEAN :
            g = [source |-> source, nodes |-> nodes, edges |-> edges, sites |-> <<>>, queue |-> queue,
                 reasons |-> reasons, frontier |-> frontier, stopped |-> stopped, ended |-> FALSE]
    BY WalkParts
<1>2. PICK nodes \in Seq(Nodes(input, q, root)), edges \in Seq(CallSites(input)),
           queue \in Seq(Methodic(input, root)), reasons \in SUBSET Reasons, stopped \in BOOLEAN :
            g = [source |-> source, nodes |-> nodes, edges |-> edges, sites |-> <<>>, queue |-> queue,
                 reasons |-> reasons, frontier |-> frontier, stopped |-> stopped, ended |-> FALSE]
    BY <1>1
<1>3. ASSUME t = [g EXCEPT !.nodes = other]
      PROVE  /\ WalkOf(t, input, q, root) /\ t.nodes = other /\ t.edges = g.edges /\ t.queue = g.queue
             /\ t.reasons = g.reasons /\ t.stopped = g.stopped
  <2>1. t = [source |-> source, nodes |-> other, edges |-> edges, sites |-> <<>>, queue |-> queue,
             reasons |-> reasons, frontier |-> frontier, stopped |-> stopped, ended |-> FALSE]
      BY <1>2, <1>3
  <2>2. WalkOf(t, input, q, root)
      BY <2>1, WalkMade
  <2> QED BY <1>2, <2>1, <2>2
<1> QED BY <1>3

\* The methods and their distances decide; what the answer calls them does not.
Alike(nodes, nodes2) ==
    /\ Len(nodes2) = Len(nodes)
    /\ \A i \in 1..Len(nodes) : nodes2[i].name = nodes[i].name /\ nodes2[i].depth = nodes[i].depth

\* Nodes that differ in their status alone keep what is said of names and distances.
LEMMA AlikeKeeps ==
    ASSUME NEW near, NEW input, NEW q, NEW root, NEW k, NEW nodes, NEW nodes2, NEW edges, NEW reasons, NEW queue,
           Len(nodes) \in Nat, Alike(nodes, nodes2), k \in 0..Len(nodes), Len(queue) \in Nat
    PROVE  /\ Queued(nodes, queue, k) => Queued(nodes2, queue, k)
           /\ Layered(nodes, root, k) => Layered(nodes2, root, k)
           /\ Reached(nodes, near) => Reached(nodes2, near)
           /\ Drawn(nodes, edges, input, q) => Drawn(nodes2, edges, input, q)
           /\ Budgeted(nodes, edges, q) => Budgeted(nodes2, edges, q)
           /\ \A i \in 1..Len(nodes) :
                Explored(nodes, edges, reasons, input, q, i) => Explored(nodes2, edges, reasons, input, q, i)
<1>1. /\ Len(nodes2) = Len(nodes)
      /\ \A i \in 1..Len(nodes) : nodes2[i].name = nodes[i].name /\ nodes2[i].depth = nodes[i].depth
    BY DEF Alike
<1>2. Queued(nodes, queue, k) => Queued(nodes2, queue, k)
  <2> HAVE Queued(nodes, queue, k)
  <2>1. \A i \in 1..Len(queue) : k + i \in 1..Len(nodes)
      BY DEF Queued
  <2> QED BY <1>1, <2>1 DEF Queued
<1>3. Layered(nodes, root, k) => Layered(nodes2, root, k)
  <2> HAVE Layered(nodes, root, k)
  <2>1. Len(nodes) >= 1 /\ 1 \in 1..Len(nodes) /\ nodes[1].name = root /\ nodes[1].depth = 0
      BY DEF Layered
  <2>2. k > 0 => k \in 1..Len(nodes)
      OBVIOUS
  <2>3. k > 0 => \A i \in 1..Len(nodes) : nodes2[i].depth <= nodes2[k].depth + 1
      BY <1>1, <2>2 DEF Layered
  <2>4. /\ \A i, j \in 1..Len(nodes) : i <= j => nodes2[i].depth <= nodes2[j].depth
        /\ \A i, j \in 1..Len(nodes) : nodes2[i].name = nodes2[j].name => i = j
        /\ k = 0 => Len(nodes) = 1
      BY <1>1 DEF Layered
  <2> QED BY <1>1, <2>1, <2>3, <2>4 DEF Layered
<1>4. Reached(nodes, near) => Reached(nodes2, near)
    BY <1>1 DEF Reached
<1>5. Drawn(nodes, edges, input, q) => Drawn(nodes2, edges, input, q)
    BY <1>1 DEF Drawn
<1>6. Budgeted(nodes, edges, q) => Budgeted(nodes2, edges, q)
    BY <1>1 DEF Budgeted
<1>7. ASSUME NEW i \in 1..Len(nodes), Explored(nodes, edges, reasons, input, q, i)
      PROVE  Explored(nodes2, edges, reasons, input, q, i)
  <2>1. nodes2[i].name = nodes[i].name /\ nodes2[i].depth = nodes[i].depth
      BY <1>1
  <2>2. ASSUME nodes2[i].depth < q.depth, NEW m \in Beside(input, q, nodes2[i].name)
        PROVE  \E j \in 1..Len(nodes2) : nodes2[j].name = m /\ nodes2[j].depth <= nodes2[i].depth + 1
    <3>1. PICK j \in 1..Len(nodes) : nodes[j].name = m /\ nodes[j].depth <= nodes[i].depth + 1
        BY <1>7, <2>1, <2>2 DEF Explored
    <3> QED BY <1>1, <2>1, <3>1
  <2>3. /\ nodes2[i].depth < q.depth => Around(input, q, nodes2[i].name) \subseteq ToSet(edges)
        /\ nodes2[i].depth = q.depth =>
            Around(input, q, nodes2[i].name) \subseteq ToSet(edges) \/ "depth" \in reasons
      BY <1>7, <2>1 DEF Explored
  <2> QED BY <2>2, <2>3 DEF Explored
<1> QED BY <1>2, <1>3, <1>4, <1>5, <1>6, <1>7

\* The method at the head of the queue.
LEMMA HeadIs ==
    ASSUME NEW near, NEW input, NEW q, NEW root, Setting(near, input, q, root),
           NEW g, NEW k, Between(g, near, input, q, root, k), g.queue # <<>>
    PROVE  /\ k \in Nat /\ k + 1 \in 1..Len(g.nodes)
           /\ Head(g.queue) = g.nodes[k + 1].name /\ At(g, Head(g.queue)) = k + 1
           /\ Tail(g.queue) \in Seq(Methodic(input, root)) /\ Queued(g.nodes, Tail(g.queue), k + 1)
<1>1. /\ WalkOf(g, input, q, root) /\ Ranged(q)
      /\ Queued(g.nodes, g.queue, k) /\ Layered(g.nodes, root, k)
    BY DEF Between, Core, Setting
<1>2. /\ g.nodes \in Seq(Nodes(input, q, root)) /\ Len(g.nodes) \in Nat /\ DOMAIN g.nodes = 1..Len(g.nodes)
      /\ g.queue \in Seq(Methodic(input, root)) /\ Len(g.queue) \in Nat
    BY <1>1, WalkTypes, Elements
<1>3. /\ Head(g.queue) = g.queue[1] /\ Len(g.queue) >= 1
      /\ Tail(g.queue) \in Seq(Methodic(input, root)) /\ Len(Tail(g.queue)) = Len(g.queue) - 1
      /\ \A i \in 1..(Len(g.queue) - 1) : Tail(g.queue)[i] = g.queue[i + 1]
  <2> DEFINE Q == g.queue
             M == Methodic(input, root)
  <2>1. Q \in Seq(M) /\ Q # <<>>
      BY <1>2
  <2> HIDE DEF Q, M
  <2>2. /\ Head(Q) = Q[1] /\ Len(Q) >= 1 /\ Tail(Q) \in Seq(M) /\ Len(Tail(Q)) = Len(Q) - 1
        /\ \A i \in 1..(Len(Q) - 1) : Tail(Q)[i] = Q[i + 1]
      BY <2>1, HeadTailProperties, EmptySeq
  <2> QED BY <2>2 DEF Q, M
<1>4. k \in Nat /\ k + 1 \in 1..Len(g.nodes) /\ Head(g.queue) = g.nodes[k + 1].name
    BY <1>1, <1>2, <1>3 DEF Queued
<1>5. At(g, Head(g.queue)) = k + 1
  <2>1. \A i \in DOMAIN g.nodes : g.nodes[i].name = Head(g.queue) => i = k + 1
      BY <1>1, <1>2, <1>4 DEF Layered
  <2>2. k + 1 \in DOMAIN g.nodes /\ g.nodes[k + 1].name = Head(g.queue)
      BY <1>2, <1>4
  <2> QED BY <2>1, <2>2 DEF At
<1>6. Queued(g.nodes, Tail(g.queue), k + 1)
  <2>1. k + 1 \in 0..Len(g.nodes) /\ Len(Tail(g.queue)) = Len(g.nodes) - (k + 1)
      BY <1>1, <1>2, <1>3, <1>4 DEF Queued
  <2>2. ASSUME NEW i \in 1..Len(Tail(g.queue)) PROVE Tail(g.queue)[i] = g.nodes[(k + 1) + i].name
    <3>1. i + 1 \in 1..Len(g.queue) /\ k + (i + 1) = (k + 1) + i /\ i \in 1..(Len(g.queue) - 1)
        BY <1>2, <1>3, <1>4
    <3> QED BY <1>1, <1>3, <3>1 DEF Queued
  <2> QED BY <2>1, <2>2 DEF Queued
<1> QED BY <1>3, <1>4, <1>5, <1>6

\* The sites of both directions are taken.
LEMMA VisitKeeps ==
    ASSUME NEW near, NEW input, NEW q, NEW root, Setting(near, input, q, root),
           NEW g, NEW k, Between(g, near, input, q, root, k), g.queue # <<>>, ~g.stopped,
           NEW m, NEW d, m = g.nodes[k + 1].name, d = g.nodes[k + 1].depth
    PROVE  LET t == Visit(input, g, q) IN
           /\ VisitingAt(t, near, input, q, root, k + 1, m, d)
           /\ ToSet(g.edges) \subseteq ToSet(t.edges)
           /\ \A c \in ToSet(Columns(q.direction)) : \A s \in ToSet(Adjacent(input, m, c, q.max_edges + 1)) :
                Settled(t, q, s, d)
<1> DEFINE g0 == [g EXCEPT !.queue = Tail(g.queue)]
           cs == Columns(q.direction)
           sites(c) == Adjacent(input, m, c, q.max_edges + 1)
           one == Along(g0, q, sites(cs[1]), cs[1], d)
           two == Along(one, q, sites(cs[2]), cs[2], d)
           t == Visit(input, g, q)
<1>1. /\ k \in Nat /\ k + 1 \in 1..Len(g.nodes)
      /\ Head(g.queue) = m /\ At(g, Head(g.queue)) = k + 1
      /\ Tail(g.queue) \in Seq(Methodic(input, root)) /\ Queued(g.nodes, Tail(g.queue), k + 1)
    BY HeadIs
<1>2. t = IF Len(cs) = 1 THEN one ELSE two
    BY <1>1 DEF Visit, VisitUpTo
<1>3. /\ WalkOf(g, input, q, root) /\ Ranged(q) /\ Legible(input) /\ q.max_edges + 1 \in Nat
      /\ Halted(g.reasons, g.stopped)
      /\ Layered(g.nodes, root, k) /\ Reached(g.nodes, near)
      /\ Drawn(g.nodes, g.edges, input, q) /\ Budgeted(g.nodes, g.edges, q)
      /\ Labelled(g.nodes, g.edges, input, q, k)
      /\ \A i \in 1..k : Explored(g.nodes, g.edges, g.reasons, input, q, i)
    BY DEF Between, Core, Setting, Ranged
<1>4. /\ g.nodes \in Seq(Nodes(input, q, root)) /\ Len(g.nodes) \in Nat
      /\ \A i \in 1..Len(g.nodes) : g.nodes[i].depth \in 0..q.depth
    BY <1>3, WalkTypes
<1>5. Layered(g.nodes, root, k + 1)
  <2>1. \A i \in 1..Len(g.nodes) : g.nodes[i].depth <= g.nodes[k + 1].depth + 1
    <3> TAKE i \in 1..Len(g.nodes)
    <3>1. g.nodes[i].depth \in Nat /\ g.nodes[k + 1].depth \in Nat
        BY <1>1, <1>4
    <3>2. CASE k = 0
      <4>1. i = k + 1
          BY <1>3, <3>2 DEF Layered
      <4> QED BY <3>1, <4>1
    <3>3. CASE k # 0
      <4>1. k \in 1..Len(g.nodes) /\ k > 0 /\ k <= k + 1
          BY <1>1, <1>4, <3>3
      <4>2. g.nodes[i].depth <= g.nodes[k].depth + 1 /\ g.nodes[k].depth <= g.nodes[k + 1].depth
          BY <1>1, <1>3, <4>1 DEF Layered
      <4>3. g.nodes[k].depth \in Nat
          BY <1>4, <4>1
      <4>4. \A x, y, z \in Nat : x <= y + 1 /\ y <= z => x <= z + 1
          OBVIOUS
      <4> QED BY <3>1, <4>2, <4>3, <4>4
    <3> QED BY <3>2, <3>3
  <2>2. k + 1 # 0
      BY <1>1
  <2> QED BY <1>3, <2>1, <2>2 DEF Layered
<1>6. VisitingAt(g0, near, input, q, root, k + 1, m, d) /\ g0.edges = g.edges
  <2>1. /\ WalkOf(g0, input, q, root) /\ g0.nodes = g.nodes /\ g0.edges = g.edges /\ g0.queue = Tail(g.queue)
        /\ g0.reasons = g.reasons /\ g0.stopped = g.stopped
    <3> DEFINE tail == Tail(g.queue)
    <3>1. tail \in Seq(Methodic(input, root)) /\ g0 = [g EXCEPT !.queue = tail]
        BY <1>1
    <3> HIDE DEF tail, g0
    <3>2. /\ WalkOf(g0, input, q, root) /\ g0.nodes = g.nodes /\ g0.edges = g.edges /\ g0.queue = tail
          /\ g0.reasons = g.reasons /\ g0.stopped = g.stopped
        BY <1>3, <3>1, QueueChanged
    <3> QED BY <3>2 DEF tail
  <2> HIDE DEF g0
  <2>2. k + 1 > 0 /\ k + 1 - 1 = k
      BY <1>1
  <2>3. Visiting(g0, near, input, q, root, k + 1)
      BY <1>1, <1>3, <1>5, <2>1, <2>2 DEF Visiting, Core
  <2> QED BY <1>1, <2>1, <2>3 DEF VisitingAt
<1>7. ASSUME NEW c \in ToSet(cs)
      PROVE  sites(c) \in Seq(CallSites(input)) /\ ToSet(sites(c)) \subseteq Ending(input, c, m)
    BY <1>3, AdjacentSites
<1>8. \A h : VisitingAt(h, near, input, q, root, k + 1, m, d) => Len(h.nodes) \in Nat
    BY <1>3, WalkTypes DEF VisitingAt, Visiting
<1> HIDE DEF g0, cs, sites, t
<1>9. cs[1] \in ToSet(cs)
  <2>1. Len(cs) \in {1, 2} /\ cs[1] \in ToSet(cs)
      BY <1>3, ColumnSets DEF cs
  <2> QED BY <2>1
<1>10. /\ VisitingAt(one, near, input, q, root, k + 1, m, d) /\ Grew(g0, one)
       /\ \A s \in ToSet(sites(cs[1])) : Settled(one, q, s, d)
    BY <1>6, <1>7, <1>9, AlongKeeps DEF cs
<1> HIDE DEF one
<1>11. CASE Len(cs) = 1
  <2>1. t = one /\ ToSet(cs) = {cs[1]}
      BY <1>2, <1>3, <1>11, ColumnSets DEF cs
  <2>2. ToSet(g.edges) \subseteq ToSet(t.edges)
      BY <1>6, <1>10, <2>1 DEF Grew, Grown
  <2> QED BY <1>10, <2>1, <2>2 DEF t, cs, sites
<1>12. CASE Len(cs) # 1
  <2>1. t = two /\ ToSet(cs) = {cs[1], cs[2]} /\ cs[2] \in ToSet(cs)
    <3>1. Len(cs) = 2 /\ cs[1] = "source" /\ cs[2] = "target" /\ ToSet(cs) = {"source", "target"}
        BY <1>3, <1>12, ColumnSets DEF cs
    <3> QED BY <1>2, <1>12, <3>1
  <2>2. /\ VisitingAt(two, near, input, q, root, k + 1, m, d) /\ Grew(one, two)
        /\ \A s \in ToSet(sites(cs[2])) : Settled(two, q, s, d)
      BY <1>7, <1>10, <2>1, AlongKeeps DEF cs
  <2> HIDE DEF two
  <2>3. \A s \in ToSet(sites(cs[1])) : Settled(two, q, s, d)
      BY <1>10, <2>2, StaysSettled
  <2>4. ToSet(g.edges) \subseteq ToSet(two.edges)
      BY <1>6, <1>10, <2>2 DEF Grew, Grown
  <2>5. \A c \in ToSet(cs) : \A s \in ToSet(sites(c)) : Settled(two, q, s, d)
      BY <2>1, <2>2, <2>3
  <2> QED BY <2>1, <2>2, <2>4, <2>5 DEF t, cs, sites
<1> QED BY <1>11, <1>12

\* All the sites at a method are taken, if the ones that were looked at are.
LEMMA AroundTaken ==
    ASSUME NEW input, NEW q, NEW m, NEW edges \in Seq(CallSites(input)), Legible(input), Ranged(q),
           Once(edges), Len(edges) <= q.max_edges,
           \A c \in ToSet(Columns(q.direction)) :
                ToSet(Adjacent(input, m, c, q.max_edges + 1)) \subseteq ToSet(edges)
    PROVE  Around(input, q, m) \subseteq ToSet(edges)
<1>1. \A c \in ToSet(Columns(q.direction)) : Ending(input, c, m) \subseteq ToSet(edges)
    BY AdjacentComplete DEF Ranged
<1> QED BY <1>1 DEF Around, Ending

\* Both ends of a site that is taken are found.
AllTaken(input, q, m, edges) == Around(input, q, m) \subseteq ToSet(edges)

\* If the sites at a method are taken, its neighbours are found.
LEMMA BesideFound ==
    ASSUME NEW input, NEW q, NEW m, NEW nodes, NEW edges, Drawn(nodes, edges, input, q), Ranged(q),
           AllTaken(input, q, m, edges)
    PROVE  \A b \in Beside(input, q, m) : \E j \in 1..Len(nodes) : nodes[j].name = b
<1> TAKE b \in Beside(input, q, m)
<1>1. PICK c \in ToSet(Columns(q.direction)) : \E s \in CallSites(input) : End(s, c) = m /\ b = Other(s, c)
    BY DEF Beside
<1>2. PICK s \in CallSites(input) : End(s, c) = m /\ b = Other(s, c)
    BY <1>1
<1>3. s \in ToSet(edges)
    BY <1>1, <1>2 DEF Around, AllTaken
<1>4. b = s.caller \/ b = s.arg
    BY <1>2 DEF Other
<1> QED BY <1>3, <1>4 DEF Drawn

\* The whole step.
LEMMA ExpandKeeps ==
    ASSUME NEW near, NEW input, NEW q, NEW root, Setting(near, input, q, root),
           NEW g, NEW k, Between(g, near, input, q, root, k), g.queue # <<>>, ~g.stopped
    PROVE  Between(Expand(input, g, q), near, input, q, root, k + 1)
<1> DEFINE m == g.nodes[k + 1].name
           d == g.nodes[k + 1].depth
           a == Visit(input, g, q)
           beyond == \E c \in ToSet(Columns(q.direction)) :
               ~ToSet(Adjacent(input, m, c, q.max_edges + 1)) \subseteq ToSet(g.edges)
           st == IF a.stopped THEN "budget_boundary"
                 ELSE IF d = q.depth /\ beyond THEN "depth_boundary" ELSE "expanded"
           node == [a.nodes[k + 1] EXCEPT !.status = st]
           nodes == [a.nodes EXCEPT ![k + 1] = node]
           t == Expand(input, g, q)
<1>1. /\ k \in Nat /\ k + 1 \in 1..Len(g.nodes)
      /\ Head(g.queue) = m /\ At(g, Head(g.queue)) = k + 1
    BY HeadIs
<1>2. t = [a EXCEPT !.nodes = nodes]
    BY <1>1 DEF Expand
<1>3. /\ VisitingAt(a, near, input, q, root, k + 1, m, d)
      /\ ToSet(g.edges) \subseteq ToSet(a.edges)
      /\ \A c \in ToSet(Columns(q.direction)) : \A s \in ToSet(Adjacent(input, m, c, q.max_edges + 1)) :
            Settled(a, q, s, d)
    BY VisitKeeps
<1> HIDE DEF a, t
<1>4. /\ WalkOf(a, input, q, root) /\ Halted(a.reasons, a.stopped)
      /\ Queued(a.nodes, a.queue, k + 1) /\ Layered(a.nodes, root, k + 1) /\ Reached(a.nodes, near)
      /\ Drawn(a.nodes, a.edges, input, q) /\ Budgeted(a.nodes, a.edges, q)
      /\ Labelled(a.nodes, a.edges, input, q, k)
      /\ \A i \in 1..k : Explored(a.nodes, a.edges, a.reasons, input, q, i)
      /\ k + 1 \in 1..Len(a.nodes) /\ a.nodes[k + 1].name = m /\ a.nodes[k + 1].depth = d
  <2>1. PICK h : h = k + 1
      OBVIOUS
  <2>2. VisitingAt(a, near, input, q, root, h, m, d)
      BY <1>3, <2>1
  <2> HIDE DEF m, d
  <2>3. /\ WalkOf(a, input, q, root) /\ Halted(a.reasons, a.stopped)
        /\ Queued(a.nodes, a.queue, h) /\ Layered(a.nodes, root, h) /\ Reached(a.nodes, near)
        /\ Drawn(a.nodes, a.edges, input, q) /\ Budgeted(a.nodes, a.edges, q)
        /\ Labelled(a.nodes, a.edges, input, q, h - 1)
        /\ \A i \in 1..(h - 1) : Explored(a.nodes, a.edges, a.reasons, input, q, i)
        /\ h \in 1..Len(a.nodes) /\ a.nodes[h].name = m /\ a.nodes[h].depth = d
      BY <2>2 DEF VisitingAt, Visiting, Core
  <2>4. h - 1 = k
      BY <1>1, <2>1
  <2> QED BY <2>1, <2>3, <2>4
<1>5. Ranged(q) /\ Legible(input)
    BY DEF Setting
<1>6. /\ a.nodes \in Seq(Nodes(input, q, root)) /\ Len(a.nodes) \in Nat
      /\ a.edges \in Seq(CallSites(input)) /\ Len(a.queue) \in Nat /\ a.stopped \in BOOLEAN
      /\ \A i \in 1..Len(a.nodes) : a.nodes[i].depth \in 0..q.depth
      /\ a.nodes[k + 1] \in Nodes(input, q, root)
    BY <1>4, <1>5, WalkTypes
<1>7. st \in {"expanded", "depth_boundary", "budget_boundary"}
    OBVIOUS
<1>8. node \in Nodes(input, q, root) /\ node.name = m /\ node.depth = d /\ node.status = st
  <2> HIDE DEF st
  <2> QED BY <1>4, <1>6, <1>7 DEF Nodes
<1> HIDE DEF node
<1>9. /\ nodes \in Seq(Nodes(input, q, root)) /\ Len(nodes) = Len(a.nodes)
      /\ nodes[k + 1] = node /\ \A i \in 1..Len(a.nodes) : i # k + 1 => nodes[i] = a.nodes[i]
  <2> DEFINE N == Nodes(input, q, root)
             ns == a.nodes
  <2>1. ns \in Seq(N) /\ node \in N /\ k + 1 \in 1..Len(ns)
      BY <1>4, <1>6, <1>8
  <2> HIDE DEF N, ns
  <2>2. /\ [ns EXCEPT ![k + 1] = node] \in Seq(N) /\ Len([ns EXCEPT ![k + 1] = node]) = Len(ns)
        /\ [ns EXCEPT ![k + 1] = node][k + 1] = node
        /\ \A i \in 1..Len(ns) : i # k + 1 => [ns EXCEPT ![k + 1] = node][i] = ns[i]
      BY <2>1, ExceptSeq
  <2> QED BY <2>2 DEF N, ns
<1> HIDE DEF nodes
<1>10. /\ WalkOf(t, input, q, root) /\ t.nodes = nodes /\ t.edges = a.edges /\ t.queue = a.queue
       /\ t.reasons = a.reasons /\ t.stopped = a.stopped
  <2>1. WalkOf(a, input, q, root) /\ a.queue \in Seq(Methodic(input, root))
      BY <1>4, <1>5, WalkTypes
  <2> QED BY <1>2, <1>9, <2>1, NodesChanged
<1>11. Alike(a.nodes, nodes)
    BY <1>4, <1>8, <1>9 DEF Alike
<1>12. k + 1 \in 0..Len(a.nodes)
    BY <1>1, <1>4
<1>13. Core(t.nodes, t.edges, t.queue, near, input, q, root, k + 1)
    BY <1>4, <1>6, <1>10, <1>11, <1>12, AlikeKeeps, ZenonT(60) DEF Core
<1>14. \A i \in 1..k : Explored(t.nodes, t.edges, t.reasons, input, q, i)
  <2> TAKE i \in 1..k
  <2>1. i \in 1..Len(a.nodes)
      BY <1>1, <1>4, <1>6
  <2> QED BY <1>4, <1>6, <1>10, <1>11, <1>12, <2>1, AlikeKeeps
<1>15. Once(a.edges) /\ Len(a.edges) <= q.max_edges
    BY <1>4 DEF Drawn, Budgeted
<1>16. ~a.stopped /\ d < q.depth => Around(input, q, m) \subseteq ToSet(a.edges)
  <2> HAVE ~a.stopped /\ d < q.depth
  <2>1. d # q.depth
      BY <1>4, <1>5, <1>6 DEF Ranged
  <2>2. \A c \in ToSet(Columns(q.direction)) :
            ToSet(Adjacent(input, m, c, q.max_edges + 1)) \subseteq ToSet(a.edges)
      BY <1>3, <2>1 DEF Settled
  <2> QED BY <1>5, <1>6, <1>15, <2>2, AroundTaken
<1>17. Explored(t.nodes, t.edges, t.reasons, input, q, k + 1) \/ t.stopped
  <2> SUFFICES ASSUME ~a.stopped PROVE Explored(t.nodes, t.edges, t.reasons, input, q, k + 1)
      BY <1>10
  <2>1. t.nodes[k + 1].name = m /\ t.nodes[k + 1].depth = d
      BY <1>8, <1>9, <1>10
  <2>2. ASSUME d < q.depth, NEW b \in Beside(input, q, m)
        PROVE  \E j \in 1..Len(t.nodes) : t.nodes[j].name = b /\ t.nodes[j].depth <= d + 1
    <3>1. Drawn(t.nodes, t.edges, input, q) /\ Around(input, q, m) \subseteq ToSet(t.edges)
        BY <1>10, <1>13, <1>16, <2>2 DEF Core
    <3>2. PICK j \in 1..Len(t.nodes) : t.nodes[j].name = b
      <4> HIDE DEF m, d, st, beyond
      <4>1. Ranged(q) /\ Drawn(t.nodes, t.edges, input, q) /\ AllTaken(input, q, m, t.edges)
          BY <1>5, <3>1 DEF AllTaken
      <4>2. \A x \in Beside(input, q, m) : \E j \in 1..Len(t.nodes) : t.nodes[j].name = x
          BY <4>1, BesideFound
      <4> QED BY <2>2, <4>2
    <3>3. k + 1 > 0
        BY <1>1
    <3>4. t.nodes[j].depth <= t.nodes[k + 1].depth + 1
        BY <1>13, <3>3 DEF Core, Layered
    <3> QED BY <2>1, <3>2, <3>4
  <2>3. ASSUME d = q.depth PROVE Around(input, q, m) \subseteq ToSet(a.edges) \/ "depth" \in a.reasons
    <3>1. CASE "depth" \in a.reasons
        BY <3>1
    <3>2. CASE "depth" \notin a.reasons
      <4>1. \A c \in ToSet(Columns(q.direction)) :
                ToSet(Adjacent(input, m, c, q.max_edges + 1)) \subseteq ToSet(a.edges)
          BY <1>3, <3>2 DEF Settled
      <4> QED BY <1>5, <1>6, <1>15, <4>1, AroundTaken
    <3> QED BY <3>1, <3>2
  <2> QED BY <1>10, <1>16, <2>1, <2>2, <2>3 DEF Explored
<1>18. st = "expanded" => Around(input, q, m) \subseteq ToSet(a.edges)
  <2> HAVE st = "expanded"
  <2>1. ~a.stopped /\ ~(d = q.depth /\ beyond)
      OBVIOUS
  <2>2. CASE d = q.depth
    <3>1. \A c \in ToSet(Columns(q.direction)) :
              ToSet(Adjacent(input, m, c, q.max_edges + 1)) \subseteq ToSet(a.edges)
        BY <1>3, <2>1, <2>2
    <3> QED BY <1>5, <1>6, <1>15, <3>1, AroundTaken
  <2>3. CASE d # q.depth
    <3>1. d < q.depth
        BY <1>4, <1>5, <1>6, <2>3 DEF Ranged
    <3> QED BY <1>16, <2>1, <3>1
  <2> QED BY <2>2, <2>3
<1> HIDE DEF st
<1>19. Labelled(t.nodes, t.edges, input, q, k + 1)
  <2> SUFFICES ASSUME NEW i \in 1..Len(nodes)
               PROVE  /\ nodes[i].status = "not_expanded" <=> i > k + 1
                      /\ nodes[i].status = "expanded" => Around(input, q, nodes[i].name) \subseteq ToSet(a.edges)
      BY <1>10 DEF Labelled
  <2>1. CASE i = k + 1
    <3>1. nodes[i].status = st /\ nodes[i].name = m /\ ~(i > k + 1)
        BY <1>1, <1>8, <1>9, <2>1
    <3> QED BY <1>7, <1>18, <3>1
  <2>2. CASE i # k + 1
    <3>1. /\ a.nodes[i].status = "not_expanded" <=> i > k
          /\ a.nodes[i].status = "expanded" => Around(input, q, a.nodes[i].name) \subseteq ToSet(a.edges)
        BY <1>4, <1>9 DEF Labelled
    <3>2. nodes[i] = a.nodes[i] /\ (i > k <=> i > k + 1)
        BY <1>1, <1>6, <1>9, <2>2
    <3> QED BY <3>1, <3>2
  <2> QED BY <2>1, <2>2
<1>20. \A i \in 1..(k + 1) : i \in 1..k \/ i = k + 1
    BY <1>1
<1> QED BY <1>4, <1>10, <1>13, <1>14, <1>17, <1>19, <1>20 DEF Between, t

\* The sites without a target are sites of the program.
LEMMA UnresolvedListed ==
    ASSUME NEW input, Legible(input), NEW g, NEW E, g.nodes \in Seq(E)
    PROVE  Unresolved(input, g) \in Seq(ToSet(Sites(input)))
<1> DEFINE sites == Sites(input)
           of(name) == {s \in ToSet(sites) : s.op \in DynamicOps /\ s.caller = name}
           lists == [i \in DOMAIN g.nodes |-> First(Only(sites, of(g.nodes[i].name)), SiteRoom)]
           F == ToSet(sites)
<1>1. sites \in Seq(F) /\ Once(sites) /\ SiteRoom \in Nat
    BY OnceCounted, GraphAssumption DEF Legible, GraphAssumption
<1>2. Unresolved(input, g) = FlattenSeq(lists)
    BY DEF Unresolved
<1>3. Len(g.nodes) \in Nat /\ DOMAIN g.nodes = 1..Len(g.nodes)
    BY Elements
<1> HIDE DEF sites, F, of
<1>4. \A i \in DOMAIN g.nodes : First(Only(sites, of(g.nodes[i].name)), SiteRoom) \in Seq(F)
  <2> TAKE i \in DOMAIN g.nodes
  <2>1. Only(sites, of(g.nodes[i].name)) \in Seq(F)
      BY <1>1, OnlyKeeps
  <2> QED BY <1>1, <2>1, FirstKeeps
<1>5. lists \in [1..Len(g.nodes) -> Seq(F)]
    BY <1>3, <1>4
<1> HIDE DEF lists
<1>6. lists \in Seq(Seq(F))
    BY <1>3, <1>5, SeqDef
<1> QED BY <1>2, <1>6, Flattened DEF F, sites

\* One site is listed while there is room.
Recorded(source, nodes, edges, sites, queue, reasons, frontier, stopped) ==
    [source |-> source, nodes |-> nodes, edges |-> edges, sites |-> sites, queue |-> queue,
     reasons |-> reasons, frontier |-> frontier, stopped |-> stopped, ended |-> FALSE]

Roomy(nodes, edges, sites) == Len(nodes) + Len(edges) + Len(sites) <= GraphRoom

Listing(t, E, source, nodes, edges, queue, reasons, frontier, stopped) ==
    \E list \in Seq(E), rs \in {reasons, reasons \cup {"output_bytes"}} :
        /\ Roomy(nodes, edges, list)
        /\ t = Recorded(source, nodes, edges, list, queue, rs, frontier, stopped)

\* Note lists a site while there is room, and says so when there is none.
LEMMA NoteShape ==
    ASSUME NEW E, NEW source, NEW nodes, NEW edges, NEW queue, NEW reasons, NEW frontier, NEW stopped,
           NEW sites \in Seq(E), NEW site \in E, NEW g,
           g = Recorded(source, nodes, edges, sites, queue, reasons, frontier, stopped),
           Len(nodes) \in Nat, Len(edges) \in Nat, Roomy(nodes, edges, sites)
    PROVE  Listing(Note(g, site), E, source, nodes, edges, queue, reasons, frontier, stopped)
<1> DEFINE more == [g EXCEPT !.reasons = @ \cup {"output_bytes"}]
           listed == [g EXCEPT !.sites = Append(@, site)]
           t == Note(g, site)
<1>1. t = IF "output_bytes" \in g.reasons \/ Len(g.sites) >= SiteRoom THEN g
          ELSE IF Used(g) + 1 > GraphRoom THEN more ELSE listed
    BY DEF Note
<1>2. ASSUME NEW x, x = more
      PROVE  x = Recorded(source, nodes, edges, sites, queue, reasons \cup {"output_bytes"}, frontier, stopped)
    BY <1>2 DEF Recorded
<1>3. ASSUME NEW x, x = listed
      PROVE  x = Recorded(source, nodes, edges, Append(sites, site), queue, reasons, frontier, stopped)
    BY <1>3 DEF Recorded
<1>4. /\ Append(sites, site) \in Seq(E) /\ Len(Append(sites, site)) = Len(sites) + 1 /\ Len(sites) \in Nat
    BY Appended, Elements
<1>5. Used(g) = Len(nodes) + Len(edges) + Len(sites)
    BY DEF Used, Recorded
<1>6. ~(Used(g) + 1 > GraphRoom) => Roomy(nodes, edges, Append(sites, site))
  <2>1. \A a, b, c, r \in Nat : ~((a + b + c) + 1 > r) => a + b + (c + 1) <= r
      OBVIOUS
  <2>2. GraphRoom \in Nat
      BY GraphAssumption DEF GraphAssumption
  <2> QED BY <1>4, <1>5, <2>1, <2>2 DEF Roomy
<1> HIDE DEF t, more, listed
<1>7. CASE t = g
    BY <1>7 DEF t, Listing
<1>8. CASE t = more
    BY <1>2, <1>8 DEF t, Listing
<1>9. CASE t = listed /\ ~(Used(g) + 1 > GraphRoom)
    BY <1>3, <1>4, <1>6, <1>9 DEF t, Listing
<1> QED BY <1>1, <1>7, <1>8, <1>9

\* All of them: the methods and the sites taken stay, the room is kept.
LEMMA DiagnoseKeeps ==
    ASSUME NEW near, NEW input, NEW q, NEW root, Setting(near, input, q, root),
           NEW g, NEW k, Between(g, near, input, q, root, k)
    PROVE  LET t == Diagnose(input, g) IN
           /\ t.ended /\ t.nodes = g.nodes /\ t.edges = g.edges /\ t.queue = g.queue
           /\ Used(t) <= GraphRoom
           /\ t.reasons \in {g.reasons, g.reasons \cup {"output_bytes"}}
<1>1. WalkOf(g, input, q, root) /\ Ranged(q) /\ Legible(input) /\ Budgeted(g.nodes, g.edges, q)
    BY DEF Between, Core, Setting
<1>2. PICK source, frontier :
        \E nodes \in Seq(Nodes(input, q, root)), edges \in Seq(CallSites(input)),
           queue \in Seq(Methodic(input, root)), reasons \in SUBSET Reasons, stopped \in BOOLEAN :
            g = [source |-> source, nodes |-> nodes, edges |-> edges, sites |-> <<>>, queue |-> queue,
                 reasons |-> reasons, frontier |-> frontier, stopped |-> stopped, ended |-> FALSE]
    BY <1>1, WalkParts
<1>3. PICK nodes \in Seq(Nodes(input, q, root)), edges \in Seq(CallSites(input)),
           queue \in Seq(Methodic(input, root)), reasons \in SUBSET Reasons, stopped \in BOOLEAN :
            g = [source |-> source, nodes |-> nodes, edges |-> edges, sites |-> <<>>, queue |-> queue,
                 reasons |-> reasons, frontier |-> frontier, stopped |-> stopped, ended |-> FALSE]
    BY <1>2
<1> DEFINE sites == Unresolved(input, g)
           n == Len(sites)
           E == ToSet(Sites(input))
           Rec(list, rs) == Recorded(source, nodes, edges, list, queue, rs, frontier, stopped)
           Fits(list) == Roomy(nodes, edges, list)
           RS == {reasons, reasons \cup {"output_bytes"}}
           T == {Rec(p[1], p[2]) : p \in {u \in Seq(E) \X RS : Fits(u[1])}}
           step == [p \in (1..n) \X T |-> Note(p[2], sites[p[1]])]
<1>4. /\ g.nodes = nodes /\ g.edges = edges /\ g.queue = queue /\ g.reasons = reasons
      /\ Len(nodes) \in Nat /\ Len(edges) \in Nat /\ Len(nodes) + Len(edges) <= GraphRoom
  <2>1. g.nodes = nodes /\ g.edges = edges /\ g.queue = queue /\ g.reasons = reasons
      BY <1>3
  <2>2. Len(nodes) \in Nat /\ Len(edges) \in Nat
      BY Elements
  <2> QED BY <1>1, <2>1, <2>2 DEF Budgeted
<1>5. sites \in Seq(E) /\ n \in Nat /\ \A j \in 1..n : sites[j] \in E
  <2>1. sites \in Seq(E)
      BY <1>1, <1>4, UnresolvedListed
  <2> HIDE DEF sites, E
  <2> QED BY <2>1, Elements
<1> HIDE DEF sites, E, n
<1>6. \A x : x \in T <=> \E list \in Seq(E), rs \in RS : Fits(list) /\ x = Rec(list, rs)
  <2> HIDE DEF Rec, Fits, RS
  <2>1. ASSUME NEW x \in T PROVE \E list \in Seq(E), rs \in RS : Fits(list) /\ x = Rec(list, rs)
      OBVIOUS
  <2>2. ASSUME NEW list \in Seq(E), NEW rs \in RS, Fits(list) PROVE Rec(list, rs) \in T
    <3>1. <<list, rs>> \in {u \in Seq(E) \X RS : Fits(u[1])}
        BY <2>2
    <3> QED BY <3>1, SMTT(30)
  <2> HIDE DEF T
  <2> QED BY <2>1, <2>2
<1>7. g \in T
  <2>1. <<>> \in Seq(E) /\ Fits(<<>>) /\ reasons \in RS
      BY <1>4 DEF Roomy
  <2>2. g = Rec(<<>>, reasons)
      BY <1>3 DEF Recorded
  <2> HIDE DEF T, Rec, Fits, RS
  <2> QED BY <1>6, <2>1, <2>2
<1>8. ASSUME NEW j \in 1..n, NEW h \in T PROVE Note(h, sites[j]) \in T
  <2>1. PICK list \in Seq(E), rs \in RS : Fits(list) /\ h = Rec(list, rs)
    <3> HIDE DEF T, Rec, Fits, RS
    <3> QED BY <1>6
  <2>2. sites[j] \in E
      BY <1>5
  <2>3. \E list2 \in Seq(E), rs2 \in {rs, rs \cup {"output_bytes"}} :
            Fits(list2) /\ Note(h, sites[j]) = Rec(list2, rs2)
    <3>1. h = Recorded(source, nodes, edges, list, queue, rs, frontier, stopped) /\ Roomy(nodes, edges, list)
        BY <2>1
    <3>2. PICK site \in E : site = sites[j]
        BY <2>2
    <3> HIDE DEF T
    <3>3. Listing(Note(h, site), E, source, nodes, edges, queue, rs, frontier, stopped)
      <4> HIDE DEF Rec, Fits, RS
      <4> QED BY <1>4, <3>1, NoteShape
    <3> QED BY <3>2, <3>3 DEF Listing
  <2>4. {rs, rs \cup {"output_bytes"}} \subseteq RS
      BY <2>1
  <2> HIDE DEF T, Rec, Fits, RS
  <2> QED BY <1>6, <2>3, <2>4
<1>9. \A x \in T : /\ x.nodes = nodes /\ x.edges = edges /\ Used(x) <= GraphRoom /\ x.reasons \in RS
                    /\ \E list \in Seq(E), rs \in RS : x = Rec(list, rs)
  <2> TAKE x \in T
  <2>1. PICK list \in Seq(E), rs \in RS : Fits(list) /\ x = Rec(list, rs)
    <3> HIDE DEF T, Rec, Fits, RS
    <3> QED BY <1>6
  <2>2. x.nodes = nodes /\ x.edges = edges /\ x.sites = list /\ x.reasons = rs
    <3> HIDE DEF T
    <3> QED BY <2>1 DEF Recorded
  <2>3. Used(x) <= GraphRoom
      BY <2>1, <2>2 DEF Used, Roomy
  <2> HIDE DEF T, Rec, Fits, RS
  <2> QED BY <2>1, <2>2, <2>3
<1> HIDE DEF T
<1>10. step \in [(1..n) \X T -> T]
  <2>1. \A p \in (1..n) \X T : Note(p[2], sites[p[1]]) \in T
      BY <1>8
  <2> QED BY <2>1
<1>11. PICK f : Computes(f, T, g, n, step)
  <2>1. Recursive(T, g, n, step)
    <3> HIDE DEF step
    <3> QED BY <1>5, <1>7, <1>10 DEF Recursive
  <2> HIDE DEF step
  <2> QED BY <2>1, Recursion
<1>12. /\ f \in [0..n -> T] /\ f[0] = g
       /\ \A j \in 1..n : f[j] = Note(f[j - 1], sites[j])
  <2>1. f \in [0..n -> T] /\ f[0] = g /\ \A j \in 1..n : f[j] = step[<<j, f[j - 1]>>]
    <3> HIDE DEF step
    <3> QED BY <1>11 DEF Computes
  <2>2. ASSUME NEW j \in 1..n PROVE f[j] = Note(f[j - 1], sites[j])
    <3>1. j - 1 \in 0..n
        BY <1>5
    <3>2. f[j - 1] \in T
        BY <2>1, <3>1
    <3>3. step[<<j, f[j - 1]>>] = Note(f[j - 1], sites[j])
      <4>1. <<j, f[j - 1]>> \in (1..n) \X T
          BY <3>2
      <4> QED BY <4>1
    <3> HIDE DEF step
    <3> QED BY <2>1, <3>3
  <2> HIDE DEF step
  <2> QED BY <2>1, <2>2
<1> DEFINE Done(h) == h = [j \in 0..n |-> IF j = 0 THEN g ELSE Note(h[j - 1], sites[j])]
<1>13. Done(f)
  <2>1. \A j \in 0..n : f[j] = IF j = 0 THEN g ELSE Note(f[j - 1], sites[j])
    <3> TAKE j \in 0..n
    <3>1. CASE j = 0
        BY <1>12, <3>1
    <3>2. CASE j # 0
      <4>1. j \in 1..n
          BY <1>5, <3>2
      <4> QED BY <1>12, <3>2, <4>1
    <3> QED BY <3>1, <3>2
  <2>2. f = [j \in 0..n |-> f[j]]
      BY <1>12
  <2> QED BY <2>1, <2>2
<1> DEFINE noted == CHOOSE h : Done(h)
<1>14. Done(noted)
  <2> HIDE DEF Done
  <2> QED BY <1>13
<1>15. Diagnose(input, g) = [noted[n] EXCEPT !.ended = TRUE]
    BY DEF Diagnose, n, sites
<1> HIDE DEF noted
<1>16. noted[0] = g /\ \A j \in 1..n : noted[j] = Note(noted[j - 1], sites[j])
  <2>1. \A j \in 0..n : noted[j] = IF j = 0 THEN g ELSE Note(noted[j - 1], sites[j])
      BY <1>14
  <2>2. 0 \in 0..n /\ \A j \in 1..n : j \in 0..n /\ j # 0
      BY <1>5
  <2> QED BY <2>1, <2>2
<1> DEFINE G == {j \in 0..n : noted[j] \in T}
<1>17. 0 \in G
    BY <1>5, <1>7, <1>16
<1>18. \A j \in 0..(n - 1) : j \in G => j + 1 \in G
  <2> TAKE j \in 0..(n - 1)
  <2> HAVE j \in G
  <2>1. j \in Nat /\ j + 1 \in 1..n /\ j + 1 - 1 = j /\ noted[j] \in T
      BY <1>5
  <2>2. noted[j + 1] = Note(noted[j], sites[j + 1])
      BY <1>16, <2>1
  <2> QED BY <1>8, <2>1, <2>2
<1>19. noted[n] \in T
  <2>1. 0..n \subseteq G
    <3> HIDE DEF G
    <3> QED BY <1>5, <1>17, <1>18, UpTo
  <2>2. n \in 0..n
      BY <1>5
  <2> QED BY <2>1, <2>2
<1> DEFINE t == Diagnose(input, g)
<1>20. PICK list \in Seq(E), rs \in RS : noted[n] = Rec(list, rs)
  <2> HIDE DEF Rec, RS
  <2> QED BY <1>9, <1>19
<1>21. t = [source |-> source, nodes |-> nodes, edges |-> edges, sites |-> list, queue |-> queue,
            reasons |-> rs, frontier |-> frontier, stopped |-> stopped, ended |-> TRUE]
  <2>1. PICK h : h = noted[n]
      OBVIOUS
  <2>2. t = [h EXCEPT !.ended = TRUE] /\ h = Rec(list, rs)
      BY <1>15, <1>20, <2>1
  <2> HIDE DEF t
  <2> QED BY <2>2 DEF Recorded
<1>22. Used(t) <= GraphRoom
  <2>1. Used(noted[n]) <= GraphRoom
      BY <1>9, <1>19
  <2>2. Used(noted[n]) = Len(nodes) + Len(edges) + Len(list)
      BY <1>20 DEF Used, Recorded
  <2>3. Used(t) = Len(nodes) + Len(edges) + Len(list)
    <3> HIDE DEF t
    <3> QED BY <1>21 DEF Used
  <2> QED BY <2>1, <2>2, <2>3
<1> HIDE DEF t
<1> QED BY <1>4, <1>21, <1>22 DEF t

-----------------------------------------------------------------------------
(***************************************************************************)
(* The start of a walk, and its end.                                       *)
(***************************************************************************)

\* Four parts of a walk change.
LEMMA Altered ==
    ASSUME NEW s0, NEW n0, NEW e, NEW si, NEW q0, NEW r, NEW f0, NEW st, NEW en,
           NEW s1, NEW n1, NEW q1, NEW f1, NEW x, NEW y,
           y = [source |-> s0, nodes |-> n0, edges |-> e, sites |-> si, queue |-> q0,
                reasons |-> r, frontier |-> f0, stopped |-> st, ended |-> en],
           x = [y EXCEPT !.source = s1, !.nodes = n1, !.queue = q1, !.frontier = f1]
    PROVE  x = [source |-> s1, nodes |-> n1, edges |-> e, sites |-> si, queue |-> q1,
                reasons |-> r, frontier |-> f1, stopped |-> st, ended |-> en]
    OBVIOUS

\* A walk starts at its root.
LEMMA StartKeeps ==
    ASSUME NEW near, NEW input, NEW q, NEW root, Setting(near, input, q, root),
           NEW source, NEW frontier
    PROVE  Between(Start(root, source, frontier), near, input, q, root, 0)
<1> DEFINE node == Node(root, 0)
           nodes == <<node>>
           edges == <<>>
           queue == <<root>>
           reasons == {}
           t == [source |-> source, nodes |-> nodes, edges |-> edges, sites |-> <<>>, queue |-> queue,
                 reasons |-> reasons, frontier |-> frontier, stopped |-> FALSE, ended |-> FALSE]
<1>1. /\ q.depth \in Nat \ {0} /\ q.max_nodes \in Nat \ {0} /\ q.max_edges \in Nat \ {0}
      /\ near[0] = {root} /\ GraphRoom \in Nat \ {0}
    BY GraphAssumption DEF Setting, Ranged, Distances, GraphAssumption
<1>2. Start(root, source, frontier) = t
  <2>1. PICK y : y = NoGraph
      OBVIOUS
  <2>2. PICK x : x = Start(root, source, frontier)
      OBVIOUS
  <2>3. x = [y EXCEPT !.source = source, !.nodes = nodes, !.queue = queue, !.frontier = frontier]
      BY <2>1, <2>2 DEF Start
  <2>4. y = [source |-> None, nodes |-> <<>>, edges |-> edges, sites |-> <<>>, queue |-> <<>>,
             reasons |-> reasons, frontier |-> {}, stopped |-> FALSE, ended |-> FALSE]
      BY <2>1 DEF NoGraph
  <2> HIDE DEF nodes, queue, edges, reasons
  <2>5. x = t
      BY <2>3, <2>4, Altered
  <2> QED BY <2>2, <2>5
<1>4. root \in Methodic(input, root)
    BY DEF Methodic
<1>5. node \in Nodes(input, q, root) /\ node.name = root /\ node.depth = 0 /\ node.status = "not_expanded"
    BY <1>1, <1>4 DEF Node, Nodes
<1> HIDE DEF node
<1>6. /\ nodes \in Seq(Nodes(input, q, root)) /\ Len(nodes) = 1 /\ nodes[1] = node
      /\ queue \in Seq(Methodic(input, root)) /\ Len(queue) = 1 /\ queue[1] = root
      /\ edges \in Seq(CallSites(input)) /\ Len(edges) = 0 /\ ToSet(edges) = {} /\ Once(edges)
    BY <1>4, <1>5 DEF ToSet, Once
<1>7. t.nodes = nodes /\ t.edges = edges /\ t.queue = queue /\ t.reasons = reasons /\ ~t.stopped
    OBVIOUS
<1>8. WalkOf(t, input, q, root)
  <2> HIDE DEF nodes, edges, queue
  <2>1. reasons \in SUBSET Reasons
      OBVIOUS
  <2> HIDE DEF reasons
  <2> QED BY <1>6, <2>1, WalkMade
<1> HIDE DEF nodes, edges, queue
<1>10. Queued(nodes, queue, 0)
    BY <1>5, <1>6 DEF Queued
<1>11. Layered(nodes, root, 0)
    BY <1>5, <1>6 DEF Layered
<1>12. Reached(nodes, near)
    BY <1>1, <1>5, <1>6 DEF Reached
<1>13. Drawn(nodes, edges, input, q)
    BY <1>6 DEF Drawn
<1>14. Budgeted(nodes, edges, q)
    BY <1>1, <1>6 DEF Budgeted
<1>15. Labelled(nodes, edges, input, q, 0)
    BY <1>5, <1>6 DEF Labelled
<1> HIDE DEF t, reasons
<1>16. t.stopped = FALSE
    BY <1>7, <1>8 DEF WalkOf
<1>17. Halted(t.reasons, t.stopped)
    BY <1>7, <1>16 DEF Halted, reasons
<1>18. Core(t.nodes, t.edges, t.queue, near, input, q, root, 0)
    BY <1>7, <1>10, <1>11, <1>12, <1>13, <1>14 DEF Core
<1>19. Labelled(t.nodes, t.edges, input, q, 0)
    BY <1>7, <1>15
<1>20. 1..0 = {}
    OBVIOUS
<1>21. Between(t, near, input, q, root, 0)
    BY <1>8, <1>17, <1>18, <1>19, <1>20 DEF Between
<1> QED BY <1>2, <1>21

\* The frontier is no part of what holds.
LEMMA FrontierKeeps ==
    ASSUME NEW near, NEW input, NEW q, NEW root, NEW g, NEW k, Between(g, near, input, q, root, k),
           NEW other, NEW t, t = [g EXCEPT !.frontier = other]
    PROVE  Between(t, near, input, q, root, k) /\ t.queue = g.queue /\ t.stopped = g.stopped
<1>1. WalkOf(g, input, q, root)
    BY DEF Between
<1>2. /\ WalkOf(t, input, q, root) /\ t.nodes = g.nodes /\ t.edges = g.edges /\ t.queue = g.queue
      /\ t.reasons = g.reasons /\ t.stopped = g.stopped
    BY <1>1, FrontierChanged
<1> QED BY <1>2 DEF Between

\* What an answer says is true.
Told(nodes, edges, reasons, near, input, q) ==
    /\ \A i \in 1..Len(nodes) :
        /\ nodes[i].name \in near[nodes[i].depth]
        /\ nodes[i].depth > 0 => nodes[i].name \notin near[nodes[i].depth - 1]
        /\ nodes[i].status = "expanded" => Around(input, q, nodes[i].name) \subseteq ToSet(edges)
        /\ nodes[i].status = "not_expanded" => ~(reasons \subseteq {"depth"})
    /\ Once(edges)
    /\ \A s \in ToSet(edges) :
        /\ \E i \in 1..Len(nodes) : nodes[i].name = s.caller
        /\ \E i \in 1..Len(nodes) : nodes[i].name = s.arg
    /\ Len(nodes) <= q.max_nodes /\ Len(edges) <= q.max_edges
    /\ reasons \subseteq {"depth"} =>
        /\ {nodes[i].name : i \in 1..Len(nodes)} = near[q.depth]
        /\ ToSet(edges) = UNION {Around(input, q, m) : m \in near[q.depth - 1]}
    /\ reasons = {} => \A i \in 1..Len(nodes) : Around(input, q, nodes[i].name) \subseteq ToSet(edges)

\* When the queue is empty or a budget stops the walk, what the answer says is true:
\* with no reason but "depth", every method nearer than the depth has been looked at.
LEMMA EndTold ==
    ASSUME NEW near, NEW input, NEW q, NEW root, Setting(near, input, q, root),
           NEW g, NEW k, Between(g, near, input, q, root, k), g.queue = <<>> \/ g.stopped,
           NEW reasons, reasons \in {g.reasons, g.reasons \cup {"output_bytes"}}
    PROVE  Told(g.nodes, g.edges, reasons, near, input, q)
<1>1. PICK nodes : nodes = g.nodes
    OBVIOUS
<1>2. PICK edges : edges = g.edges
    OBVIOUS
<1> DEFINE N == Len(nodes)
           D == q.depth
           complete == reasons \subseteq {"depth"}
<1>3. /\ nodes \in Seq(Nodes(input, q, root)) /\ N \in Nat /\ D \in Nat \ {0}
      /\ Queued(nodes, g.queue, k) /\ Layered(nodes, root, k) /\ Reached(nodes, near)
      /\ Drawn(nodes, edges, input, q) /\ Budgeted(nodes, edges, q)
      /\ Labelled(nodes, edges, input, q, k) /\ Halted(g.reasons, g.stopped) /\ g.stopped \in BOOLEAN
  <2>1. nodes \in Seq(Nodes(input, q, root)) /\ g.stopped \in BOOLEAN
      BY <1>1 DEF Between, WalkOf
  <2>2. N \in Nat
      BY <2>1, Elements
  <2> QED BY <1>1, <1>2, <2>1, <2>2 DEF Between, Core, Setting, Ranged
<1>4. \A i \in 1..N : nodes[i].depth \in 0..D
  <2>1. \A i \in 1..N : nodes[i] \in Nodes(input, q, root)
      BY <1>3, Elements
  <2> QED BY <2>1 DEF Nodes
<1>5. complete => ~g.stopped /\ reasons = g.reasons
    BY <1>3 DEF Halted
<1>6. ~g.stopped => k = N /\ \A i \in 1..N : Explored(nodes, edges, g.reasons, input, q, i)
  <2>1. ASSUME ~g.stopped PROVE k = N
    <3>1. g.queue = <<>>
        BY <2>1
    <3>2. Len(g.queue) = 0 /\ Len(g.queue) = N - k /\ k \in 0..N
        BY <1>3, <3>1 DEF Queued
    <3> QED BY <1>3, <3>2
  <2>2. ~g.stopped => \A i \in 1..k : Explored(nodes, edges, g.reasons, input, q, i)
      BY <1>1, <1>2 DEF Between
  <2> QED BY <2>1, <2>2
<1>7. \A i \in 1..N : nodes[i].status = "not_expanded" => ~complete
  <2> TAKE i \in 1..N
  <2> HAVE nodes[i].status = "not_expanded"
  <2>1. i > k
      BY <1>3 DEF Labelled
  <2>2. g.stopped
      BY <1>3, <1>6, <2>1
  <2> QED BY <1>5, <2>2
<1>8. ASSUME complete
      PROVE  /\ {nodes[i].name : i \in 1..N} = near[D]
             /\ ToSet(edges) = UNION {Around(input, q, m) : m \in near[D - 1]}
  <2>1. ~g.stopped /\ \A i \in 1..N : Explored(nodes, edges, g.reasons, input, q, i)
      BY <1>5, <1>6, <1>8
  <2>2. \A j \in 0..D : \A m \in near[j] : \E i \in 1..N : nodes[i].name = m /\ nodes[i].depth <= j
    <3>1. D \in 0..q.depth /\ k \in Nat
        BY <1>3 DEF Queued
    <3> QED BY <1>3, <2>1, <3>1, NearFound, ZenonT(60)
  <2>3. D \in 0..D /\ D - 1 \in 0..D /\ D - 1 \in Nat
      BY <1>3
  <2>4. \A i \in 1..N : nodes[i].name \in near[nodes[i].depth]
      BY <1>3 DEF Reached
  <2>5. \A i \in 1..N : nodes[i].name \in near[D]
    <3> TAKE i \in 1..N
    <3>1. nodes[i].depth \in 0..q.depth /\ D \in nodes[i].depth..q.depth
        BY <1>3, <1>4
    <3>2. near[nodes[i].depth] \subseteq near[D]
        BY <3>1, NearGrows
    <3> QED BY <2>4, <3>2
  <2>6. near[D] \subseteq {nodes[i].name : i \in 1..N}
      BY <2>2, <2>3
  <2>7. ASSUME NEW s \in ToSet(edges) PROVE \E m \in near[D - 1] : s \in Around(input, q, m)
    <3>1. PICK i \in 1..N : nodes[i].depth < D /\ s \in Around(input, q, nodes[i].name)
        BY <1>3 DEF Drawn
    <3>2. nodes[i].depth \in 0..q.depth /\ D - 1 \in nodes[i].depth..q.depth
        BY <1>3, <1>4, <3>1
    <3>3. near[nodes[i].depth] \subseteq near[D - 1]
        BY <3>2, NearGrows
    <3> QED BY <2>4, <3>1, <3>3
  <2>8. ASSUME NEW m \in near[D - 1] PROVE Around(input, q, m) \subseteq ToSet(edges)
    <3>1. PICK i \in 1..N : nodes[i].name = m /\ nodes[i].depth <= D - 1
        BY <2>2, <2>3
    <3>2. nodes[i].depth < q.depth
        BY <1>3, <1>4, <3>1
    <3> QED BY <2>1, <3>1, <3>2 DEF Explored
  <2> QED BY <2>5, <2>6, <2>7, <2>8
<1>9. ASSUME reasons = {} PROVE \A i \in 1..N : Around(input, q, nodes[i].name) \subseteq ToSet(edges)
  <2> TAKE i \in 1..N
  <2>1. complete
      BY <1>9
  <2>2. Explored(nodes, edges, g.reasons, input, q, i) /\ "depth" \notin g.reasons
      BY <1>5, <1>6, <1>9, <2>1
  <2>3. nodes[i].depth < q.depth \/ nodes[i].depth = q.depth
      BY <1>3, <1>4
  <2> QED BY <2>2, <2>3 DEF Explored
<1>10. Told(nodes, edges, reasons, near, input, q)
    BY <1>3, <1>7, <1>8, <1>9 DEF Told, Reached, Drawn, Budgeted, Labelled
<1> QED BY <1>1, <1>2, <1>10

-----------------------------------------------------------------------------
(***************************************************************************)
(* The distances are those that the property speaks of.                    *)
(***************************************************************************)

Balls(input, q, root) ==
    LET near[k \in 0..q.depth] ==
            IF k = 0 THEN {root} ELSE near[k - 1] \cup UNION {Beside(input, q, m) : m \in near[k - 1]}
    IN  near

\* They are sets of methods.
LEMMA BallsSet ==
    ASSUME NEW input, NEW q, NEW root, Ranged(q)
    PROVE  Distances(Balls(input, q, root), input, q, root)
<1> DEFINE n == q.depth
           T == SUBSET Methodic(input, root)
           base == {root}
           More(b) == b \cup UNION {Beside(input, q, m) : m \in b}
           step == [p \in (1..n) \X T |-> More(p[2])]
<1>1. n \in Nat
    BY DEF Ranged
<1>2. base \in T
    BY DEF Methodic
<1>3. \A b \in T : More(b) \in T
  <2>1. \A m : Beside(input, q, m) \subseteq Methodic(input, root)
    <3>1. ASSUME NEW m, NEW c, NEW s \in CallSites(input) PROVE Other(s, c) \in Methodic(input, root)
        BY DEF Other, Methodic
    <3> QED BY <3>1 DEF Beside
  <2> QED BY <2>1
<1> HIDE DEF T, base, More, n
<1>4. step \in [(1..n) \X T -> T]
    BY <1>3
<1>5. PICK f : Computes(f, T, base, n, step)
  <2>1. Recursive(T, base, n, step)
    <3> HIDE DEF step
    <3> QED BY <1>1, <1>2, <1>4 DEF Recursive
  <2> HIDE DEF step
  <2> QED BY <2>1, Recursion
<1>6. /\ f \in [0..n -> T] /\ f[0] = base
      /\ \A k \in 1..n : f[k - 1] \in T /\ f[k] = More(f[k - 1])
  <2>1. f \in [0..n -> T] /\ f[0] = base /\ \A k \in 1..n : f[k] = step[<<k, f[k - 1]>>]
    <3> HIDE DEF step
    <3> QED BY <1>5 DEF Computes
  <2>2. ASSUME NEW k \in 1..n PROVE f[k - 1] \in T /\ f[k] = More(f[k - 1])
    <3>1. k - 1 \in 0..n
        BY <1>1
    <3>2. f[k - 1] \in T
        BY <2>1, <3>1
    <3>3. step[<<k, f[k - 1]>>] = More(f[k - 1])
      <4>1. <<k, f[k - 1]>> \in (1..n) \X T
          BY <3>2
      <4> QED BY <4>1
    <3> HIDE DEF step
    <3> QED BY <2>1, <3>2, <3>3
  <2> HIDE DEF step
  <2> QED BY <2>1, <2>2
<1> DEFINE Ball(h) == h = [k \in 0..n |->
                IF k = 0 THEN {root} ELSE h[k - 1] \cup UNION {Beside(input, q, m) : m \in h[k - 1]}]
<1>7. Ball(f)
  <2>1. \A k \in 0..n : f[k] =
            IF k = 0 THEN {root} ELSE f[k - 1] \cup UNION {Beside(input, q, m) : m \in f[k - 1]}
    <3> TAKE k \in 0..n
    <3>1. CASE k = 0
        BY <1>6, <3>1 DEF base
    <3>2. CASE k # 0
      <4>1. k \in 1..n
          BY <1>1, <3>2
      <4> QED BY <1>6, <3>2, <4>1 DEF More
    <3> QED BY <3>1, <3>2
  <2>2. f = [k \in 0..n |-> f[k]]
      BY <1>6
  <2> QED BY <2>1, <2>2
<1> DEFINE near == CHOOSE h : Ball(h)
<1>8. Ball(near)
  <2> HIDE DEF Ball
  <2> QED BY <1>7
<1>9. Balls(input, q, root) = near
    BY DEF Balls, n
<1> HIDE DEF near
<1>10. /\ near = [k \in 0..n |-> near[k]] /\ near[0] = {root}
       /\ \A k \in 1..n : near[k] = near[k - 1] \cup UNION {Beside(input, q, m) : m \in near[k - 1]}
  <2>1. /\ DOMAIN near = 0..n /\ near = [k \in 0..n |-> near[k]]
        /\ \A k \in 0..n : near[k] =
            IF k = 0 THEN {root} ELSE near[k - 1] \cup UNION {Beside(input, q, m) : m \in near[k - 1]}
      BY <1>8
  <2>2. 0 \in 0..n /\ \A k \in 1..n : k \in 0..n /\ k # 0
      BY <1>1
  <2> QED BY <2>1, <2>2
<1> DEFINE S == {k \in 0..n : near[k] \in T}
<1>11. near[0] = base /\ \A k \in 1..n : near[k] = More(near[k - 1])
    BY <1>10 DEF base, More
<1>12. 0 \in S
    BY <1>1, <1>2, <1>11
<1>13. \A k \in 0..(n - 1) : k \in S => k + 1 \in S
  <2> TAKE k \in 0..(n - 1)
  <2> HAVE k \in S
  <2>1. k \in Nat /\ k + 1 \in 1..n /\ k + 1 \in 0..n /\ k + 1 - 1 = k /\ near[k] \in T
      BY <1>1
  <2>2. near[k + 1] = More(near[k])
    <3>1. PICK j : j = k + 1
        OBVIOUS
    <3>2. near[j] = More(near[j - 1]) /\ j - 1 = k
        BY <1>11, <2>1, <3>1
    <3> QED BY <3>1, <3>2
  <2>3. near[k + 1] \in T
      BY <1>3, <2>1, <2>2
  <2> QED BY <2>1, <2>3
<1>14. \A k \in 0..n : near[k] \in T
  <2>1. 0..n \subseteq S
    <3> HIDE DEF S
    <3> QED BY <1>1, <1>12, <1>13, UpTo
  <2> QED BY <2>1
<1>15. near \in [0..n -> T]
    BY <1>10, <1>14
<1> QED BY <1>9, <1>10, <1>15 DEF Distances, n, T

\* They are the distances that GraphTruthful speaks of.
LEMMA BallsReach ==
    ASSUME NEW root
    PROVE  Reach(root, query.depth) = Balls(Input, query, root)
    BY DEF Reach, Balls, Neighbours, Beside, CallSites

-----------------------------------------------------------------------------
(***************************************************************************)
(* A walk has its budgets.                                                 *)
(***************************************************************************)

\* What a rewriting of a query leaves alone: its operation, and the budgets of a walk.
BudgetKeys == {"depth", "max_nodes", "max_edges", "direction"}
Fixed == {"operation"} \cup BudgetKeys

Rewrites(q, r) ==
    /\ "operation" \in DOMAIN r
    /\ DOMAIN r \cap Fixed = DOMAIN q \cap Fixed
    /\ \A k \in DOMAIN q \cap Fixed : r[k] = q[k]

\* Setting another key leaves the operation and the budgets alone.
LEMMA SetRewrites ==
    ASSUME NEW q, NEW key, key \notin Fixed, NEW value, "operation" \in DOMAIN q
    PROVE  Rewrites(q, Set(q, key, value))
<1> DEFINE r == Set(q, key, value)
<1>1. DOMAIN r = DOMAIN q \cup {key} /\ \A k \in DOMAIN q : k # key => r[k] = q[k]
    BY DEF Set
<1> HIDE DEF r
<1>2. Rewrites(q, r)
    BY <1>1 DEF Rewrites, Fixed
<1> QED BY <1>2 DEF r

\* So does replacing the value of another key.
LEMMA ExceptRewrites ==
    ASSUME NEW q, NEW key, key \notin Fixed, NEW value, "operation" \in DOMAIN q
    PROVE  Rewrites(q, [q EXCEPT ![key] = value])
<1> DEFINE r == [q EXCEPT ![key] = value]
<1>1. DOMAIN r = DOMAIN q /\ \A k \in DOMAIN q : k # key => r[k] = q[k]
    OBVIOUS
<1> HIDE DEF r
<1>2. Rewrites(q, r)
    BY <1>1 DEF Rewrites, Fixed
<1> QED BY <1>2 DEF r

\* So does doing nothing.
LEMMA SameRewrites ==
    ASSUME NEW q, "operation" \in DOMAIN q
    PROVE  Rewrites(q, q)
    BY DEF Rewrites

\* Two rewritings are one.
LEMMA RewritesTwice ==
    ASSUME NEW q, NEW r, NEW s, Rewrites(q, r), Rewrites(r, s)
    PROVE  Rewrites(q, s)
    BY DEF Rewrites

\* The slashes of a prefix.
LEMMA PrefixRewrites ==
    ASSUME NEW q, "operation" \in DOMAIN q
    PROVE  Rewrites(q, Prefix(q))
<1>1. "prefix" \notin Fixed
    BY DEF Fixed, BudgetKeys
<1> QED BY <1>1, ExceptRewrites, SameRewrites DEF Prefix

\* The descriptor of a type.
LEMMA TypeRewrites ==
    ASSUME NEW q, "operation" \in DOMAIN q
    PROVE  Rewrites(q, Type(q))
<1>1. "type_descriptor" \notin Fixed
    BY DEF Fixed, BudgetKeys
<1> QED BY <1>1, ExceptRewrites, SameRewrites DEF Type

\* The class of a member.
LEMMA ClassRewrites ==
    ASSUME NEW q, "operation" \in DOMAIN q
    PROVE  Rewrites(q, Class(q))
<1>1. "class_name" \notin Fixed
    BY DEF Fixed, BudgetKeys
<1> QED BY <1>1, SetRewrites, SameRewrites DEF Class

\* The value of a reference search.
LEMMA ValueRewrites ==
    ASSUME NEW q, "operation" \in DOMAIN q
    PROVE  Rewrites(q, Value(q))
<1>1. "value" \notin Fixed
    BY DEF Fixed, BudgetKeys
<1> QED BY <1>1, SetRewrites, SameRewrites DEF Value

\* _normalize_dex_query lets a walk through with budgets that it has checked.
LEMMA NormalRanged ==
    ASSUME NEW q, "operation" \in DOMAIN q, Graph(q)
    PROVE  /\ "operation" \in DOMAIN Normal(q)
           /\ Walks(Normal(q)) => BudgetKeys \subseteq DOMAIN Normal(q) /\ Ranged(Normal(q))
<1> DEFINE r == Value(Class(Type(Prefix(q))))
           d == Budgets(r)
           t == [k \in DOMAIN r \cup DOMAIN d |-> IF k \in DOMAIN r THEN r[k] ELSE d[k]]
<1>1. Rewrites(q, r)
  <2>1. Rewrites(q, Prefix(q))
      BY PrefixRewrites
  <2>2. Rewrites(Prefix(q), Type(Prefix(q)))
      BY <2>1, TypeRewrites DEF Rewrites
  <2>3. Rewrites(Type(Prefix(q)), Class(Type(Prefix(q))))
      BY <2>2, ClassRewrites DEF Rewrites
  <2>4. Rewrites(Class(Type(Prefix(q))), r)
      BY <2>3, ValueRewrites DEF Rewrites
  <2> QED BY <2>1, <2>2, <2>3, <2>4, RewritesTwice
<1>2. Normal(q) = t
    BY DEF Normal
<1> HIDE DEF r
<1>3. "operation" \in DOMAIN r /\ r.operation = q.operation
    BY <1>1 DEF Rewrites, Fixed
<1> HIDE DEF d
<1>4. "operation" \in DOMAIN t /\ t.operation = q.operation
    BY <1>3
<1>5. ASSUME q.operation = "get_call_graph"
      PROVE  BudgetKeys \subseteq DOMAIN t /\ Ranged(t)
  <2>1. d = [depth |-> 2, max_nodes |-> 200, max_edges |-> 500, direction |-> "both"]
      BY <1>3, <1>5 DEF Budgets, d
  <2>2. /\ DOMAIN d = BudgetKeys
        /\ d.depth = 2 /\ d.max_nodes = 200 /\ d.max_edges = 500 /\ d.direction = "both"
      BY <2>1 DEF BudgetKeys
  <2>3. /\ Get(q, "depth", 2) \in 1..5 /\ Get(q, "max_nodes", 200) \in 1..500
        /\ Get(q, "max_edges", 500) \in 1..1000
        /\ Get(q, "direction", "both") \in {"incoming", "outgoing", "both"}
      BY <1>5 DEF Graph
  <2>4. BudgetKeys \subseteq DOMAIN t
      BY <2>2
  <2>5. \A k \in BudgetKeys : t[k] = Get(q, k, d[k])
    <3> TAKE k \in BudgetKeys
    <3>1. k \in DOMAIN r <=> k \in DOMAIN q
        BY <1>1 DEF Rewrites, Fixed
    <3>2. k \in DOMAIN q => r[k] = q[k]
        BY <1>1 DEF Rewrites, Fixed
    <3>3. t[k] = IF k \in DOMAIN r THEN r[k] ELSE d[k]
        BY <2>4
    <3> HIDE DEF t
    <3> QED BY <3>1, <3>2, <3>3 DEF Get
  <2> HIDE DEF t
  <2>6. /\ t.depth = Get(q, "depth", 2) /\ t.max_nodes = Get(q, "max_nodes", 200)
        /\ t.max_edges = Get(q, "max_edges", 500) /\ t.direction = Get(q, "direction", "both")
      BY <2>2, <2>5 DEF BudgetKeys
  <2>7. t.depth \in Nat \ {0} /\ t.max_nodes \in Nat \ {0} /\ t.max_edges \in Nat \ {0}
    <3>1. t.depth \in 1..5 /\ t.max_nodes \in 1..500 /\ t.max_edges \in 1..1000
        BY <2>3, <2>6
    <3>2. PICK a, b, c : a = t.depth /\ b = t.max_nodes /\ c = t.max_edges
        OBVIOUS
    <3>3. a \in 1..5 /\ b \in 1..500 /\ c \in 1..1000
        BY <3>1, <3>2, ZenonT(60)
    <3>4. a \in Nat \ {0} /\ b \in Nat \ {0} /\ c \in Nat \ {0}
        BY <3>3
    <3> QED BY <3>2, <3>4, Zenon
  <2>8. t.direction \in Directions
      BY <2>3, <2>6, ZenonT(60) DEF Directions
  <2> QED BY <2>4, <2>7, <2>8, Zenon DEF Ranged
<1> HIDE DEF t
<1> QED BY <1>2, <1>4, <1>5 DEF Walks

\* The other tools do not walk.
LEMMA FocusedSession ==
    \A t \in DOMAIN FocusedTools : FocusedTools[t].to = "session"
<1>1. \A op, needs, takes, sends : Focused(op, needs, takes, sends).to = "session"
    BY DEF Focused, Tool
<1>2. \A op : Unpaged(op).to = "session"
  <2>1. \A x, y : x = [y EXCEPT !.takes = {}] => (y.to = "session" /\ "to" \in DOMAIN y => x.to = "session")
      OBVIOUS
  <2> QED BY <1>1, <2>1 DEF Unpaged, Focused, Tool
<1>3. \A t \in DOMAIN ClassTools : ClassTools[t].to = "session"
  <2> HIDE DEF Focused, Unpaged
  <2> QED BY <1>1, <1>2 DEF ClassTools
<1>4. \A t \in DOMAIN MethodTools : MethodTools[t].to = "session"
    BY DEF MethodTools, Focused, Tool
<1>5. \A t \in DOMAIN ReferenceTools : ReferenceTools[t].to = "session"
    BY <1>1, <1>2 DEF ReferenceTools
<1>6. \A t \in DOMAIN SearchTools : SearchTools[t].to = "session"
    BY <1>1, <1>2 DEF SearchTools
<1>7. ASSUME NEW f, NEW g, \A t \in DOMAIN f : f[t].to = "session", \A t \in DOMAIN g : g[t].to = "session"
      PROVE  \A t \in DOMAIN Joined(f, g) : Joined(f, g)[t].to = "session"
  <2> TAKE t \in DOMAIN Joined(f, g)
  <2>1. Joined(f, g)[t] = f[t] \/ t \notin DOMAIN f
      BY DEF Joined
  <2>2. t \in DOMAIN f \/ (t \in DOMAIN g /\ Joined(f, g)[t] = g[t])
      BY DEF Joined
  <2> QED BY <1>7, <2>1, <2>2
<1> QED BY <1>3, <1>4, <1>5, <1>6, <1>7 DEF FocusedTools

\* A tool of files: it does not walk, and no argument stands for its operation.
Filed(tool) ==
    /\ tool.op # "get_call_graph" /\ "operation" \notin tool.takes /\ "operation" \notin DOMAIN tool.sends

\* A tool whose keys leave the operation out.
LEMMA FiledTool ==
    ASSUME NEW to, NEW op, op # "get_call_graph", NEW needs, NEW takes, NEW sends,
           "operation" \notin needs \cup takes \cup DOMAIN sends
    PROVE  Filed(Tool(to, op, needs, takes, sends))
    BY DEF Filed, Tool

\* Every tool of files is one.
LEMMA FilesApart ==
    \A t \in DOMAIN FileTools : Filed(FileTools[t])
<1>1. /\ "operation" \notin DOMAIN FromStart /\ "operation" \notin DOMAIN Nothing
      /\ "operation" \notin DOMAIN ContentArguments
    BY DEF FromStart, Nothing, ContentArguments
<1>2. \A keys : "operation" \notin keys => "operation" \notin DOMAIN Absent(keys)
    BY DEF Absent
<1>3. \A f, g : "operation" \notin DOMAIN f \cup DOMAIN g => "operation" \notin DOMAIN Joined(f, g)
    BY DEF Joined
<1>4. \A t \in DOMAIN InspectionTools : Filed(InspectionTools[t])
    BY <1>1, <1>2, <1>3, FiledTool DEF InspectionTools
<1>5. \A t \in DOMAIN EntryTools : Filed(EntryTools[t])
    BY <1>1, <1>2, <1>3, FiledTool DEF EntryTools
<1>6. \A t \in DOMAIN ReviewTools : Filed(ReviewTools[t])
    BY <1>1, <1>2, <1>3, FiledTool DEF ReviewTools
<1>7. \A t \in DOMAIN CliTools : Filed(CliTools[t])
    BY <1>1, <1>2, <1>3, FiledTool DEF CliTools
<1>8. \A t \in DOMAIN ArtifactTools : Filed(ArtifactTools[t])
    BY <1>1, <1>2, <1>3, FiledTool DEF ArtifactTools
<1>9. ASSUME NEW f, NEW g, \A t \in DOMAIN f : Filed(f[t]), \A t \in DOMAIN g : Filed(g[t])
      PROVE  \A t \in DOMAIN Joined(f, g) : Filed(Joined(f, g)[t])
  <2> TAKE t \in DOMAIN Joined(f, g)
  <2>1. Joined(f, g)[t] = f[t] \/ t \notin DOMAIN f
      BY DEF Joined
  <2>2. t \in DOMAIN f \/ (t \in DOMAIN g /\ Joined(f, g)[t] = g[t])
      BY DEF Joined
  <2> QED BY <1>9, <2>1, <2>2
<1> QED BY <1>4, <1>5, <1>6, <1>7, <1>8, <1>9 DEF FileTools

-----------------------------------------------------------------------------
(***************************************************************************)
(* The service lets no walk through without its budgets.                   *)
(***************************************************************************)

Registered(c) ==
    /\ c.tool \in Generics \cup DOMAIN FocusedTools \cup DOMAIN FileTools
    /\ Callable(ToolOf(c), c.given)

\* What a tool sends names an operation, and a tool of files its own.
LEMMA AskedOperation ==
    ASSUME NEW tool, NEW given
    PROVE  /\ "operation" \in DOMAIN Asked(tool, given)
           /\ Filed(tool) /\ "operation" \notin DOMAIN given => Asked(tool, given).operation = tool.op
<1> DEFINE first == Joined(given, tool.sends)
           last == [operation |-> tool.op]
<1>1. DOMAIN first = DOMAIN given \cup DOMAIN tool.sends
    BY DEF Joined
<1>2. Asked(tool, given) = Joined(first, last) /\ "operation" \in DOMAIN last /\ last.operation = tool.op
    BY DEF Asked
<1> HIDE DEF first, last
<1>3. "operation" \in DOMAIN Joined(first, last)
    BY <1>2 DEF Joined
<1>4. "operation" \notin DOMAIN first => Joined(first, last).operation = tool.op
    BY <1>2 DEF Joined
<1> QED BY <1>1, <1>2, <1>3, <1>4 DEF Filed

\* What the handle adds makes no walk of a query.
LEMMA CompletedStays ==
    ASSUME NEW a, NEW to, NEW q, "operation" \in DOMAIN q, q.operation # "get_call_graph"
    PROVE  LET r == Completed(a, to, q) IN "operation" \in DOMAIN r /\ r.operation # "get_call_graph"
<1>1. \A r, key, value : "operation" \in DOMAIN r /\ r.operation # "get_call_graph" /\ key # "operation" =>
            /\ "operation" \in DOMAIN Set(r, key, value)
            /\ Set(r, key, value).operation # "get_call_graph"
    BY DEF Set
<1>2. \A r : /\ "operation" \in DOMAIN Set(r, "operation", "list_entries")
             /\ Set(r, "operation", "list_entries").operation # "get_call_graph"
    BY DEF Set
<1> QED BY <1>1, <1>2 DEF Completed

\* A session query that walks has budgets: the grouped format adds no others.
LEMMA SessionRanged ==
    ASSUME NEW q, "operation" \in DOMAIN q, SessionAccepted(q), Walks(SessionQuery(q))
    PROVE  Ranged(SessionQuery(q))
<1> DEFINE w == Without(q, {"reference_format", "cursor"})
           plain == Normal(w)
           one == Set(plain, "reference_format", "grouped")
           two == Set(one, "cursor", Given(q, "cursor"))
<1>1. "operation" \in DOMAIN w
    BY DEF Without
<1>2. Graph(w)
  <2>1. Accepted(w)
      BY DEF SessionAccepted
  <2> HIDE DEF w
  <2> QED BY <2>1 DEF Accepted
<1> HIDE DEF w
<1>3. "operation" \in DOMAIN plain /\ (Walks(plain) => BudgetKeys \subseteq DOMAIN plain /\ Ranged(plain))
    BY <1>1, <1>2, NormalRanged
<1>4. SessionQuery(q) \in {plain, two}
    BY DEF SessionQuery, w
<1> HIDE DEF plain
<1>5. Rewrites(plain, two)
  <2>1. Rewrites(plain, one)
    <3>1. "reference_format" \notin Fixed
        BY DEF Fixed, BudgetKeys
    <3> QED BY <1>3, <3>1, SetRewrites
  <2>2. Rewrites(one, two)
    <3>1. "cursor" \notin Fixed
        BY DEF Fixed, BudgetKeys
    <3>2. "operation" \in DOMAIN one
        BY <2>1 DEF Rewrites
    <3> HIDE DEF one
    <3> QED BY <3>1, <3>2, SetRewrites
  <2> HIDE DEF one, two
  <2> QED BY <2>1, <2>2, RewritesTwice
<1> HIDE DEF two
<1>6. ASSUME Walks(two) PROVE Ranged(two)
  <2>1. two.operation = plain.operation
      BY <1>3, <1>5 DEF Rewrites, Fixed
  <2>2. BudgetKeys \subseteq DOMAIN plain /\ Ranged(plain)
      BY <1>3, <1>6, <2>1 DEF Walks
  <2>3. /\ two.depth = plain.depth /\ two.max_nodes = plain.max_nodes
        /\ two.max_edges = plain.max_edges /\ two.direction = plain.direction
      BY <1>5, <2>2 DEF Rewrites, Fixed, BudgetKeys
  <2> QED BY <2>2, <2>3 DEF Ranged
<1> QED BY <1>3, <1>4, <1>6

\* Whatever tool was called: what is let through and walks has budgets.
LEMMA WalksRanged ==
    ASSUME NEW a, NEW c, Registered(c), Admitted(ToolOf(c).to, SentBy(a, c)),
           Walks(Rewritten(ToolOf(c).to, SentBy(a, c)))
    PROVE  Ranged(Rewritten(ToolOf(c).to, SentBy(a, c)))
<1> DEFINE tool == ToolOf(c)
           given == GivenTo(c)
           asked == Asked(tool, given)
           sent == SentBy(a, c)
<1>1. sent = Completed(a, tool.to, asked)
    BY DEF SentBy, Sent
<1>2. "operation" \in DOMAIN asked
    BY AskedOperation
<1>3. CASE tool.to = "session"
  <2>1. sent = asked
      BY <1>1, <1>3 DEF Completed
  <2>2. Rewritten(tool.to, sent) = SessionQuery(sent) /\ SessionAccepted(sent)
      BY <1>3 DEF Rewritten, Admitted
  <2> HIDE DEF sent, asked
  <2>3. Ranged(SessionQuery(sent))
      BY <1>2, <2>1, <2>2, SessionRanged DEF sent
  <2> QED BY <2>2, <2>3 DEF sent
<1>4. CASE tool.to = "one_shot"
  <2>1. sent = asked
      BY <1>1, <1>4 DEF Completed
  <2>2. Rewritten(tool.to, sent) = Normal(sent) /\ Accepted(sent)
      BY <1>4 DEF Rewritten, Admitted
  <2>3. Graph(sent)
    <3> HIDE DEF sent
    <3> QED BY <2>2 DEF Accepted
  <2>4. "operation" \in DOMAIN sent
      BY <1>2, <2>1
  <2>5. Walks(Normal(sent))
      BY <2>2
  <2> HIDE DEF sent, asked
  <2>6. Ranged(Normal(sent))
      BY <2>3, <2>4, <2>5, NormalRanged
  <2> QED BY <2>2, <2>6 DEF sent
<1>5. CASE tool.to \notin {"session", "one_shot"}
  <2>0. "asc_analyze_dex" \notin DOMAIN FocusedTools /\ "asc_query_dex_session" \notin DOMAIN FocusedTools
      BY DEF FocusedTools, ClassTools, MethodTools, ReferenceTools, SearchTools, Joined
  <2>1. c.tool \notin Generics /\ c.tool \notin DOMAIN FocusedTools
    <3>1. c.tool = "asc_analyze_dex" => tool.to = "one_shot"
      <4>1. AnalyzeDex(c.op).to = "one_shot"
          BY DEF AnalyzeDex, Tool
      <4>2. c.tool = "asc_analyze_dex" => tool = AnalyzeDex(c.op)
          BY <2>0 DEF ToolOf
      <4> HIDE DEF tool
      <4> QED BY <4>1, <4>2
    <3>2. c.tool = "asc_query_dex_session" => tool.to = "session"
      <4>1. QuerySession(c.op).to = "session"
          BY DEF QuerySession, Tool
      <4>2. c.tool = "asc_query_dex_session" => tool = QuerySession(c.op)
          BY <2>0 DEF ToolOf
      <4> HIDE DEF tool
      <4> QED BY <4>1, <4>2
    <3>3. c.tool \notin Generics /\ c.tool \in DOMAIN FocusedTools => tool = FocusedTools[c.tool]
        BY DEF ToolOf, Generics
    <3> HIDE DEF tool
    <3> QED BY <1>5, <3>1, <3>2, <3>3, FocusedSession DEF Generics
  <2>2. c.tool \in DOMAIN FileTools /\ tool = FileTools[c.tool]
      BY <2>1 DEF ToolOf, Generics, Registered
  <2>3. Filed(tool)
    <3> HIDE DEF tool
    <3> QED BY <2>2, FilesApart
  <2>4. given = c.given
      <3>1. "apk_list_classes" \in DOMAIN FocusedTools
        BY DEF FocusedTools, ClassTools, Joined
    <3> QED BY <2>1, <3>1 DEF GivenTo
  <2>5. "operation" \notin DOMAIN given
      BY <2>3, <2>4 DEF Registered, Callable, Filed
  <2>6. asked.operation # "get_call_graph"
      BY <2>3, <2>5, AskedOperation DEF Filed
  <2> HIDE DEF asked, tool
  <2>7. "operation" \in DOMAIN sent /\ sent.operation # "get_call_graph"
      BY <1>1, <1>2, <2>6, CompletedStays
  <2> HIDE DEF sent
  <2>8. InspectionQuery(sent).operation # "get_call_graph"
      BY <2>7 DEF InspectionQuery
  <2>9. Rewritten(tool.to, sent).operation # "get_call_graph"
      BY <1>5, <2>7, <2>8 DEF Rewritten
  <2> QED BY <2>9 DEF Walks, sent, tool
<1> QED BY <1>3, <1>4, <1>5

\* What is sent on names its operation.
LEMMA QueryOperation ==
    ASSUME NEW a, NEW c, Admitted(ToolOf(c).to, SentBy(a, c))
    PROVE  "operation" \in DOMAIN Rewritten(ToolOf(c).to, SentBy(a, c))
<1> DEFINE to == ToolOf(c).to
           q == SentBy(a, c)
           w == Without(q, {"reference_format", "cursor"})
           plain == Normal(w)
<1>1. "operation" \in DOMAIN q
  <2>1. "operation" \in DOMAIN Asked(ToolOf(c), GivenTo(c))
      BY AskedOperation
  <2>2. \A r, key, value : "operation" \in DOMAIN r => "operation" \in DOMAIN Set(r, key, value)
      BY DEF Set
  <2>3. \A r : "operation" \in DOMAIN r => "operation" \in DOMAIN Completed(a, to, r)
      BY <2>2 DEF Completed
  <2>4. q = Completed(a, to, Asked(ToolOf(c), GivenTo(c)))
      BY DEF SentBy, Sent
  <2> HIDE DEF q, to
  <2> QED BY <2>1, <2>3, <2>4
<1>2. Admitted(to, q)
    OBVIOUS
<1> HIDE DEF q, to
<1>3. CASE to = "session"
  <2>1. Graph(w)
    <3>1. Accepted(w)
        BY <1>2, <1>3 DEF Admitted, SessionAccepted
    <3> HIDE DEF w
    <3> QED BY <3>1 DEF Accepted
  <2>2. "operation" \in DOMAIN w
      BY <1>1 DEF Without
  <2> HIDE DEF w
  <2>3. "operation" \in DOMAIN plain
      BY <2>1, <2>2, NormalRanged
  <2> HIDE DEF plain
  <2>4. \A r, key, value : "operation" \in DOMAIN r => "operation" \in DOMAIN Set(r, key, value)
      BY DEF Set
  <2>5. "operation" \in DOMAIN SessionQuery(q)
      BY <2>3, <2>4 DEF SessionQuery, plain, w
  <2> QED BY <1>3, <2>5 DEF Rewritten, to, q
<1>4. CASE to = "one_shot"
  <2>1. Graph(q)
    <3>1. Accepted(q)
        BY <1>2, <1>4 DEF Admitted
    <3> QED BY <3>1 DEF Accepted
  <2>2. "operation" \in DOMAIN Normal(q)
      BY <1>1, <2>1, NormalRanged
  <2> QED BY <1>4, <2>2 DEF Rewritten, to, q
<1>5. CASE to = "inspect"
  <2>1. "operation" \in DOMAIN InspectionQuery(q)
      BY <1>1 DEF InspectionQuery
  <2> QED BY <1>5, <2>1 DEF Rewritten, to, q
<1>6. CASE to \notin {"session", "one_shot", "inspect"}
    BY <1>1, <1>6 DEF Rewritten, to, q
<1> QED BY <1>3, <1>4, <1>5, <1>6

-----------------------------------------------------------------------------
(***************************************************************************)
(* The calls of a client.                                                  *)
(***************************************************************************)

\* A graph that is walked, and one that is answered.
Walking(g, input, q) == \E root, k : Between(g, Balls(input, q, root), input, q, root, k)

Ends(g, input, q) ==
    \E root :
        /\ g.nodes \in Seq(Nodes(input, q, root)) /\ g.edges \in Seq(CallSites(input))
        /\ g.nodes[1].name = root /\ Used(g) <= GraphRoom
        /\ Told(g.nodes, g.edges, g.reasons, Balls(input, q, root), input, q)

\* A program and a query with budgets are a setting.
LEMMA BallsSetting ==
    ASSUME NEW input, Legible(input), NEW q, Ranged(q), NEW root
    PROVE  Setting(Balls(input, q, root), input, q, root)
    BY BallsSet DEF Setting

\* A walk that starts is a walk.
LEMMA WalkingStarts ==
    ASSUME NEW input, Legible(input), NEW q, Ranged(q), NEW root, NEW source, NEW frontier
    PROVE  Walking(Start(root, source, frontier), input, q)
<1>1. Setting(Balls(input, q, root), input, q, root)
    BY BallsSetting
<1>2. Between(Start(root, source, frontier), Balls(input, q, root), input, q, root, 0)
    BY <1>1, StartKeeps
<1> QED BY <1>2 DEF Walking

\* So is one that has looked at a method more, by an index or by a new frontier.
LEMMA WalkingGoesOn ==
    ASSUME NEW input, Legible(input), NEW q, Ranged(q), NEW g, Walking(g, input, q),
           g.queue # <<>>, ~g.stopped, NEW frontier, NEW h, h = g \/ h = [g EXCEPT !.frontier = frontier]
    PROVE  Walking(Expand(input, h, q), input, q)
<1>1. PICK root, k : Between(g, Balls(input, q, root), input, q, root, k)
    BY DEF Walking
<1>2. Setting(Balls(input, q, root), input, q, root)
    BY BallsSetting
<1>3. Between(h, Balls(input, q, root), input, q, root, k) /\ h.queue # <<>> /\ ~h.stopped
  <2>1. CASE h = g
      BY <1>1, <2>1
  <2>2. CASE h = [g EXCEPT !.frontier = frontier]
    <3>1. /\ Between(h, Balls(input, q, root), input, q, root, k)
          /\ h.queue = g.queue /\ h.stopped = g.stopped
        BY <1>1, <2>2, FrontierKeeps
    <3> QED BY <3>1
  <2> QED BY <2>1, <2>2
<1>4. Between(Expand(input, h, q), Balls(input, q, root), input, q, root, k + 1)
    BY <1>2, <1>3, ExpandKeeps
<1> QED BY <1>4 DEF Walking

\* A walk holds every method once.
Reasoned(g) ==
    /\ g.reasons \subseteq {"depth", "max_nodes", "max_edges", "output_bytes"}
    /\ NoRepeats(g.queue) /\ ToSet(g.queue) \subseteq Found(g)
    /\ Cardinality(Found(g)) = Len(g.nodes)

\* The queue holds methods that are found, no method twice.
LEMMA NamesApart ==
    ASSUME NEW E, NEW F, NEW g, g.nodes \in Seq(E), g.queue \in Seq(F), NEW k, NEW root,
           Queued(g.nodes, g.queue, k), Layered(g.nodes, root, k)
    PROVE  /\ NoRepeats(g.queue) /\ ToSet(g.queue) \subseteq Found(g)
           /\ Cardinality(Found(g)) = Len(g.nodes)
<1>1. PICK nodes \in Seq(E) : nodes = g.nodes
    OBVIOUS
<1>2. PICK queue \in Seq(F) : queue = g.queue
    OBVIOUS
<1> DEFINE N == Len(nodes)
           names == [i \in 1..N |-> nodes[i].name]
           C == {nodes[i].name : i \in 1..N}
<1>3. /\ N \in Nat /\ DOMAIN nodes = 1..N /\ Len(queue) \in Nat /\ DOMAIN queue = 1..Len(queue)
      /\ ToSet(queue) = {queue[i] : i \in 1..Len(queue)}
    BY Elements
<1>4. \A i, j \in 1..N : nodes[i].name = nodes[j].name => i = j
    BY <1>1 DEF Layered
<1>5. /\ k \in 0..N /\ Len(queue) = N - k /\ \A i \in 1..Len(queue) : queue[i] = nodes[k + i].name
    BY <1>1, <1>2 DEF Queued
<1>6. \A i \in 1..Len(queue) : k + i \in 1..N
    BY <1>3, <1>5
<1>7. NoRepeats(queue)
  <2>1. Once(queue)
    <3>1. SUFFICES ASSUME NEW i \in 1..Len(queue), NEW j \in 1..Len(queue), queue[i] = queue[j] PROVE i = j
        BY DEF Once
    <3>2. nodes[k + i].name = nodes[k + j].name
        BY <1>5, <3>1
    <3>3. k + i = k + j
        BY <1>4, <1>6, <3>2
    <3> QED BY <1>3, <1>5, <3>3
  <2> QED BY <2>1, OnceCounted
<1>8. Found(g) = C
    BY <1>1, <1>3 DEF Found
<1>9. ToSet(queue) \subseteq C
    BY <1>3, <1>5, <1>6
<1>10. Cardinality(C) = N
  <2>1. names \in Seq(C) /\ Len(names) = N /\ DOMAIN names = 1..N
    <3>1. names \in [1..N -> C]
        OBVIOUS
    <3>2. DOMAIN names = 1..N
        OBVIOUS
    <3> HIDE DEF names, C
    <3>3. names \in Seq(C)
        BY <1>3, <3>1, SeqDef
    <3> QED BY <1>3, <3>2, <3>3, LenProperties
  <2>2. \A i \in 1..N : names[i] = nodes[i].name
      OBVIOUS
  <2>3. Once(names)
    <3> HIDE DEF names
    <3> QED BY <1>4, <2>1, <2>2 DEF Once
  <2>4. ToSet(names) = C
    <3> HIDE DEF names
    <3> QED BY <2>1, <2>2 DEF ToSet
  <2> HIDE DEF names, C
  <2>5. NoRepeats(names)
      BY <2>1, <2>3, OnceCounted
  <2> QED BY <2>1, <2>4, <2>5 DEF NoRepeats
<1> HIDE DEF C
<1> QED BY <1>1, <1>2, <1>7, <1>8, <1>9, <1>10

\* So it is throughout a walk.
LEMMA WalkingReasoned ==
    ASSUME NEW input, NEW q, NEW g, Walking(g, input, q)
    PROVE  Reasoned(g)
<1>1. PICK root, k : Between(g, Balls(input, q, root), input, q, root, k)
    BY DEF Walking
<1>2. /\ g.nodes \in Seq(Nodes(input, q, root)) /\ g.queue \in Seq(Methodic(input, root))
      /\ g.reasons \subseteq Reasons
    BY <1>1 DEF Between, WalkOf
<1>3. Queued(g.nodes, g.queue, k) /\ Layered(g.nodes, root, k)
    BY <1>1 DEF Between, Core
<1> QED BY <1>2, <1>3, NamesApart DEF Reasoned, Reasons

\* There is no method without a walk.
LEMMA NoGraphReasoned == Reasoned(NoGraph)
<1>1. NoGraph.nodes = <<>> /\ NoGraph.queue = <<>> /\ NoGraph.reasons = {}
    BY DEF NoGraph
<1>2. NoRepeats(<<>>) /\ ToSet(<<>>) = {}
    BY FS_EmptySet DEF NoRepeats, ToSet
<1>3. Found(NoGraph) = {} /\ Cardinality({}) = 0
    BY <1>1, FS_EmptySet DEF Found
<1> QED BY <1>1, <1>2, <1>3 DEF Reasoned

\* A walk that ends tells the truth.
LEMMA WalkingEnds ==
    ASSUME NEW input, Legible(input), NEW q, Ranged(q), NEW g, Walking(g, input, q),
           g.queue = <<>> \/ g.stopped
    PROVE  Ends(Diagnose(input, g), input, q) /\ Reasoned(Diagnose(input, g))
<1>1. PICK root, k : Between(g, Balls(input, q, root), input, q, root, k)
    BY DEF Walking
<1>2. Setting(Balls(input, q, root), input, q, root)
    BY BallsSetting
<1>3. PICK t : t = Diagnose(input, g)
    OBVIOUS
<1>4. /\ t.nodes = g.nodes /\ t.edges = g.edges /\ t.queue = g.queue /\ Used(t) <= GraphRoom
      /\ t.reasons \in {g.reasons, g.reasons \cup {"output_bytes"}}
    BY <1>1, <1>2, <1>3, DiagnoseKeeps
<1>5. Told(g.nodes, g.edges, t.reasons, Balls(input, q, root), input, q)
    BY <1>1, <1>2, <1>4, EndTold
<1>6. /\ g.nodes \in Seq(Nodes(input, q, root)) /\ g.edges \in Seq(CallSites(input))
      /\ g.nodes[1].name = root
    BY <1>1 DEF Between, WalkOf, Core, Layered
<1>7. Ends(t, input, q)
    BY <1>4, <1>5, <1>6 DEF Ends
<1>8. Reasoned(g)
    BY WalkingReasoned
<1>9. Reasoned(t)
    BY <1>4, <1>8 DEF Reasoned, Found
<1> QED BY <1>3, <1>7, <1>9

\* A walk has not ended.
LEMMA WalkingOpen ==
    ASSUME NEW input, NEW q, NEW g, Walking(g, input, q)
    PROVE  g.ended = FALSE
<1>1. PICK root, k : WalkOf(g, input, q, root)
    BY DEF Walking, Between
<1>2. g.ended \in {FALSE}
    BY <1>1 DEF WalkOf
<1> QED BY <1>2

\* The inductive invariant: what is walked has its budgets, what is answered is told.
WalksInv ==
    /\ artifact \in Artifacts
    /\ index \in {"none", "calls", "full"} /\ durable \in Durables(artifact) \cup {"stored"}
    /\ disk \in {"old", "new"} /\ stage \in Stages
    /\ call = None <=> stage = "idle"
    /\ stage # "idle" => Registered(call)
    /\ stage \in {"serving", "walking"} => "operation" \in DOMAIN query
    /\ Reasoned(graph)
    /\ stage \in {"serving", "walking"} /\ Walks(query) => Ranged(query)
    /\ stage \in {"idle", "asked", "serving"} => graph.ended = FALSE
    /\ stage = "walking" => Walks(query) /\ Walking(graph, Input, query)
    /\ stage = "done" => graph.ended = FALSE \/ Ends(graph, Input, query)

\* The program of an artifact lists no site twice.
LEMMA InputLegible ==
    ASSUME artifact \in Artifacts PROVE Legible(Input)
    BY ProgramAssumption DEF ProgramAssumption, Legible, Input

\* No graph is no answer.
LEMMA NoGraphOpen == NoGraph.ended = FALSE
    BY DEF NoGraph

\* The invariant holds at the start.
LEMMA InitWalks == Init => WalksInv
    BY NoGraphOpen, NoGraphReasoned DEF Init, WalksInv, Stages

\* A walk begins, or the call ends.
LEMMA BeginKeeps ==
    ASSUME WalksInv, stage \in {"serving", "walking"}, Walks(query), NEW source, NEW frontier,
           Begin(source, frontier), UNCHANGED <<artifact, durable, disk, call, query>>,
           index' \in {"none", "calls", "full"}
    PROVE  WalksInv'
<1>1. Legible(Input) /\ Ranged(query) /\ Registered(call) /\ Input' = Input
    BY InputLegible DEF WalksInv, Stages, Input
<1>2. CASE stage' = "walking" /\ graph' = Start(Root.method_descriptor, source, frontier)
  <2>1. Walking(graph', Input, query) /\ Reasoned(graph')
      BY <1>1, <1>2, WalkingStarts, WalkingReasoned
  <2> QED BY <1>1, <1>2, <2>1 DEF WalksInv, Stages
<1>3. CASE stage' = "done" /\ UNCHANGED graph
  <2>1. graph.ended = FALSE
      BY WalkingOpen DEF WalksInv
  <2> QED BY <1>1, <1>3, <2>1 DEF WalksInv, Stages
<1> QED BY <1>2, <1>3 DEF Begin

\* Every step keeps it.
LEMMA NextWalks ==
    ASSUME WalksInv, [Next]_vars
    PROVE  WalksInv'
<1> USE DEF Stages
<1>1. CASE Ask
  <2>1. PICK c \in Asks(artifact, durable) : Callable(ToolOf(c), c.given) /\ call' = c
      BY <1>1 DEF Ask
  <2>2. Registered(c) /\ c # None
      BY <2>1, ToolAssumption DEF WalksInv, Registered, ToolAssumption
  <2> QED BY <1>1, <2>1, <2>2 DEF Ask, WalksInv, session, Input
<1>2. CASE Refuse
    BY <1>2 DEF Refuse, WalksInv, session, Input
<1>3. CASE Accept
  <2>1. Registered(call) /\ graph.ended = FALSE
      BY <1>3 DEF Accept, WalksInv
  <2>2. Walks(query') => Ranged(query')
      BY <1>3, <2>1, WalksRanged DEF Accept
  <2>3. "operation" \in DOMAIN query'
      BY <1>3, QueryOperation DEF Accept
  <2> QED BY <1>3, <2>1, <2>2, <2>3 DEF Accept, WalksInv, session, Input
<1>4. CASE Serve
  <2>1. /\ stage = "serving" /\ stage' \in {"serving", "done"} /\ ~Walks(query)
        /\ UNCHANGED <<artifact, disk, call, query, graph>> /\ durable' \in {"stored", durable}
      BY <1>4 DEF Serve
  <2>2. index' \in {"none", "calls", "full"}
    <3>1. PICK has : has \in {IF Builds(query) THEN "full" ELSE Restored(query)} /\ Keeps(has)
        BY <1>4 DEF Serve
    <3>2. has \in {"none", "calls", "full"}
        BY <3>1 DEF Restored, Held, WalksInv
    <3> QED BY <3>1, <3>2 DEF Keeps, WalksInv
  <2> QED BY <2>1, <2>2 DEF WalksInv, Input
<1>5. CASE Unresolvable
    BY <1>5 DEF Unresolvable, WalksInv, session, Input
<1>6. CASE WalkByScans
  <2>1. PICK frontier : Begin("frontier", frontier)
      BY <1>6 DEF WalkByScans
  <2>2. stage = "serving" /\ Walks(query) /\ UNCHANGED <<artifact, index, durable, disk, call, query>>
      BY <1>6 DEF WalkByScans, Resolvable, session
  <2>3. index' \in {"none", "calls", "full"}
      BY <2>2 DEF WalksInv
  <2> QED BY <2>1, <2>2, <2>3, BeginKeeps
<1>7. CASE WalkByIndex
  <2>1. Begin("index", {})
      BY <1>7 DEF WalkByIndex
  <2>2. stage = "serving" /\ Walks(query) /\ UNCHANGED <<artifact, durable, disk, call, query>>
      BY <1>7 DEF WalkByIndex, Resolvable
  <2>3. index' \in {"none", "calls", "full"}
      BY <1>7 DEF WalkByIndex, Keeps, Indexed, Held, WalksInv
  <2> QED BY <2>1, <2>2, <2>3, BeginKeeps
<1>8. CASE Step
  <2>1. PICK h : h = IF graph.source = "index" THEN graph ELSE [graph EXCEPT !.frontier = NextFrontier]
      OBVIOUS
  <2>2. /\ stage = "walking" /\ graph.queue # <<>> /\ ~graph.stopped /\ graph' = Expand(Input, h, query)
        /\ UNCHANGED <<artifact, index, durable, disk, stage, call, query>>
      BY <1>8, <2>1 DEF Step, session
  <2>3. Legible(Input) /\ Walks(query) /\ Ranged(query) /\ Walking(graph, Input, query)
      BY <2>2, InputLegible DEF WalksInv
  <2>4. h = graph \/ h = [graph EXCEPT !.frontier = NextFrontier]
      BY <2>1
  <2>5. Walking(graph', Input, query) /\ Reasoned(graph')
      BY <2>2, <2>3, <2>4, WalkingGoesOn, WalkingReasoned
  <2> QED BY <2>2, <2>3, <2>5 DEF WalksInv, Input
<1>9. CASE TooDense
  <2>1. Begin("index", {})
      BY <1>9 DEF TooDense
  <2>2. stage = "walking" /\ UNCHANGED <<artifact, durable, disk, call, query>>
      BY <1>9 DEF TooDense
  <2>3. Walks(query)
      BY <2>2 DEF WalksInv
  <2>4. index' \in {"none", "calls", "full"}
      BY <1>9 DEF TooDense, Keeps, Indexed, Held, WalksInv
  <2> QED BY <2>1, <2>2, <2>3, <2>4, BeginKeeps
<1>10. CASE Conclude
  <2>1. /\ stage = "walking" /\ (graph.queue = <<>> \/ graph.stopped) /\ graph' = Diagnose(Input, graph)
        /\ stage' = "done" /\ UNCHANGED <<artifact, index, durable, disk, call, query>>
      BY <1>10 DEF Conclude, Walked, session
  <2>2. Legible(Input) /\ Walks(query) /\ Ranged(query) /\ Walking(graph, Input, query)
      BY <2>1, InputLegible DEF WalksInv
  <2>3. Ends(graph', Input, query) /\ Reasoned(graph')
      BY <2>1, <2>2, WalkingEnds
  <2> QED BY <2>1, <2>3 DEF WalksInv, Input
<1>11. CASE BuildElsewhere
    BY <1>11 DEF BuildElsewhere, WalksInv, Input
<1>12. CASE PublishElsewhere
    BY <1>12 DEF PublishElsewhere, WalksInv, Input
<1>13. CASE Replace
    BY <1>13 DEF Replace, WalksInv, Input
<1>14. CASE Finish
    BY <1>14, NoGraphOpen, NoGraphReasoned DEF Finish, WalksInv, session, Input
<1>15. CASE UNCHANGED vars
    BY <1>15 DEF vars, WalksInv, Input
<1> QED BY <1>1, <1>2, <1>3, <1>4, <1>5, <1>6, <1>7, <1>8, <1>9, <1>10, <1>11, <1>12, <1>13, <1>14,
           <1>15 DEF Next

\* The inductive invariant: only a query with budgets is walked, the walk is Between
\* two methods, and a graph that is answered is told truly.
THEOREM WalksInvariant == Spec => []WalksInv
<1>1. Init => WalksInv
    BY InitWalks
<1>2. WalksInv /\ [Next]_vars => WalksInv'
    BY NextWalks
<1> QED BY <1>1, <1>2, PTL DEF Spec

\* The state of a call has its shape: what is served names its operation, and the
\* queue of a walk (call_graph.py's deque) holds methods that are found, each once.
THEOREM RequestTypes == Spec => []TypeOK
<1>1. WalksInv => TypeOK
  <2> HAVE WalksInv
  <2>1. durable \in {"off", "empty", "stored"}
      BY ToolAssumption DEF WalksInv, ToolAssumption
  <2> QED BY <2>1 DEF WalksInv, TypeOK, Reasoned
<1> QED BY <1>1, WalksInvariant, PTL

\* What is told is what the property states.
LEMMA TruthOfEnds ==
    ASSUME Ends(graph, Input, query)
    PROVE  GraphTruthful
<1>1. PICK root :
        /\ graph.nodes \in Seq(Nodes(Input, query, root)) /\ graph.edges \in Seq(CallSites(Input))
        /\ graph.nodes[1].name = root /\ Used(graph) <= GraphRoom
        /\ Told(graph.nodes, graph.edges, graph.reasons, Balls(Input, query, root), Input, query)
    BY DEF Ends
<1>2. DOMAIN graph.nodes = 1..Len(graph.nodes) /\ (NoRepeats(graph.edges) <=> Once(graph.edges))
    BY <1>1, Elements, OnceCounted
<1>3. \A m : Incident(m) = Around(Input, query, m)
    BY DEF Incident, Around, CallSites
<1>4. Reach(graph.nodes[1].name, query.depth) = Balls(Input, query, root)
    BY <1>1, BallsReach
<1> DEFINE nodes == graph.nodes
           near == Balls(Input, query, root)
           taken == ToSet(graph.edges)
           known == {nodes[i].name : i \in 1..Len(nodes)}
<1>5. Found(graph) = known
    BY <1>2 DEF Found
<1> HIDE DEF near
<1>6. \A i \in 1..Len(nodes) :
        /\ nodes[i].name \in near[nodes[i].depth]
        /\ nodes[i].depth > 0 => nodes[i].name \notin near[nodes[i].depth - 1]
        /\ nodes[i].status = "expanded" => Incident(nodes[i].name) \subseteq taken
        /\ nodes[i].status = "not_expanded" => ~Complete(graph)
    BY <1>1, <1>3 DEF Told, near, Complete
<1>7. /\ NoRepeats(graph.edges)
      /\ \A s \in taken : {s.caller, s.arg} \subseteq known
      /\ Len(nodes) <= query.max_nodes /\ Len(graph.edges) <= query.max_edges
    BY <1>1, <1>2 DEF Told
<1>8. Complete(graph) =>
        /\ known = near[query.depth]
        /\ taken = UNION {Incident(m) : m \in near[query.depth - 1]}
    BY <1>1, <1>3 DEF Told, near, Complete
<1>9. graph.reasons = {} => \A m \in known : Incident(m) \subseteq taken
    BY <1>1, <1>3 DEF Told
<1> QED BY <1>1, <1>2, <1>4, <1>5, <1>6, <1>7, <1>8, <1>9 DEF GraphTruthful, near

\* Every call graph that is answered says what it left out: with no reason it is
\* closed, complete within its depth it holds exactly the methods and the sites
\* within it, a method called expanded has all its sites, distances are shortest,
\* no site comes twice, and the budgets are kept (call_graph.py, native_graph.py).
THEOREM GraphsTruthful == Spec => []GraphTruthful
<1>1. WalksInv => GraphTruthful
  <2> HAVE WalksInv
  <2>1. CASE graph.ended = FALSE
      BY <2>1 DEF GraphTruthful
  <2>2. CASE stage = "walking"
    <3>1. graph.ended = FALSE
        BY <2>2, WalkingOpen DEF WalksInv
    <3> QED BY <3>1 DEF GraphTruthful
  <2>3. CASE Ends(graph, Input, query)
      BY <2>3, TruthOfEnds
  <2> QED BY <2>1, <2>2, <2>3 DEF WalksInv, Stages
<1> QED BY <1>1, WalksInvariant, PTL

-----------------------------------------------------------------------------
(***************************************************************************)
(* Pages: each is a part of the listing, and says where the rest starts.   *)
(***************************************************************************)

\* An answer has four parts; a page from an offset holds the rows up to another one,
\* where the next page starts.
Shaped(answer) ==
    answer = [status |-> answer.status, items |-> answer.items, total |-> answer.total, next |-> answer.next]

Through(answer, rows, o, end) ==
    /\ answer.items = SubSeq(rows, o + 1, end) /\ answer.total = Len(rows)
    /\ answer.next = None => end = Len(rows)
    /\ answer.next # None => answer.next = end /\ o < end /\ end < Len(rows)

PartOf(answer, rows, o) ==
    /\ Shaped(answer)
    /\ answer.status = "ok" => \E end \in o..Len(rows) : Through(answer, rows, o, end)

\* None is no offset.
LEMMA NoneApart == None \notin Nat
    BY DataAssumption

\* page_result and the pages that count their items.
LEMMA PagedPart ==
    ASSUME NEW R, IsSequence(R), NEW o \in 0..Len(R), NEW n \in Limits
    PROVE  /\ PartOf(PageResult(Listed(R, o, n), o, n), R, o)
           /\ PartOf(CountedPage(Listed(R, o, n), o), R, o)
           /\ PageResult(Listed(R, o, n), o, n).status = "ok"
           /\ CountedPage(Listed(R, o, n), o).status = "ok"
<1>1. PICK e \in o..Len(R) :
        /\ Window(R, o, n) = SubSeq(R, o + 1, e) /\ Len(Window(R, o, n)) = e - o
        /\ e < Len(R) => e = o + n
    BY WindowIs
<1>2. Len(R) \in Nat /\ o \in Nat /\ n \in Nat \ {0} /\ e \in Nat
    BY SequenceParts DEF Limits
<1>3. PICK w : w = Window(R, o, n)
    OBVIOUS
<1>4. Listed(R, o, n) = [status |-> "ok", items |-> w, total |-> Len(R), next |-> None]
    BY <1>3 DEF Listed, Answer
<1>5. o + Len(w) = e
    BY <1>1, <1>2, <1>3
<1>6. PageResult(Listed(R, o, n), o, n)
        = [status |-> "ok", items |-> w, total |-> Len(R), next |-> IF e < Len(R) THEN o + n ELSE None]
    BY <1>4, <1>5 DEF PageResult
<1>7. CountedPage(Listed(R, o, n), o)
        = [status |-> "ok", items |-> w, total |-> Len(R), next |-> IF e < Len(R) THEN e ELSE None]
    BY <1>4, <1>5 DEF CountedPage
<1>8. e < Len(R) => o + n = e /\ e # None /\ o < e
    BY <1>1, <1>2, NoneApart
<1>9. ~(e < Len(R)) => e = Len(R)
    BY <1>2
<1>10. ASSUME NEW x,
              x = [status |-> "ok", items |-> w, total |-> Len(R), next |-> IF e < Len(R) THEN e ELSE None]
       PROVE  PartOf(x, R, o)
  <2>1. Through(x, R, o, e)
      BY <1>1, <1>3, <1>8, <1>9, <1>10 DEF Through
  <2>2. Shaped(x)
      BY <1>10 DEF Shaped
  <2> QED BY <2>1, <2>2 DEF PartOf
<1>11. PageResult(Listed(R, o, n), o, n)
        = [status |-> "ok", items |-> w, total |-> Len(R), next |-> IF e < Len(R) THEN e ELSE None]
    BY <1>6, <1>8
<1> QED BY <1>7, <1>10, <1>11

\* A failure is part of any listing: it holds no page of it.
LEMMA FailedPart ==
    ASSUME NEW code, code # "ok"
    PROVE  /\ Failure(code).status = code /\ Shaped(Failure(code))
           /\ \A R, o : PartOf(Failure(code), R, o)
BY DEF Failure, Shaped, PartOf

\* A response holds Room rows: a reference page keeps those.
LEMMA ReferencePart ==
    ASSUME NEW R, IsSequence(R), NEW o \in 0..Len(R), NEW answer, PartOf(answer, R, o)
    PROVE  PartOf(ReferencePage(answer, o), R, o) /\ ReferencePage(answer, o).status = answer.status
<1>1. CASE answer.status # "ok" \/ Len(answer.items) <= Room
    BY <1>1 DEF ReferencePage
<1>2. CASE answer.status = "ok" /\ ~(Len(answer.items) <= Room)
  <2>1. PICK e \in o..Len(R) : Through(answer, R, o, e)
      BY <1>2 DEF PartOf
  <2>2. PICK w : w = answer.items
      OBVIOUS
  <2>3. w = SubSeq(R, o + 1, e) /\ Len(w) = e - o
      BY <2>1, <2>2, SliceIs DEF Through
  <2>4. Room \in Nat \ {0} /\ Len(R) \in Nat
      BY SequenceParts, PagesAssumption DEF PagesAssumption
  <2>5. PICK c : c = o + Room
      OBVIOUS
  <2>6. Room \in 0..(e - o) /\ c \in o..Len(R) /\ o < c /\ c < Len(R) /\ c # None
      BY <1>2, <2>2, <2>3, <2>4, <2>5, NoneApart
  <2>7. SubSeq(w, 1, Room) = SubSeq(R, o + 1, c)
      BY <2>3, <2>5, <2>6, SliceStart
  <2>8. PICK x : x = [answer EXCEPT !.items = SubSeq(@, 1, Room), !.next = o + Room]
      OBVIOUS
  <2>a. PICK y : y = answer.next
      OBVIOUS
  <2>b. PICK v : v = SubSeq(w, 1, Room)
      OBVIOUS
  <2>9. answer = [status |-> "ok", items |-> w, total |-> Len(R), next |-> y]
      BY <1>2, <2>1, <2>2, <2>a DEF PartOf, Shaped, Through
  <2>c. x = [answer EXCEPT !.items = v, !.next = c]
      BY <2>2, <2>5, <2>8, <2>b
  <2>d. x = [status |-> "ok", items |-> v, total |-> Len(R), next |-> c]
      BY <2>9, <2>c
  <2>10. x = [status |-> "ok", items |-> SubSeq(w, 1, Room), total |-> Len(R), next |-> c]
      BY <2>b, <2>d
  <2>11. Through(x, R, o, c) /\ Shaped(x) /\ x.status = "ok"
      BY <2>6, <2>7, <2>10 DEF Through, Shaped
  <2>12. PartOf(x, R, o)
      BY <2>6, <2>11 DEF PartOf
  <2>13. ReferencePage(answer, o) = x
      BY <1>2, <2>8 DEF ReferencePage
  <2> QED BY <1>2, <2>11, <2>12, <2>13
<1> QED BY <1>1, <1>2

\* Another page that exceeds the response is refused.
LEMMA FittedPart ==
    ASSUME NEW R, IsSequence(R), NEW o \in 0..Len(R), NEW q, NEW answer, PartOf(answer, R, o)
    PROVE  /\ PartOf(Fitted(q, answer, o), R, o)
           /\ SelectedQuery(q) => Fitted(q, answer, o).status = answer.status
<1>1. CASE ~SelectedQuery(q)
    BY <1>1, FailedPart DEF Fitted
<1>2. CASE SelectedQuery(q)
    BY <1>2, ReferencePart DEF Fitted
<1> QED BY <1>1, <1>2

\* Lines are cut to the response as they are read.
LEMMA LinePart ==
    ASSUME NEW R, IsSequence(R), NEW o \in 0..Len(R), NEW n \in Limits
    PROVE  PartOf(LinePage(R, o, n), R, o)
<1>1. Least(n, Room) \in Limits
    BY PagesAssumption DEF PagesAssumption, Limits, Least
<1> QED BY <1>1, PagedPart DEF LinePage

\* A sorted page is the page of the sorted listing, or exceeds the budget.
LEMMA SortedPart ==
    ASSUME NEW rows, IsSequence(rows), NEW key, NEW o \in 0..Len(rows), NEW n \in Limits
    PROVE  /\ PartOf(PageResult(SortedPage(rows, o, n, key), o, n), Sorted(rows, key), o)
           /\ SortedPage(rows, o, n, key).status # "page_exceeds_budget"
                => SortedPage(rows, o, n, key) = Listed(Sorted(rows, key), o, n)
<1>1. PICK s : s = Sorted(rows, key)
    OBVIOUS
<1>2. IsSequence(s) /\ Len(s) = Len(rows)
    BY <1>1, SortedSequence
<1>3. n \in Nat \ {0} /\ o \in Nat /\ o + n \in Nat /\ rows \in Seq(ToSet(rows))
    BY SequenceParts DEF Limits
<1>4. Heap(rows, o + n, key) = First(s, o + n)
    BY <1>1, <1>3, HeapFirst
<1>5. Answer(Window(First(s, o + n), o, n), Len(rows)) = Listed(s, o, n)
    BY <1>2, FirstWindow DEF Listed
<1>6. PartOf(PageResult(Listed(s, o, n), o, n), s, o) /\ Listed(s, o, n).status = "ok"
    BY <1>2, PagedPart DEF Listed, Answer
<1>7. PageResult(Failure("page_exceeds_budget"), o, n) = Failure("page_exceeds_budget")
    BY FailedPart DEF PageResult
<1>8. \/ SortedPage(rows, o, n, key) = Failure("page_exceeds_budget")
      \/ SortedPage(rows, o, n, key) = Listed(s, o, n)
    BY <1>1, <1>4, <1>5 DEF SortedPage
<1>9. Failure("page_exceeds_budget").status = "page_exceeds_budget"
    BY DEF Failure
<1>10. PartOf(Failure("page_exceeds_budget"), s, o)
    BY FailedPart
<1> QED BY <1>1, <1>6, <1>7, <1>8, <1>9, <1>10

-----------------------------------------------------------------------------
(***************************************************************************)
(* A program as lists: of classes, of methods, of instructions, of edges.  *)
(***************************************************************************)

\* What a program consists of.
Sound(c) == Readable(c) /\ NamedWell(c)

SoundInput(input) ==
    ReadableInput(input) /\ \A i \in DOMAIN input : \A j \in DOMAIN input[i].classes : Sound(input[i].classes[j])

\* The classes of a file, sorted, are those of the file.
LEMMA ClassesListed ==
    ASSUME NEW dex, IsSequence(dex.classes)
    PROVE  IsSequence(Classes(dex)) /\ ToSet(Classes(dex)) = ToSet(dex.classes) /\ Len(Classes(dex)) = Len(dex.classes)
BY SortedSequence DEF Classes, SortedBy

\* So are the members of a class.
LEMMA MembersListed ==
    ASSUME NEW c, Readable(c)
    PROVE  /\ IsSequence(Fields(c)) /\ ToSet(Fields(c)) = ToSet(c.fields) /\ Len(Fields(c)) = Len(c.fields)
           /\ IsSequence(Methods(c)) /\ ToSet(Methods(c)) = ToSet(c.methods) /\ Len(Methods(c)) = Len(c.methods)
           /\ IsSequence(OrderedMethods(c)) /\ ToSet(OrderedMethods(c)) = ToSet(c.methods)
<1>1. IsSequence(c.fields) /\ IsSequence(c.methods)
    BY DEF Readable
<1> QED BY <1>1, SortedSequence DEF Fields, Methods, OrderedMethods, SortedBy

\* A class by its place, and by being one of the list.
LEMMA SoundClass ==
    ASSUME NEW input, SoundInput(input), NEW i \in DOMAIN input, NEW c \in ToSet(input[i].classes)
    PROVE  Sound(c)
<1>1. IsSequence(input[i].classes)
    BY DEF SoundInput, ReadableInput
<1>2. PICK j \in DOMAIN input[i].classes : c = input[i].classes[j]
    BY <1>1, SequenceParts
<1> QED BY <1>2 DEF SoundInput

\* The instructions of a method name it and its file.
LEMMA InstructionsListed ==
    ASSUME NEW c, Readable(c), NEW dex, NEW m \in ToSet(c.methods)
    PROVE  /\ IsSequence(Instructions(dex, m))
           /\ \A x \in ToSet(Instructions(dex, m)) :
                x.caller = m.id /\ x.entry = dex.entry
<1>1. IsSequence(c.methods)
    BY DEF Readable
<1>2. PICK i \in DOMAIN c.methods : m = c.methods[i]
    BY <1>1, SequenceParts
<1>3. CASE m.code = None
    BY <1>3, ShortSequences DEF Instructions
<1>4. CASE m.code # None
  <2>1. IsSequence(m.code)
      BY <1>2, <1>4 DEF Readable
  <2>2. PICK t : t = Instructions(dex, m)
      OBVIOUS
  <2>3. t = [k \in DOMAIN m.code |-> [caller |-> m.id, entry |-> dex.entry, at |-> k,
                                      op |-> m.code[k].op, arg |-> m.code[k].arg]]
      BY <1>4, <2>2 DEF Instructions
  <2>4. t = [k \in DOMAIN m.code |-> t[k]]
      BY <2>3
  <2>5. IsSequence(t) /\ DOMAIN m.code = 1..Len(m.code) /\ ToSet(t) = {t[k] : k \in 1..Len(m.code)}
      BY <2>1, <2>4, MadeSequence, SequenceParts
  <2>6. \A k \in 1..Len(m.code) : t[k].caller = m.id /\ t[k].entry = dex.entry
      BY <2>3, <2>5
  <2> QED BY <2>2, <2>5, <2>6
<1> QED BY <1>3, <1>4

\* Edges of types.
LEMMA TypesListed ==
    ASSUME NEW types, IsSequence(types), NEW source, NEW relation, NEW entry, NEW at
    PROVE  /\ IsSequence(TypeEdges(source, types, relation, entry, at))
           /\ \A e \in ToSet(TypeEdges(source, types, relation, entry, at)) : e.kind = "type"
<1>1. PICK named : named = Where(types, LAMBDA t : t # "V")
    OBVIOUS
<1>2. IsSequence(named)
    BY <1>1, OnlySequence DEF Where
<1>3. PICK t : t = TypeEdges(source, types, relation, entry, at)
    OBVIOUS
<1>4. t = [i \in DOMAIN named |-> Edge("type", source, named[i], relation, entry, at)]
    BY <1>1, <1>3 DEF TypeEdges
<1>5. IsSequence(t) /\ DOMAIN t = 1..Len(named) /\ ToSet(t) = {t[i] : i \in 1..Len(named)}
  <2>1. t = [i \in DOMAIN named |-> t[i]]
      BY <1>4
  <2> QED BY <1>2, <2>1, MadeSequence
<1>6. \A i \in 1..Len(named) : t[i].kind = "type"
    BY <1>4, <1>5 DEF Edge
<1> QED BY <1>3, <1>5, <1>6

-----------------------------------------------------------------------------
(***************************************************************************)
(* An index lists what a scan lists: the edges of a program, without those *)
(* of types, are its sites of calls or of accesses, in the same order.     *)
(***************************************************************************)

Pointed(q) == q.operation \in {"find_method_refs", "get_method_calls", "find_field_refs"}

\* What a scan and what an index select.
Sought(q, site) ==
    IF q.operation = "get_method_calls" THEN site.caller = q.method_descriptor /\ site.op \in MethodOps
    ELSE Incoming(q, site)

SoughtEdge(q, e) ==
    /\ e.kind = KindOf(q)
    /\ (IF q.operation = "get_method_calls" THEN e.caller ELSE e.target) = AskedOf(q)
    /\ RelationOf(q) \in {"all", e.relation}

\* The rows that are made of them.
SiteRows(im, q, input, S) ==
    \A x \in S : (x \in DOMAIN im <=> Sought(q, x)) /\ (Sought(q, x) => im[x] = Resolved(input, x))

EdgeRows(jm, q, input, S) ==
    \A e \in S : (e \in DOMAIN jm <=> SoughtEdge(q, e)) /\ (SoughtEdge(q, e) => jm[e] = IndexRow(input, e))

\* Lists of edges of types, of which nothing is selected.
Typely(s) == IsSequence(s) /\ \A e \in ToSet(s) : e.kind = "type"

\* One after the other.
LEMMA TypelyJoined ==
    ASSUME NEW s, Typely(s), NEW t, Typely(t)
    PROVE  Typely(s \o t)
BY ConcatSequence DEF Typely

\* They have no rows.
LEMMA NoTypesSought ==
    ASSUME NEW q, Pointed(q), NEW input, NEW jm, NEW s, Typely(s), EdgeRows(jm, q, input, ToSet(s))
    PROVE  Image(s, jm) = <<>>
<1>1. KindOf(q) # "type"
    BY DEF Pointed, KindOf
<1>2. ToSet(s) \cap DOMAIN jm = {}
    BY <1>1 DEF EdgeRows, SoughtEdge, Typely
<1> QED BY <1>2, ImageEmpty DEF Typely

\* The types that an instruction names.
NamedTypes(site) ==
    IF site.arg \in DOMAIN Member THEN <<Member[site.arg].owner>> \o Member[site.arg].types ELSE <<site.arg>>

TypesAt(site) == TypeEdges(site.caller, NamedTypes(site), "instruction", site.entry, site.at)

\* They are a list.
LEMMA NamedTypesListed == \A site : IsSequence(NamedTypes(site))
<1> TAKE site
<1>1. CASE site.arg \in DOMAIN Member
  <2>1. IsSequence(Member[site.arg].types)
      BY <1>1, DataAssumption
  <2> QED BY <1>1, <2>1, ShortSequences, ConcatSequence DEF NamedTypes
<1>2. CASE site.arg \notin DOMAIN Member
    BY <1>2, ShortSequences DEF NamedTypes
<1> QED BY <1>1, <1>2

MethodEdge(x) == Edge("method", x.caller, x.arg, "instruction", x.entry, x.at)
FieldEdge(x) == Edge("field", x.caller, x.arg, x.op, x.entry, x.at)

\* The edges of an instruction: one of its member, if it names one, and those of its types.
LEMMA InstructionEdgesAre ==
    ASSUME NEW x
    PROVE  /\ x.op \in MethodOps => InstructionEdges(x, FALSE) = <<MethodEdge(x)>> \o TypesAt(x)
           /\ x.op \in FieldOps => InstructionEdges(x, FALSE) = <<FieldEdge(x)>> \o TypesAt(x)
           /\ x.op = TypeOp => InstructionEdges(x, FALSE) = TypesAt(x)
           /\ x.op \notin MethodOps \cup FieldOps \cup {TypeOp} => InstructionEdges(x, FALSE) = <<>>
<1>1. MethodOps \cap FieldOps = {} /\ TypeOp \notin MethodOps \cup FieldOps
    BY DEF MethodOps, FieldOps, TypeOp
<1> QED BY <1>1 DEF InstructionEdges, MethodEdge, FieldEdge, TypesAt, NamedTypes

\* They are a list.
LEMMA InstructionEdgesListed == \A x : IsSequence(InstructionEdges(x, FALSE))
<1> TAKE x
<1>1. IsSequence(TypesAt(x)) /\ Typely(TypesAt(x))
    BY NamedTypesListed, TypesListed DEF TypesAt, Typely
<1>2. IsSequence(<<MethodEdge(x)>>) /\ IsSequence(<<FieldEdge(x)>>) /\ IsSequence(<<>>)
    BY ShortSequences
<1>3. IsSequence(<<MethodEdge(x)>> \o TypesAt(x)) /\ IsSequence(<<FieldEdge(x)>> \o TypesAt(x))
    BY <1>1, <1>2, ConcatSequence
<1> QED BY <1>1, <1>2, <1>3, InstructionEdgesAre

\* The edge of a member is sought where the site is.
LEMMA SoughtAlike ==
    ASSUME NEW q, Pointed(q), NEW x, NEW input
    PROVE  /\ x.op \in MethodOps => (Sought(q, x) <=> SoughtEdge(q, MethodEdge(x)))
           /\ x.op \in FieldOps => (Sought(q, x) <=> SoughtEdge(q, FieldEdge(x)))
           /\ x.op \notin MethodOps \cup FieldOps => ~Sought(q, x)
           /\ Resolved(input, x) = IndexRow(input, MethodEdge(x))
           /\ Resolved(input, x) = IndexRow(input, FieldEdge(x))
<1>1. Resolved(input, x) = IndexRow(input, MethodEdge(x)) /\ Resolved(input, x) = IndexRow(input, FieldEdge(x))
    BY DEF Resolved, IndexRow, MethodEdge, FieldEdge, Edge
<1>2. CASE q.operation = "get_method_calls"
  <2>1. KindOf(q) = "method" /\ AskedOf(q) = q.method_descriptor /\ RelationOf(q) = "all"
      BY <1>2 DEF KindOf, AskedOf, RelationOf
  <2> QED BY <1>1, <1>2, <2>1 DEF Sought, SoughtEdge, MethodEdge, FieldEdge, Edge, MethodOps, FieldOps
<1>3. CASE q.operation = "find_method_refs"
  <2>1. KindOf(q) = "method" /\ AskedOf(q) = q.method_descriptor /\ RelationOf(q) = "all" /\ ~AsksFields(q)
      BY <1>3 DEF KindOf, AskedOf, RelationOf, AsksFields
  <2>2. Sought(q, x) <=> x.op \in MethodOps /\ x.arg = q.method_descriptor
      BY <1>3, <2>1 DEF Sought, Incoming, Targeted, Accessed
  <2> QED BY <1>1, <1>3, <2>1, <2>2 DEF SoughtEdge, MethodEdge, FieldEdge, Edge, MethodOps, FieldOps
<1>4. CASE q.operation = "find_field_refs"
  <2>1. /\ KindOf(q) = "field" /\ AskedOf(q) = q.field_descriptor /\ AsksFields(q)
        /\ RelationOf(q) = Get(q, "field_access", "all")
      BY <1>4 DEF KindOf, AskedOf, RelationOf, AsksFields
  <2>2. Sought(q, x) <=> /\ x.op \in FieldOps /\ x.arg = q.field_descriptor
                         /\ Get(q, "field_access", "all") \in {"all", x.op}
      BY <1>4, <2>1 DEF Sought, Incoming, Targeted, Accessed
  <2> QED BY <1>1, <1>4, <2>1, <2>2 DEF SoughtEdge, MethodEdge, FieldEdge, Edge, MethodOps, FieldOps
<1> QED BY <1>2, <1>3, <1>4 DEF Pointed

\* Its edges have the rows of the site.
LEMMA InstructionAlike ==
    ASSUME NEW q, Pointed(q), NEW input, NEW x, NEW im, SiteRows(im, q, input, {x}),
           NEW jm, EdgeRows(jm, q, input, ToSet(InstructionEdges(x, FALSE)))
    PROVE  ImagedAlike(<<x>>, im, InstructionEdges(x, FALSE), jm)
<1> USE DEF ImagedAlike
<1>1. IsSequence(TypesAt(x)) /\ Typely(TypesAt(x))
    BY NamedTypesListed, TypesListed DEF TypesAt, Typely
<1>2. ASSUME ToSet(TypesAt(x)) \subseteq ToSet(InstructionEdges(x, FALSE))
      PROVE  Image(TypesAt(x), jm) = <<>>
  <2>1. EdgeRows(jm, q, input, ToSet(TypesAt(x)))
      BY <1>2 DEF EdgeRows
  <2> QED BY <1>1, <2>1, NoTypesSought
<1>3. (x \in DOMAIN im <=> Sought(q, x)) /\ (Sought(q, x) => im[x] = Resolved(input, x))
    BY DEF SiteRows
<1>4. ASSUME NEW e, InstructionEdges(x, FALSE) = <<e>> \o TypesAt(x), Sought(q, x) <=> SoughtEdge(q, e),
             Resolved(input, x) = IndexRow(input, e)
      PROVE  Image(<<x>>, im) = Image(InstructionEdges(x, FALSE), jm)
  <2>1. IsSequence(<<e>>) /\ ToSet(<<e>>) = {e}
      BY ShortSequences
  <2>2. ToSet(InstructionEdges(x, FALSE)) = {e} \cup ToSet(TypesAt(x))
      BY <1>1, <1>4, <2>1, ConcatSequence
  <2>3. Image(TypesAt(x), jm) = <<>>
      BY <1>2, <2>2
  <2>a. Image(<<e>> \o TypesAt(x), jm) = Image(<<e>>, jm) \o Image(TypesAt(x), jm)
    <3>1. PICK u, v : u = <<e>> /\ v = TypesAt(x)
        OBVIOUS
    <3>2. IsSequence(u) /\ IsSequence(v)
        BY <1>1, <2>1, <3>1
    <3>3. Image(u \o v, jm) = Image(u, jm) \o Image(v, jm)
        BY <3>2, ImageConcat
    <3> QED BY <3>1, <3>3
  <2>4. Image(InstructionEdges(x, FALSE), jm) = Image(<<e>>, jm) \o <<>>
      BY <1>4, <2>3, <2>a
  <2>5. (e \in DOMAIN jm <=> SoughtEdge(q, e)) /\ (SoughtEdge(q, e) => jm[e] = IndexRow(input, e))
      BY <2>2 DEF EdgeRows
  <2>6. CASE Sought(q, x)
    <3>1. Image(<<x>>, im) = <<im[x]>> /\ Image(<<e>>, jm) = <<jm[e]>>
        BY <1>3, <1>4, <2>5, <2>6, ImageOne
    <3>2. im[x] = jm[e]
        BY <1>3, <1>4, <2>5, <2>6
    <3>3. <<jm[e]>> \o <<>> = <<jm[e]>>
        OBVIOUS
    <3> QED BY <2>4, <3>1, <3>2, <3>3
  <2>7. CASE ~Sought(q, x)
    <3>1. Image(<<x>>, im) = <<>> /\ Image(<<e>>, jm) = <<>>
        BY <1>3, <1>4, <2>5, <2>7, ImageOne
    <3>2. <<>> \o <<>> = <<>>
        OBVIOUS
    <3> QED BY <2>4, <3>1, <3>2
  <2> QED BY <2>6, <2>7
<1>5. CASE x.op \in MethodOps
  <2>1. InstructionEdges(x, FALSE) = <<MethodEdge(x)>> \o TypesAt(x)
      BY <1>5, InstructionEdgesAre
  <2>2. Sought(q, x) <=> SoughtEdge(q, MethodEdge(x))
      BY <1>5, SoughtAlike
  <2>3. Resolved(input, x) = IndexRow(input, MethodEdge(x))
      BY SoughtAlike
  <2> QED BY <1>4, <2>1, <2>2, <2>3
<1>6. CASE x.op \in FieldOps
  <2>1. InstructionEdges(x, FALSE) = <<FieldEdge(x)>> \o TypesAt(x)
      BY <1>6, InstructionEdgesAre
  <2>2. Sought(q, x) <=> SoughtEdge(q, FieldEdge(x))
      BY <1>6, SoughtAlike
  <2>3. Resolved(input, x) = IndexRow(input, FieldEdge(x))
      BY SoughtAlike
  <2> QED BY <1>4, <2>1, <2>2, <2>3
<1>7. CASE x.op \notin MethodOps \cup FieldOps
  <2>1. ~Sought(q, x)
      BY <1>7, SoughtAlike
  <2>2. Image(<<x>>, im) = <<>>
      BY <1>3, <2>1, ImageOne
  <2>3. InstructionEdges(x, FALSE) = TypesAt(x) \/ InstructionEdges(x, FALSE) = <<>>
      BY <1>7, InstructionEdgesAre
  <2> QED BY <1>2, <2>2, <2>3, ImageNone
<1> QED BY <1>5, <1>6, <1>7

\* The order of full descriptors is that of the methods in a file.
LEMMA MethodsOrdered ==
    ASSUME NEW c, Sound(c)
    PROVE  OrderedMethods(c) = Methods(c)
<1>1. PICK E : E = ToSet(c.methods)
    OBVIOUS
<1>2. c.methods \in Seq(E)
    BY <1>1 DEF Sound, Readable, IsSequence
<1>3. PICK key : key = [m \in E |-> <<Opened[Member[m.id].name], Units[Member[m.id].proto]>>]
    OBVIOUS
<1>4. PICK other : other = [m \in E |-> <<Units[m.id], 0>>]
    OBVIOUS
<1>5. ASSUME NEW x \in E, NEW y \in E
      PROVE  Precedes(key[x], key[y]) <=> Precedes(other[x], other[y])
  <2>1. x.id \in MethodsOf(c) /\ y.id \in MethodsOf(c)
      BY <1>1, <1>2, SequenceParts DEF MethodsOf, IsSequence
  <2>2. Units[x.id] < Units[y.id] <=>
            Precedes(<<Opened[Member[x.id].name], Units[Member[x.id].proto]>>,
                     <<Opened[Member[y.id].name], Units[Member[y.id].proto]>>)
      BY <2>1 DEF Sound, NamedWell
  <2>3. Precedes(other[x], other[y]) <=> Units[x.id] < Units[y.id]
      BY <1>4 DEF Precedes
  <2> QED BY <1>3, <2>2, <2>3
<1>6. OrderAlike(key, other, E)
    BY <1>5 DEF OrderAlike
<1>7. Sorted(c.methods, key) = Sorted(c.methods, other)
    BY <1>2, <1>6, SortedSame
<1> QED BY <1>1, <1>3, <1>4, <1>7 DEF OrderedMethods, Methods, SortedBy

\* The parts of the two lists, from an instruction up to the whole input.
DeclaredAt(dex, m) ==
    TypeEdges(m.id, Member[m.id].types, "declaration", dex.entry, None)
        \o TypeEdges(m.id, m.catches, "instruction", dex.entry, 0)

EdgesAt(dex, m) == [i \in DOMAIN Instructions(dex, m) |-> InstructionEdges(Instructions(dex, m)[i], FALSE)]
SitesByMethod(dex, c) == [k \in DOMAIN Methods(c) |-> Instructions(dex, Methods(c)[k])]
EdgesByMethod(dex, c) == [k \in DOMAIN Methods(c) |-> MethodEdges(dex, Methods(c)[k], FALSE)]
SitesIn(dex, c) == FlattenSeq(SitesByMethod(dex, c))
EdgesIn(dex, c) == ClassEdges(dex, c) \o FlattenSeq(EdgesByMethod(dex, c))
SitesByClass(dex) == [j \in DOMAIN Classes(dex) |-> SitesIn(dex, Classes(dex)[j])]
EdgesByClass(dex) == [j \in DOMAIN Classes(dex) |-> EdgesIn(dex, Classes(dex)[j])]
SitesOf(dex) == FlattenSeq(SitesByClass(dex))
EdgesOf(dex) == FlattenSeq(EdgesByClass(dex))
SitesByFile(input) == [i \in DOMAIN input |-> SitesOf(input[i])]
EdgesByFile(input) == [i \in DOMAIN input |-> EdgesOf(input[i])]

\* What a method declares are edges of types.
LEMMA DeclaredTypely ==
    ASSUME NEW c, Sound(c), NEW dex, NEW m \in ToSet(c.methods)
    PROVE  Typely(DeclaredAt(dex, m))
<1>1. IsSequence(c.methods)
    BY DEF Sound, Readable
<1>2. PICK i \in DOMAIN c.methods : m = c.methods[i]
    BY <1>1, SequenceParts
<1>3. IsSequence(m.catches)
    BY <1>2 DEF Sound, Readable
<1>4. m.id \in DOMAIN Member
    BY <1>2 DEF Sound, NamedWell, MethodsOf
<1>5. IsSequence(Member[m.id].types)
    BY <1>4, DataAssumption
<1>6. Typely(TypeEdges(m.id, Member[m.id].types, "declaration", dex.entry, None))
    BY <1>5, TypesListed DEF Typely
<1>7. Typely(TypeEdges(m.id, m.catches, "instruction", dex.entry, 0))
    BY <1>3, TypesListed DEF Typely
<1> QED BY <1>6, <1>7, TypelyJoined DEF DeclaredAt

\* The edges of a method: what it declares, then those of its instructions.
LEMMA MethodEdgesListed ==
    ASSUME NEW c, Sound(c), NEW dex, NEW m \in ToSet(c.methods)
    PROVE  /\ MethodEdges(dex, m, FALSE) = DeclaredAt(dex, m) \o FlattenSeq(EdgesAt(dex, m))
           /\ IsSequence(FlattenSeq(EdgesAt(dex, m))) /\ IsSequence(MethodEdges(dex, m, FALSE))
           /\ ToSet(MethodEdges(dex, m, FALSE)) = ToSet(DeclaredAt(dex, m)) \cup ToSet(FlattenSeq(EdgesAt(dex, m)))
           /\ Unites(ToSet(FlattenSeq(EdgesAt(dex, m))), EdgesAt(dex, m), Len(Instructions(dex, m)))
<1>1. PICK s : s = Instructions(dex, m)
    OBVIOUS
<1>2. IsSequence(s) /\ DOMAIN s = 1..Len(s)
    BY <1>1, InstructionsListed, SequenceParts DEF Sound
<1>3. PICK t : t = EdgesAt(dex, m)
    OBVIOUS
<1>4. t = [i \in DOMAIN s |-> InstructionEdges(s[i], FALSE)]
    BY <1>1, <1>3 DEF EdgesAt
<1>5. Yields(t, s)
    BY <1>2, <1>4, InstructionEdgesListed DEF Yields
<1>6. IsSequence(FlattenSeq(t)) /\ Unites(ToSet(FlattenSeq(t)), t, Len(s))
    BY <1>2, <1>5, EachSequence
<1>7. MethodEdges(dex, m, FALSE) = DeclaredAt(dex, m) \o FlattenSeq(t)
    BY <1>1, <1>4 DEF MethodEdges, DeclaredAt, Each
<1>8. IsSequence(DeclaredAt(dex, m))
    BY DeclaredTypely DEF Typely
<1>9. /\ IsSequence(DeclaredAt(dex, m) \o FlattenSeq(t))
      /\ ToSet(DeclaredAt(dex, m) \o FlattenSeq(t)) = ToSet(DeclaredAt(dex, m)) \cup ToSet(FlattenSeq(t))
    BY <1>6, <1>8, ConcatSequence
<1> QED BY <1>1, <1>3, <1>6, <1>7, <1>9

\* They have the rows of its sites.
LEMMA MethodAlike ==
    ASSUME NEW q, Pointed(q), NEW input, NEW c, Sound(c), NEW dex, NEW m \in ToSet(c.methods),
           NEW im, SiteRows(im, q, input, ToSet(Instructions(dex, m))),
           NEW jm, EdgeRows(jm, q, input, ToSet(MethodEdges(dex, m, FALSE)))
    PROVE  ImagedAlike(Instructions(dex, m), im, MethodEdges(dex, m, FALSE), jm)
<1>1. PICK s : s = Instructions(dex, m)
    OBVIOUS
<1>2. IsSequence(s) /\ DOMAIN s = 1..Len(s) /\ \A i \in 1..Len(s) : s[i] \in ToSet(s)
    BY <1>1, InstructionsListed, SequenceParts DEF Sound
<1>3. PICK t : t = EdgesAt(dex, m)
    OBVIOUS
<1>4. t = [i \in DOMAIN s |-> InstructionEdges(s[i], FALSE)]
    BY <1>1, <1>3 DEF EdgesAt
<1>5. PICK r : r = Singles(s)
    OBVIOUS
<1>6. r = [i \in DOMAIN s |-> <<s[i]>>]
    BY <1>5 DEF Singles
<1>7. Yields(t, s)
    BY <1>2, <1>4, InstructionEdgesListed DEF Yields
<1>8. Yields(r, s)
    BY <1>2, <1>6, ShortSequences DEF Yields
<1>9. \A i \in 1..Len(s) : Image(r[i], im) = Image(t[i], jm)
  <2> SUFFICES ASSUME NEW i \in 1..Len(s)
               PROVE  Image(r[i], im) = Image(t[i], jm)
      OBVIOUS
  <2>1. PICK x : x = s[i]
      OBVIOUS
  <2>2. x \in ToSet(s) /\ r[i] = <<x>> /\ t[i] = InstructionEdges(x, FALSE)
      BY <1>2, <1>4, <1>6, <2>1
  <2>3. SiteRows(im, q, input, {x})
      BY <1>1, <2>2 DEF SiteRows
  <2>a. Unites(ToSet(FlattenSeq(t)), t, Len(s))
      BY <1>1, <1>3, MethodEdgesListed
  <2>b. ToSet(FlattenSeq(t)) \subseteq ToSet(MethodEdges(dex, m, FALSE))
      BY <1>3, MethodEdgesListed
  <2>4. ToSet(t[i]) \subseteq ToSet(MethodEdges(dex, m, FALSE))
      BY <2>a, <2>b DEF Unites
  <2>5. EdgeRows(jm, q, input, ToSet(InstructionEdges(x, FALSE)))
      BY <2>2, <2>4 DEF EdgeRows
  <2>6. ImagedAlike(<<x>>, im, InstructionEdges(x, FALSE), jm)
      BY <2>3, <2>5, InstructionAlike
  <2> QED BY <2>2, <2>6 DEF ImagedAlike
<1>10. Image(FlattenSeq(r), im) = Image(FlattenSeq(t), jm)
  <2>1. AlikeImages(r, im, t, jm, Len(s))
      BY <1>9 DEF AlikeImages
  <2> QED BY <1>2, <1>7, <1>8, <2>1, EachImages
<1>11. FlattenSeq(r) = s
    BY <1>2, <1>5, SinglesFlat
<1>12. Image(DeclaredAt(dex, m), jm) = <<>>
  <2>1. EdgeRows(jm, q, input, ToSet(DeclaredAt(dex, m)))
      BY MethodEdgesListed DEF EdgeRows
  <2> QED BY <2>1, DeclaredTypely, NoTypesSought
<1>13. Image(DeclaredAt(dex, m) \o FlattenSeq(t), jm) = Image(DeclaredAt(dex, m), jm) \o Image(FlattenSeq(t), jm)
  <2>1. IsSequence(DeclaredAt(dex, m)) /\ IsSequence(FlattenSeq(t))
      BY <1>3, DeclaredTypely, MethodEdgesListed DEF Typely
  <2> QED BY <2>1, ImageConcat
<1>14. \A y : IsSequence(y) => <<>> \o y = y
    BY DEF IsSequence
<1>15. IsSequence(Image(FlattenSeq(t), jm))
    BY <1>3, MethodEdgesListed, ImageSequence
<1>16. <<>> \o Image(FlattenSeq(t), jm) = Image(FlattenSeq(t), jm)
    BY <1>14, <1>15
<1> QED BY <1>1, <1>3, <1>10, <1>11, <1>12, <1>13, <1>16, MethodEdgesListed DEF ImagedAlike

\* What a class declares are edges of types.
LEMMA ClassTypely ==
    ASSUME NEW c, Sound(c), NEW dex
    PROVE  Typely(ClassEdges(dex, c))
<1>1. PICK supers : supers = (IF c.super = None THEN <<>> ELSE <<c.super>>) \o c.interfaces
    OBVIOUS
<1>2. IsSequence(c.interfaces) /\ IsSequence(c.annotations)
    BY DEF Sound, Readable
<1>3. IsSequence(supers)
  <2>1. PICK first : first = IF c.super = None THEN <<>> ELSE <<c.super>>
      OBVIOUS
  <2>2. IsSequence(first)
      BY <2>1, ShortSequences
  <2> QED BY <1>1, <1>2, <2>1, <2>2, ConcatSequence
<1>4. PICK inherited : inherited = TypeEdges(c.name, supers, "declaration", dex.entry, None)
    OBVIOUS
<1>5. PICK annotated : annotated = TypeEdges(c.name, c.annotations, "annotation", dex.entry, None)
    OBVIOUS
<1>6. PICK s : s = Fields(c)
    OBVIOUS
<1>7. IsSequence(s) /\ DOMAIN s = 1..Len(s) /\ \A i \in 1..Len(s) : s[i] \in ToSet(c.fields)
    BY <1>6, MembersListed, SequenceParts DEF Sound
<1>8. PICK t : t = [i \in DOMAIN s |-> TypeEdges(s[i], Member[s[i]].types, "declaration", dex.entry, None)]
    OBVIOUS
<1>9. \A i \in 1..Len(s) : Typely(t[i])
  <2> SUFFICES ASSUME NEW i \in 1..Len(s)
               PROVE  Typely(t[i])
      OBVIOUS
  <2>1. PICK d : d = s[i]
      OBVIOUS
  <2>2. d \in DOMAIN Member
      BY <1>7, <2>1 DEF Sound, NamedWell
  <2>3. IsSequence(Member[d].types)
      BY <2>2, DataAssumption
  <2>4. Typely(TypeEdges(d, Member[d].types, "declaration", dex.entry, None))
      BY <2>3, TypesListed DEF Typely
  <2> QED BY <1>7, <1>8, <2>1, <2>4
<1>10. Yields(t, s)
    BY <1>8, <1>9 DEF Yields, Typely
<1>11. IsSequence(FlattenSeq(t)) /\ Unites(ToSet(FlattenSeq(t)), t, Len(s))
    BY <1>7, <1>10, EachSequence
<1>12. Typely(FlattenSeq(t))
    BY <1>9, <1>11 DEF Unites, Typely
<1>13. Typely(inherited) /\ Typely(annotated)
    BY <1>2, <1>3, <1>4, <1>5, TypesListed DEF Typely
<1>14. Typely(inherited \o annotated)
    BY <1>13, TypelyJoined
<1>15. Typely((inherited \o annotated) \o FlattenSeq(t))
    BY <1>12, <1>14, TypelyJoined
<1>16. ClassEdges(dex, c) = (inherited \o annotated) \o FlattenSeq(t)
    BY <1>1, <1>4, <1>5, <1>6, <1>8 DEF ClassEdges, Each
<1> QED BY <1>15, <1>16

\* Its sites and edges are those of its methods.
LEMMA ClassListed ==
    ASSUME NEW c, Sound(c), NEW dex
    PROVE  /\ Yields(SitesByMethod(dex, c), Methods(c)) /\ Yields(EdgesByMethod(dex, c), Methods(c))
           /\ IsSequence(SitesIn(dex, c)) /\ Unites(ToSet(SitesIn(dex, c)), SitesByMethod(dex, c), Len(Methods(c)))
           /\ IsSequence(EdgesIn(dex, c)) /\ IsSequence(FlattenSeq(EdgesByMethod(dex, c)))
           /\ Unites(ToSet(FlattenSeq(EdgesByMethod(dex, c))), EdgesByMethod(dex, c), Len(Methods(c)))
           /\ ToSet(EdgesIn(dex, c)) = ToSet(ClassEdges(dex, c)) \cup ToSet(FlattenSeq(EdgesByMethod(dex, c)))
<1>1. PICK s : s = Methods(c)
    OBVIOUS
<1>2. IsSequence(s) /\ DOMAIN s = 1..Len(s) /\ \A i \in 1..Len(s) : s[i] \in ToSet(c.methods)
    BY <1>1, MembersListed, SequenceParts DEF Sound
<1>3. Yields(SitesByMethod(dex, c), s)
  <2>1. \A i \in 1..Len(s) : IsSequence(Instructions(dex, s[i]))
      BY <1>2, InstructionsListed DEF Sound
  <2> QED BY <1>1, <1>2, <2>1 DEF Yields, SitesByMethod
<1>4. Yields(EdgesByMethod(dex, c), s)
  <2>1. \A i \in 1..Len(s) : IsSequence(MethodEdges(dex, s[i], FALSE))
      BY <1>2, MethodEdgesListed
  <2> QED BY <1>1, <1>2, <2>1 DEF Yields, EdgesByMethod
<1>5. PICK u : u = FlattenSeq(EdgesByMethod(dex, c))
    OBVIOUS
<1>6. IsSequence(u) /\ Unites(ToSet(u), EdgesByMethod(dex, c), Len(s))
    BY <1>2, <1>4, <1>5, EachSequence
<1>7. IsSequence(ClassEdges(dex, c))
    BY ClassTypely DEF Typely
<1>8. IsSequence(SitesIn(dex, c)) /\ Unites(ToSet(SitesIn(dex, c)), SitesByMethod(dex, c), Len(s))
    BY <1>2, <1>3, EachSequence DEF SitesIn
<1>9. IsSequence(ClassEdges(dex, c) \o u) /\ ToSet(ClassEdges(dex, c) \o u) = ToSet(ClassEdges(dex, c)) \cup ToSet(u)
    BY <1>6, <1>7, ConcatSequence
<1>10. EdgesIn(dex, c) = ClassEdges(dex, c) \o u
    BY <1>5 DEF EdgesIn
<1> QED BY <1>1, <1>3, <1>4, <1>5, <1>6, <1>8, <1>9, <1>10

\* The edges of a class have the rows of its sites.
LEMMA ClassAlike ==
    ASSUME NEW q, Pointed(q), NEW input, NEW c, Sound(c), NEW dex,
           NEW im, SiteRows(im, q, input, ToSet(SitesIn(dex, c))),
           NEW jm, EdgeRows(jm, q, input, ToSet(EdgesIn(dex, c)))
    PROVE  ImagedAlike(SitesIn(dex, c), im, EdgesIn(dex, c), jm)
<1>1. PICK s : s = Methods(c)
    OBVIOUS
<1>2. IsSequence(s) /\ DOMAIN s = 1..Len(s) /\ \A i \in 1..Len(s) : s[i] \in ToSet(c.methods)
    BY <1>1, MembersListed, SequenceParts DEF Sound
<1>3. PICK t : t = SitesByMethod(dex, c)
    OBVIOUS
<1>4. PICK r : r = EdgesByMethod(dex, c)
    OBVIOUS
<1>5. \A k \in 1..Len(s) : t[k] = Instructions(dex, s[k]) /\ r[k] = MethodEdges(dex, s[k], FALSE)
    BY <1>1, <1>2, <1>3, <1>4 DEF SitesByMethod, EdgesByMethod
<1>6. Yields(t, s) /\ Yields(r, s) /\ Unites(ToSet(FlattenSeq(t)), t, Len(s)) /\ Unites(ToSet(FlattenSeq(r)), r, Len(s))
    BY <1>1, <1>3, <1>4, ClassListed DEF SitesIn
<1>7. ASSUME NEW k \in 1..Len(s)
      PROVE  Image(t[k], im) = Image(r[k], jm)
  <2>1. PICK m : m = s[k]
      OBVIOUS
  <2>2. m \in ToSet(c.methods) /\ t[k] = Instructions(dex, m) /\ r[k] = MethodEdges(dex, m, FALSE)
      BY <1>2, <1>5, <2>1
  <2>3. ToSet(t[k]) \subseteq ToSet(SitesIn(dex, c))
      BY <1>3, <1>6 DEF Unites, SitesIn
  <2>4. ToSet(r[k]) \subseteq ToSet(EdgesIn(dex, c))
    <3>1. ToSet(r[k]) \subseteq ToSet(FlattenSeq(r))
        BY <1>6 DEF Unites
    <3> QED BY <1>4, <3>1, ClassListed
  <2>5. SiteRows(im, q, input, ToSet(Instructions(dex, m)))
      BY <2>2, <2>3 DEF SiteRows
  <2>6. EdgeRows(jm, q, input, ToSet(MethodEdges(dex, m, FALSE)))
      BY <2>2, <2>4 DEF EdgeRows
  <2>7. ImagedAlike(Instructions(dex, m), im, MethodEdges(dex, m, FALSE), jm)
      BY <2>2, <2>5, <2>6, MethodAlike
  <2> QED BY <2>2, <2>7 DEF ImagedAlike
<1>8. Image(FlattenSeq(t), im) = Image(FlattenSeq(r), jm)
  <2>1. AlikeImages(t, im, r, jm, Len(s))
      BY <1>7 DEF AlikeImages
  <2> QED BY <1>2, <1>6, <2>1, EachImages
<1>9. PICK u : u = FlattenSeq(r)
    OBVIOUS
<1>10. PICK v : v = ClassEdges(dex, c)
    OBVIOUS
<1>11. IsSequence(u) /\ IsSequence(v)
    BY <1>4, <1>9, <1>10, ClassListed, ClassTypely DEF Typely
<1>12. EdgesIn(dex, c) = v \o u
    BY <1>4, <1>9, <1>10 DEF EdgesIn
<1>13. Image(v \o u, jm) = Image(v, jm) \o Image(u, jm)
    BY <1>11, ImageConcat
<1>14. Image(v, jm) = <<>>
  <2>1. EdgeRows(jm, q, input, ToSet(v))
      BY <1>10, ClassListed DEF EdgeRows
  <2> QED BY <1>10, <2>1, ClassTypely, NoTypesSought
<1>15. <<>> \o Image(u, jm) = Image(u, jm)
  <2>1. IsSequence(Image(u, jm))
      BY <1>11, ImageSequence
  <2> QED BY <2>1 DEF IsSequence
<1> QED BY <1>3, <1>8, <1>9, <1>12, <1>13, <1>14, <1>15 DEF ImagedAlike, SitesIn

\* A file of a sound input.
SoundFile(dex) == IsSequence(dex.classes) /\ \A c \in ToSet(dex.classes) : Sound(c)

\* The sites and edges of a file are those of its classes.
LEMMA FileListed ==
    ASSUME NEW dex, SoundFile(dex)
    PROVE  /\ Yields(SitesByClass(dex), Classes(dex)) /\ Yields(EdgesByClass(dex), Classes(dex))
           /\ IsSequence(SitesOf(dex)) /\ Unites(ToSet(SitesOf(dex)), SitesByClass(dex), Len(Classes(dex)))
           /\ IsSequence(EdgesOf(dex)) /\ Unites(ToSet(EdgesOf(dex)), EdgesByClass(dex), Len(Classes(dex)))
<1>1. PICK s : s = Classes(dex)
    OBVIOUS
<1>2. IsSequence(s) /\ DOMAIN s = 1..Len(s) /\ \A i \in 1..Len(s) : Sound(s[i])
    BY <1>1, ClassesListed, SequenceParts DEF SoundFile
<1>3. Yields(SitesByClass(dex), s)
  <2>1. \A i \in 1..Len(s) : IsSequence(SitesIn(dex, s[i]))
      BY <1>2, ClassListed
  <2> QED BY <1>1, <1>2, <2>1 DEF Yields, SitesByClass
<1>4. Yields(EdgesByClass(dex), s)
  <2>1. \A i \in 1..Len(s) : IsSequence(EdgesIn(dex, s[i]))
      BY <1>2, ClassListed
  <2> QED BY <1>1, <1>2, <2>1 DEF Yields, EdgesByClass
<1> QED BY <1>1, <1>2, <1>3, <1>4, EachSequence DEF SitesOf, EdgesOf

\* The edges of a file have the rows of its sites.
LEMMA FileAlike ==
    ASSUME NEW q, Pointed(q), NEW input, NEW dex, SoundFile(dex),
           NEW im, SiteRows(im, q, input, ToSet(SitesOf(dex))),
           NEW jm, EdgeRows(jm, q, input, ToSet(EdgesOf(dex)))
    PROVE  ImagedAlike(SitesOf(dex), im, EdgesOf(dex), jm)
<1>1. PICK s : s = Classes(dex)
    OBVIOUS
<1>2. IsSequence(s) /\ DOMAIN s = 1..Len(s) /\ \A i \in 1..Len(s) : Sound(s[i])
    BY <1>1, ClassesListed, SequenceParts DEF SoundFile
<1>3. PICK t : t = SitesByClass(dex)
    OBVIOUS
<1>4. PICK r : r = EdgesByClass(dex)
    OBVIOUS
<1>5. \A k \in 1..Len(s) : t[k] = SitesIn(dex, s[k]) /\ r[k] = EdgesIn(dex, s[k])
    BY <1>1, <1>2, <1>3, <1>4 DEF SitesByClass, EdgesByClass
<1>6. Yields(t, s) /\ Yields(r, s) /\ Unites(ToSet(FlattenSeq(t)), t, Len(s)) /\ Unites(ToSet(FlattenSeq(r)), r, Len(s))
    BY <1>1, <1>3, <1>4, FileListed DEF SitesOf, EdgesOf
<1>7. ASSUME NEW k \in 1..Len(s)
      PROVE  Image(t[k], im) = Image(r[k], jm)
  <2>1. PICK c : c = s[k]
      OBVIOUS
  <2>2. Sound(c) /\ t[k] = SitesIn(dex, c) /\ r[k] = EdgesIn(dex, c)
      BY <1>2, <1>5, <2>1
  <2>3. ToSet(t[k]) \subseteq ToSet(SitesOf(dex)) /\ ToSet(r[k]) \subseteq ToSet(EdgesOf(dex))
      BY <1>3, <1>4, <1>6 DEF Unites, SitesOf, EdgesOf
  <2>4. SiteRows(im, q, input, ToSet(SitesIn(dex, c))) /\ EdgeRows(jm, q, input, ToSet(EdgesIn(dex, c)))
      BY <2>2, <2>3 DEF SiteRows, EdgeRows
  <2>5. ImagedAlike(SitesIn(dex, c), im, EdgesIn(dex, c), jm)
      BY <2>2, <2>4, ClassAlike
  <2> QED BY <2>2, <2>5 DEF ImagedAlike
<1>8. AlikeImages(t, im, r, jm, Len(s))
    BY <1>7 DEF AlikeImages
<1>9. Image(FlattenSeq(t), im) = Image(FlattenSeq(r), jm)
    BY <1>2, <1>6, <1>8, EachImages
<1> QED BY <1>3, <1>4, <1>9 DEF ImagedAlike, SitesOf, EdgesOf

\* An input is a list of such files.
LEMMA InputFiles ==
    ASSUME NEW input, SoundInput(input)
    PROVE  IsSequence(input) /\ DOMAIN input = 1..Len(input) /\ \A i \in 1..Len(input) : SoundFile(input[i])
<1>1. IsSequence(input) /\ DOMAIN input = 1..Len(input)
    BY SequenceParts DEF SoundInput, ReadableInput
<1>2. \A i \in 1..Len(input) : IsSequence(input[i].classes)
    BY <1>1 DEF SoundInput, ReadableInput
<1> QED BY <1>1, <1>2, SoundClass DEF SoundFile

\* The sites and edges of an input are those of its files.
LEMMA InputListed ==
    ASSUME NEW input, SoundInput(input)
    PROVE  /\ Sites(input) = FlattenSeq(SitesByFile(input)) /\ Edges(input, FALSE) = FlattenSeq(EdgesByFile(input))
           /\ Yields(SitesByFile(input), input) /\ Yields(EdgesByFile(input), input)
           /\ IsSequence(Sites(input)) /\ Unites(ToSet(Sites(input)), SitesByFile(input), Len(input))
           /\ IsSequence(Edges(input, FALSE)) /\ Unites(ToSet(Edges(input, FALSE)), EdgesByFile(input), Len(input))
<1>1. IsSequence(input) /\ DOMAIN input = 1..Len(input) /\ \A i \in 1..Len(input) : SoundFile(input[i])
    BY InputFiles
<1>2. Yields(SitesByFile(input), input)
  <2>1. \A i \in 1..Len(input) : IsSequence(SitesOf(input[i]))
      BY <1>1, FileListed
  <2> QED BY <1>1, <2>1 DEF Yields, SitesByFile
<1>3. Yields(EdgesByFile(input), input)
  <2>1. \A i \in 1..Len(input) : IsSequence(EdgesOf(input[i]))
      BY <1>1, FileListed
  <2> QED BY <1>1, <2>1 DEF Yields, EdgesByFile
<1>4. ASSUME NEW i \in DOMAIN input, NEW j \in DOMAIN Classes(input[i])
      PROVE  OrderedMethods(Classes(input[i])[j]) = Methods(Classes(input[i])[j])
  <2>1. SoundFile(input[i])
      BY <1>1
  <2>2. Sound(Classes(input[i])[j])
      BY <2>1, ClassesListed, SequenceParts DEF SoundFile
  <2> QED BY <2>2, MethodsOrdered
<1>5. Sites(input) = FlattenSeq(SitesByFile(input))
    BY <1>4 DEF Sites, SitesByFile, SitesOf, SitesByClass, SitesIn, SitesByMethod, Each
<1>6. Edges(input, FALSE) = FlattenSeq(EdgesByFile(input))
    BY DEF Edges, EdgesByFile, EdgesOf, EdgesByClass, EdgesIn, EdgesByMethod, Each
<1> QED BY <1>1, <1>2, <1>3, <1>5, <1>6, EachSequence

\* The edges of an input have the rows of its sites.
LEMMA InputAlike ==
    ASSUME NEW q, Pointed(q), NEW input, SoundInput(input),
           NEW im, SiteRows(im, q, input, ToSet(Sites(input))),
           NEW jm, EdgeRows(jm, q, input, ToSet(Edges(input, FALSE)))
    PROVE  ImagedAlike(Sites(input), im, Edges(input, FALSE), jm)
<1>1. IsSequence(input) /\ DOMAIN input = 1..Len(input) /\ \A i \in 1..Len(input) : SoundFile(input[i])
    BY InputFiles
<1>2. PICK t : t = SitesByFile(input)
    OBVIOUS
<1>3. PICK r : r = EdgesByFile(input)
    OBVIOUS
<1>4. \A k \in 1..Len(input) : t[k] = SitesOf(input[k]) /\ r[k] = EdgesOf(input[k])
    BY <1>1, <1>2, <1>3 DEF SitesByFile, EdgesByFile
<1>5. PICK all, edges : all = Sites(input) /\ edges = Edges(input, FALSE)
    OBVIOUS
<1>6. /\ Yields(t, input) /\ Yields(r, input) /\ Unites(ToSet(all), t, Len(input)) /\ Unites(ToSet(edges), r, Len(input))
      /\ all = FlattenSeq(t) /\ edges = FlattenSeq(r)
    BY <1>2, <1>3, <1>5, InputListed
<1>7. ASSUME NEW k \in 1..Len(input)
      PROVE  Image(t[k], im) = Image(r[k], jm)
  <2>1. PICK dex : dex = input[k]
      OBVIOUS
  <2>2. SoundFile(dex) /\ t[k] = SitesOf(dex) /\ r[k] = EdgesOf(dex)
      BY <1>1, <1>4, <2>1
  <2>3. ToSet(t[k]) \subseteq ToSet(all) /\ ToSet(r[k]) \subseteq ToSet(edges)
      BY <1>6 DEF Unites
  <2>4. SiteRows(im, q, input, ToSet(SitesOf(dex))) /\ EdgeRows(jm, q, input, ToSet(EdgesOf(dex)))
      BY <1>5, <2>2, <2>3 DEF SiteRows, EdgeRows
  <2>5. ImagedAlike(SitesOf(dex), im, EdgesOf(dex), jm)
      BY <2>2, <2>4, FileAlike
  <2> QED BY <2>2, <2>5 DEF ImagedAlike
<1>8. AlikeImages(t, im, r, jm, Len(input))
    BY <1>7 DEF AlikeImages
<1>9. Image(FlattenSeq(t), im) = Image(FlattenSeq(r), jm)
    BY <1>1, <1>6, <1>8, EachImages
<1> QED BY <1>5, <1>6, <1>9 DEF ImagedAlike

-----------------------------------------------------------------------------
(***************************************************************************)
(* The listings of the handlers.                                           *)
(***************************************************************************)

\* References, found by a scan; and the rows of an index.
ScanRows(input, q) ==
    LET rows == Where(Sites(input), LAMBDA site : Sought(q, site))
    IN  [i \in DOMAIN rows |-> Resolved(input, rows[i])]

IndexRows(input, q) ==
    LET rows == Where(Edges(input, FALSE), LAMBDA e : SoughtEdge(q, e))
    IN  [i \in DOMAIN rows |-> IndexRow(input, rows[i])]

\* What a scan finds is a list.
LEMMA ScanListed ==
    ASSUME NEW input, SoundInput(input), NEW q
    PROVE  IsSequence(ScanRows(input, q))
<1>1. PICK rows : rows = Where(Sites(input), LAMBDA site : Sought(q, site))
    OBVIOUS
<1>2. IsSequence(rows)
    BY <1>1, InputListed, OnlySequence DEF Where
<1>3. PICK t : t = ScanRows(input, q)
    OBVIOUS
<1>4. t = [i \in DOMAIN rows |-> t[i]]
    BY <1>1, <1>3 DEF ScanRows
<1> QED BY <1>2, <1>3, <1>4, MadeSequence

\* What an index finds is a list.
LEMMA IndexListed ==
    ASSUME NEW input, SoundInput(input), NEW q
    PROVE  IsSequence(IndexRows(input, q))
<1>1. PICK rows : rows = Where(Edges(input, FALSE), LAMBDA e : SoughtEdge(q, e))
    OBVIOUS
<1>2. IsSequence(rows)
    BY <1>1, InputListed, OnlySequence DEF Where
<1>3. PICK t : t = IndexRows(input, q)
    OBVIOUS
<1>4. t = [i \in DOMAIN rows |-> t[i]]
    BY <1>1, <1>3 DEF IndexRows
<1> QED BY <1>2, <1>3, <1>4, MadeSequence

\* An index and a scan find the same rows, in the same order.
LEMMA IndexIsScan ==
    ASSUME NEW input, SoundInput(input), NEW q, Pointed(q)
    PROVE  IndexRows(input, q) = ScanRows(input, q)
<1>1. PICK all, edges : all = Sites(input) /\ edges = Edges(input, FALSE)
    OBVIOUS
<1>2. IsSequence(all) /\ IsSequence(edges)
    BY <1>1, InputListed
<1>3. PICK S : S = {x \in ToSet(all) : Sought(q, x)}
    OBVIOUS
<1>4. PICK T : T = {e \in ToSet(edges) : SoughtEdge(q, e)}
    OBVIOUS
<1>5. PICK im : im = [x \in S |-> Resolved(input, x)]
    OBVIOUS
<1>6. PICK jm : jm = [e \in T |-> IndexRow(input, e)]
    OBVIOUS
<1>7. SiteRows(im, q, input, ToSet(all)) /\ DOMAIN im = S
    BY <1>3, <1>5 DEF SiteRows
<1>8. EdgeRows(jm, q, input, ToSet(edges)) /\ DOMAIN jm = T
    BY <1>4, <1>6 DEF EdgeRows
<1>9. Image(all, im) = Image(edges, jm)
  <2>1. SiteRows(im, q, input, ToSet(Sites(input))) /\ EdgeRows(jm, q, input, ToSet(Edges(input, FALSE)))
      BY <1>1, <1>7, <1>8
  <2>2. ImagedAlike(Sites(input), im, Edges(input, FALSE), jm)
      BY <2>1, InputAlike
  <2> QED BY <1>1, <2>2 DEF ImagedAlike
<1>10. ScanRows(input, q) = Image(all, im)
  <2>1. PICK r : r = Only(all, S)
      OBVIOUS
  <2>2. DOMAIN r = 1..Len(r) /\ \A i \in 1..Len(r) : r[i] \in S
    <3>1. IsSequence(r) /\ ToSet(r) = ToSet(all) \cap S
        BY <1>2, <2>1, OnlySequence
    <3> QED BY <3>1, SequenceParts
  <2>3. ScanRows(input, q) = [i \in DOMAIN r |-> Resolved(input, r[i])]
      BY <1>1, <1>3, <2>1 DEF ScanRows, Where
  <2>4. ScanRows(input, q) = [i \in DOMAIN r |-> im[r[i]]]
      BY <1>5, <2>2, <2>3
  <2> QED BY <1>2, <1>7, <2>1, <2>4, WhereMade
<1>11. IndexRows(input, q) = Image(edges, jm)
  <2>1. PICK r : r = Only(edges, T)
      OBVIOUS
  <2>2. DOMAIN r = 1..Len(r) /\ \A i \in 1..Len(r) : r[i] \in T
    <3>1. IsSequence(r) /\ ToSet(r) = ToSet(edges) \cap T
        BY <1>2, <2>1, OnlySequence
    <3> QED BY <3>1, SequenceParts
  <2>3. IndexRows(input, q) = [i \in DOMAIN r |-> IndexRow(input, r[i])]
      BY <1>1, <1>4, <2>1 DEF IndexRows, Where
  <2>4. IndexRows(input, q) = [i \in DOMAIN r |-> jm[r[i]]]
      BY <1>6, <2>2, <2>3
  <2> QED BY <1>2, <1>8, <2>1, <2>4, WhereMade
<1> QED BY <1>9, <1>10, <1>11

\* References pages through what a scan finds.
LEMMA ReferencesAre ==
    ASSUME NEW input, NEW q
    PROVE  \A o, n : References(input, q, o, n)
                = IF q.operation = "get_method_calls" /\ ~Declared(input, q.method_descriptor)
                  THEN Failure("method_not_found") ELSE Listed(ScanRows(input, q), o, n)
BY DEF References, ScanRows, Sought

\* ByIndex pages through what an index finds.
LEMMA ByIndexIs ==
    ASSUME NEW input, NEW q, q.operation # "search_members"
    PROVE  \A o, n : ByIndex(input, q, o, n)
                = IF q.operation = "get_method_calls" /\ ~Declared(input, AskedOf(q))
                  THEN Failure("method_not_found") ELSE PageResult(Listed(IndexRows(input, q), o, n), o, n)
BY DEF ByIndex, IndexRows, SoughtEdge

\* Strings pages through a list.
LEMMA StringsListed ==
    ASSUME NEW input, SoundInput(input), NEW q
    PROVE  \E R : IsSequence(R) /\ \A o, n : Strings(input, q, o, n) = Listed(R, o, n)
<1>1. PICK rows : rows = Where(Sites(input), LAMBDA site :
                    site.op = StringOp /\ Matches(site.arg, q.value, Get(q, "case_sensitive", TRUE)))
    OBVIOUS
<1>2. IsSequence(rows)
    BY <1>1, InputListed, OnlySequence DEF Where
<1>3. PICK t : t = [i \in DOMAIN rows |-> Resolved(input, rows[i])]
    OBVIOUS
<1>4. IsSequence(t)
  <2>1. t = [i \in DOMAIN rows |-> t[i]]
      BY <1>3
  <2> QED BY <1>2, <2>1, MadeSequence
<1>5. \A o, n : Strings(input, q, o, n) = Listed(t, o, n)
    BY <1>1, <1>3 DEF Strings
<1> QED BY <1>4, <1>5

\* TypeOperands pages through a list.
LEMMA TypeOperandsListed ==
    ASSUME NEW input, SoundInput(input), NEW q
    PROVE  \E R : IsSequence(R) /\ \A o, n : TypeOperands(input, q, o, n) = Listed(R, o, n)
<1>1. PICK rows : rows = Where(Sites(input), LAMBDA site : site.op = TypeOp /\
            IF Get(q, "type_match", "exact") = "exact" THEN site.arg = q.type_descriptor
            ELSE Holds(site.arg, q.type_descriptor))
    OBVIOUS
<1>2. IsSequence(rows)
    BY <1>1, InputListed, OnlySequence DEF Where
<1>3. PICK t : t = [i \in DOMAIN rows |-> Resolved(input, rows[i])]
    OBVIOUS
<1>4. IsSequence(t)
  <2>1. t = [i \in DOMAIN rows |-> t[i]]
      BY <1>3
  <2> QED BY <1>2, <2>1, MadeSequence
<1>5. \A o, n : TypeOperands(input, q, o, n) = Listed(t, o, n)
    BY <1>1, <1>3 DEF TypeOperands
<1> QED BY <1>4, <1>5

\* The owners are finitely many, each the name of a class.
LEMMA OwnersFinite ==
    ASSUME NEW input, ReadableInput(input)
    PROVE  /\ IsFiniteSet(Owners(input))
           /\ \A n \in Owners(input) : \E i \in DOMAIN input : \E c \in ToSet(input[i].classes) : c.name = n
<1>1. IsSequence(input) /\ DOMAIN input = 1..Len(input) /\ Len(input) \in Nat
    BY SequenceParts DEF ReadableInput
<1>2. \A i \in DOMAIN input : IsSequence(input[i].classes)
    BY DEF ReadableInput
<1>3. PICK N : N = [i \in DOMAIN input |-> ToSet(Names(input[i].classes))]
    OBVIOUS
<1>4. Owners(input) = UNION {N[i] : i \in DOMAIN input}
    BY <1>3 DEF Owners
<1>5. ASSUME NEW i \in DOMAIN input
      PROVE  IsFiniteSet(N[i]) /\ \A n \in N[i] : \E c \in ToSet(input[i].classes) : c.name = n
  <2>1. PICK s : s = input[i].classes
      OBVIOUS
  <2>2. IsSequence(s)
      BY <1>2, <2>1
  <2>3. PICK t : t = Names(s)
      OBVIOUS
  <2>4. t = [k \in DOMAIN s |-> s[k].name]
      BY <2>3 DEF Names
  <2>5. IsSequence(t) /\ DOMAIN t = 1..Len(s) /\ ToSet(t) = {t[k] : k \in 1..Len(s)}
    <3>1. t = [k \in DOMAIN s |-> t[k]]
        BY <2>4
    <3> QED BY <2>2, <3>1, MadeSequence
  <2>6. \A n \in ToSet(t) : \E c \in ToSet(s) : c.name = n
      BY <2>2, <2>4, <2>5, SequenceParts
  <2> QED BY <1>3, <2>1, <2>3, <2>5, <2>6, FiniteElements
<1>6. IsSequence(N) /\ ToSet(N) = {N[i] : i \in 1..Len(input)}
  <2>1. N = [i \in DOMAIN input |-> N[i]]
      BY <1>3
  <2> QED BY <1>1, <2>1, MadeSequence
<1>7. IsFiniteSet(UNION {N[i] : i \in DOMAIN input})
  <2>1. IsFiniteSet(ToSet(N)) /\ \A T \in ToSet(N) : IsFiniteSet(T)
      BY <1>1, <1>5, <1>6, FiniteElements
  <2>2. IsFiniteSet(UNION ToSet(N))
      BY <2>1, FS_UNION
  <2> QED BY <1>1, <1>6, <2>2
<1> QED BY <1>4, <1>5, <1>7

\* The rows that a file yields to a discovery.
LEMMA StringRowsListed ==
    ASSUME NEW dex, IsSequence(dex.strings), NEW q
    PROVE  IsSequence(StringRows(dex, q))
<1>1. PICK hit : hit = {i \in DOMAIN dex.strings :
                    Matches(dex.strings[i], q.value, Get(q, "case_sensitive", TRUE))}
    OBVIOUS
<1>2. IsFiniteSet(hit)
  <2>1. hit \subseteq DOMAIN dex.strings
      BY <1>1
  <2> QED BY <2>1, FiniteElements, FS_Subset
<1>3. PICK at : at = Ascending(hit, LAMBDA i : i)
    OBVIOUS
<1>4. IsSequence(at)
  <2> DEFINE f(k) == CHOOSE x \in hit : Cardinality({y \in hit : y < x}) = k - 1
  <2>a. at = [k \in 1..Cardinality(hit) |-> f(k)]
      BY <1>3 DEF Ascending
  <2> HIDE DEF f
  <2>1. at = [i \in 1..Cardinality(hit) |-> at[i]]
      BY <2>a
  <2> QED BY <1>2, <2>1, AscendingSequence
<1>5. PICK t : t = StringRows(dex, q)
    OBVIOUS
<1>6. t = [i \in DOMAIN at |-> t[i]]
    BY <1>1, <1>3, <1>5 DEF StringRows
<1> QED BY <1>4, <1>5, <1>6, MadeSequence

\* The rows of classes are a list.
LEMMA ClassRowsListed ==
    ASSUME NEW dex, IsSequence(dex.classes), NEW q
    PROVE  IsSequence(ClassRows(dex, q))
<1>1. PICK hit : hit = Where(Classes(dex), LAMBDA c : ClassMatches(q, c.name))
    OBVIOUS
<1>2. IsSequence(hit)
    BY <1>1, ClassesListed, OnlySequence DEF Where
<1>3. PICK t : t = ClassRows(dex, q)
    OBVIOUS
<1>4. t = [i \in DOMAIN hit |-> t[i]]
    BY <1>1, <1>3 DEF ClassRows
<1> QED BY <1>2, <1>3, <1>4, MadeSequence

\* The descriptors of methods, in their order.
LEMMA IdsListed ==
    ASSUME NEW methods, IsSequence(methods)
    PROVE  /\ IsSequence(Ids(methods)) /\ Len(Ids(methods)) = Len(methods)
           /\ \A i \in 1..Len(methods) : Ids(methods)[i] = methods[i].id
           /\ ToSet(Ids(methods)) = {m.id : m \in ToSet(methods)}
<1>1. PICK t : t = Ids(methods)
    OBVIOUS
<1>2. DOMAIN methods = 1..Len(methods) /\ ToSet(methods) = {methods[i] : i \in 1..Len(methods)}
    BY SequenceParts
<1>3. t = [i \in DOMAIN methods |-> methods[i].id]
    BY <1>1 DEF Ids
<1>4. IsSequence(t) /\ Len(t) = Len(methods) /\ ToSet(t) = {t[i] : i \in 1..Len(methods)}
  <2>1. t = [i \in DOMAIN methods |-> t[i]]
      BY <1>3
  <2> QED BY <2>1, MadeSequence
<1> QED BY <1>1, <1>2, <1>3, <1>4

-----------------------------------------------------------------------------
(***************************************************************************)
(* search_members: the definitions of an index, in the order of their      *)
(* names, are the members that a scan finds and sorts.                     *)
(***************************************************************************)

\* No name is declared twice, in a class or elsewhere.
Distinct(input) ==
    \A i, j \in DOMAIN input : \A k \in DOMAIN input[i].classes, n \in DOMAIN input[j].classes :
        /\ ValidMembers(input[i].classes[k])
        /\ input[i].classes[k].name = input[j].classes[n].name => i = j /\ k = n

Searches(q) == q.operation = "search_members" /\ Indexable(q) /\ q.kind \in {"method", "field"}

Hit(q, d) == Some(q, "value") => Matches(IF Get(q, "member_match", "descriptor") = "name" THEN Member[d].name ELSE d,
                                         q.value, Get(q, "case_sensitive", TRUE))

AskedClasses(dex, q) == Where(Classes(dex), LAMBDA c : Some(q, "class_name") => q.class_name = c.name)
MembersIn(c, q) == IF q.kind = "field" THEN Fields(c) ELSE Ids(Methods(c))
MembersByClass(dex, q) == [j \in DOMAIN AskedClasses(dex, q) |-> MembersIn(AskedClasses(dex, q)[j], q)]
FoundMembers(dex, q) == Where(FlattenSeq(MembersByClass(dex, q)), LAMBDA d : Hit(q, d))

\* MemberRows are the rows of the members that are found.
LEMMA MemberRowsAre ==
    ASSUME NEW dex, NEW q
    PROVE  MemberRows(dex, q)
            = [i \in DOMAIN FoundMembers(dex, q) |-> [target |-> FoundMembers(dex, q)[i], entry |-> dex.entry]]
BY DEF MemberRows, FoundMembers, MembersByClass, MembersIn, AskedClasses, Hit, Each

\* The members of a class that a search looks at.
LEMMA MembersInListed ==
    ASSUME NEW c, Readable(c), NEW q
    PROVE  /\ IsSequence(MembersIn(c, q))
           /\ ToSet(MembersIn(c, q)) = IF q.kind = "field" THEN ToSet(c.fields) ELSE MethodsOf(c)
<1>1. IsSequence(c.methods)
    BY DEF Readable
<1>2. MethodsOf(c) = {m.id : m \in ToSet(c.methods)}
    BY <1>1, SequenceParts, SMTT(30) DEF MethodsOf
<1>3. IsSequence(Ids(Methods(c))) /\ ToSet(Ids(Methods(c))) = {m.id : m \in ToSet(c.methods)}
    BY MembersListed, IdsListed
<1> QED BY <1>2, <1>3, MembersListed DEF MembersIn

\* What a search finds in a file, and where.
LEMMA MemberRowsListed ==
    ASSUME NEW dex, SoundFile(dex), NEW q
    PROVE  /\ IsSequence(AskedClasses(dex, q))
           /\ ToSet(AskedClasses(dex, q))
                = {c \in ToSet(dex.classes) : Some(q, "class_name") => q.class_name = c.name}
           /\ Yields(MembersByClass(dex, q), AskedClasses(dex, q))
           /\ IsSequence(FoundMembers(dex, q))
           /\ ToSet(FoundMembers(dex, q)) = {d \in ToSet(FlattenSeq(MembersByClass(dex, q))) : Hit(q, d)}
           /\ IsSequence(MemberRows(dex, q))
           /\ Len(MemberRows(dex, q)) = Len(FoundMembers(dex, q))
           /\ ToSet(MemberRows(dex, q)) = {[target |-> d, entry |-> dex.entry] : d \in ToSet(FoundMembers(dex, q))}
<1>1. PICK s : s = AskedClasses(dex, q)
    OBVIOUS
<1>2. IsSequence(s) /\ ToSet(s) = {c \in ToSet(dex.classes) : Some(q, "class_name") => q.class_name = c.name}
  <2>1. PICK u : u = Classes(dex)
      OBVIOUS
  <2>2. IsSequence(u) /\ ToSet(u) = ToSet(dex.classes)
      BY <2>1, ClassesListed DEF SoundFile
  <2>3. s = Only(u, {c \in ToSet(u) : Some(q, "class_name") => q.class_name = c.name})
      BY <1>1, <2>1 DEF AskedClasses, Where
  <2>4. IsSequence(s) /\ ToSet(s) = ToSet(u) \cap {c \in ToSet(u) : Some(q, "class_name") => q.class_name = c.name}
      BY <2>2, <2>3, OnlySequence
  <2> QED BY <2>2, <2>4
<1>3. \A j \in 1..Len(s) : Sound(s[j])
    BY <1>2, SequenceParts DEF SoundFile
<1>4. PICK t : t = MembersByClass(dex, q)
    OBVIOUS
<1>5. Yields(t, s)
  <2>1. \A j \in 1..Len(s) : IsSequence(MembersIn(s[j], q))
      BY <1>3, MembersInListed DEF Sound
  <2>2. t = [j \in DOMAIN s |-> MembersIn(s[j], q)] /\ DOMAIN s = 1..Len(s)
      BY <1>1, <1>2, <1>4, SequenceParts DEF MembersByClass
  <2> QED BY <2>1, <2>2 DEF Yields
<1>6. PICK f : f = FlattenSeq(t)
    OBVIOUS
<1>7. IsSequence(f)
    BY <1>2, <1>5, <1>6, EachSequence
<1>8. PICK r : r = FoundMembers(dex, q)
    OBVIOUS
<1>9. r = Only(f, {d \in ToSet(f) : Hit(q, d)})
    BY <1>4, <1>6, <1>8 DEF FoundMembers, Where
<1>10. IsSequence(r) /\ ToSet(r) = ToSet(f) \cap {d \in ToSet(f) : Hit(q, d)}
    BY <1>7, <1>9, OnlySequence
<1>11. PICK w : w = MemberRows(dex, q)
    OBVIOUS
<1>12. w = [i \in DOMAIN r |-> [target |-> r[i], entry |-> dex.entry]]
    BY <1>8, <1>11, MemberRowsAre
<1>13. IsSequence(w) /\ Len(w) = Len(r) /\ DOMAIN r = 1..Len(r) /\ ToSet(w) = {w[i] : i \in 1..Len(r)}
  <2>1. w = [i \in DOMAIN r |-> w[i]]
      BY <1>12
  <2> QED BY <1>10, <2>1, MadeSequence, SequenceParts, ZenonT(60)
<1>14. ToSet(w) = {[target |-> d, entry |-> dex.entry] : d \in ToSet(r)}
  <2>1. PICK en : en = dex.entry
      OBVIOUS
  <2>2. \A i \in 1..Len(r) : w[i] = [target |-> r[i], entry |-> en]
      BY <1>12, <1>13, <2>1
  <2>3. ToSet(r) = {r[i] : i \in 1..Len(r)}
      BY <1>10, SequenceParts
  <2>a. ASSUME NEW y \in ToSet(w)
        PROVE  \E d \in ToSet(r) : y = [target |-> d, entry |-> en]
    <3>1. PICK i \in 1..Len(r) : y = w[i]
        BY <1>13, <2>a
    <3>2. r[i] \in ToSet(r)
        BY <2>3
    <3> QED BY <2>2, <3>1, <3>2
  <2>b. ASSUME NEW d \in ToSet(r)
        PROVE  [target |-> d, entry |-> en] \in ToSet(w)
    <3>1. PICK i \in 1..Len(r) : d = r[i]
        BY <2>3, <2>b
    <3>2. w[i] \in ToSet(w)
        BY <1>13
    <3> QED BY <2>2, <3>1, <3>2
  <2>4. ToSet(w) = {[target |-> d, entry |-> en] : d \in ToSet(r)}
      BY <2>a, <2>b
  <2> QED BY <2>1, <2>4
<1> QED BY <1>1, <1>2, <1>4, <1>5, <1>6, <1>8, <1>10, <1>11, <1>13, <1>14

\* None of the rows comes twice.
LEMMA ClassesOnce ==
    ASSUME NEW input, SoundInput(input), Distinct(input), NEW i \in DOMAIN input
    PROVE  /\ Once(input[i].classes) /\ Once(Classes(input[i]))
           /\ \A c, d \in ToSet(input[i].classes) : c.name = d.name => c = d
           /\ \A c \in ToSet(input[i].classes) : ValidMembers(c)
           /\ \A j \in DOMAIN input : \A c \in ToSet(input[i].classes), d \in ToSet(input[j].classes) :
                c.name = d.name => i = j
<1>1. \A j \in DOMAIN input : SoundFile(input[j])
    BY InputFiles
<1>2. \A j \in DOMAIN input :
        /\ IsSequence(input[j].classes) /\ DOMAIN input[j].classes = 1..Len(input[j].classes)
        /\ \A c \in ToSet(input[j].classes) : \E k \in DOMAIN input[j].classes : c = input[j].classes[k]
    BY <1>1, SequenceParts DEF SoundFile
<1>3. Once(input[i].classes)
    BY <1>2 DEF Once, Distinct
<1>4. Once(Classes(input[i]))
    BY <1>2, <1>3, SortedOnce DEF Classes, SortedBy
<1>5. \A c, d \in ToSet(input[i].classes) : c.name = d.name => c = d
    BY <1>2, SMTT(30) DEF Distinct
<1>6. \A c \in ToSet(input[i].classes) : ValidMembers(c)
    BY <1>2 DEF Distinct
<1>7. \A j \in DOMAIN input : \A c \in ToSet(input[i].classes), d \in ToSet(input[j].classes) :
                c.name = d.name => i = j
    BY <1>2, SMTT(30) DEF Distinct
<1> QED BY <1>3, <1>4, <1>5, <1>6, <1>7

\* A class lists no member twice.
LEMMA MembersOnce ==
    ASSUME NEW c, Readable(c), ValidMembers(c), NEW q
    PROVE  Once(MembersIn(c, q))
<1>1. IsSequence(c.fields) /\ IsSequence(c.methods)
    BY DEF Readable
<1>2. Once(Fields(c))
  <2>1. Once(c.fields)
      BY <1>1, OnceSequence DEF ValidMembers
  <2> QED BY <1>1, <2>1, SortedOnce DEF Fields, SortedBy
<1>3. \A m, n \in ToSet(c.methods) : m.id = n.id => m = n
  <2>1. /\ IsSequence(Ids(c.methods)) /\ Len(Ids(c.methods)) = Len(c.methods)
        /\ \A i \in 1..Len(c.methods) : Ids(c.methods)[i] = c.methods[i].id
      BY <1>1, IdsListed
  <2>2. Once(Ids(c.methods))
      BY <2>1, OnceSequence DEF ValidMembers
  <2>3. ToSet(c.methods) = {c.methods[i] : i \in 1..Len(c.methods)}
      BY <1>1, SequenceParts
  <2> QED BY <2>1, <2>2, <2>3 DEF Once
<1>4. Once(c.methods)
  <2>1. /\ IsSequence(Ids(c.methods)) /\ Len(Ids(c.methods)) = Len(c.methods)
        /\ \A i \in 1..Len(c.methods) : Ids(c.methods)[i] = c.methods[i].id
      BY <1>1, IdsListed
  <2>2. Once(Ids(c.methods))
      BY <2>1, OnceSequence DEF ValidMembers
  <2> QED BY <2>1, <2>2 DEF Once
<1>5. PICK s : s = Methods(c)
    OBVIOUS
<1>6. IsSequence(s) /\ ToSet(s) = ToSet(c.methods) /\ Once(s)
    BY <1>1, <1>4, <1>5, SortedSequence, SortedOnce DEF Methods, SortedBy
<1>7. Once(Ids(s))
  <2>1. Len(Ids(s)) = Len(s) /\ \A i \in 1..Len(s) : Ids(s)[i] = s[i].id
      BY <1>6, IdsListed
  <2>2. \A i \in 1..Len(s) : s[i] \in ToSet(c.methods)
      BY <1>6, SequenceParts
  <2> QED BY <1>3, <1>6, <2>1, <2>2 DEF Once
<1> QED BY <1>2, <1>5, <1>7 DEF MembersIn

\* What a list of members holds is declared by the class that it is of.
LEMMA MembersOwned ==
    ASSUME NEW c, Sound(c), NEW q, NEW d \in ToSet(MembersIn(c, q))
    PROVE  d \in DOMAIN Member /\ Member[d].owner = c.name
BY MembersInListed DEF Sound, NamedWell

\* Nor does a file, of what is found in it.
LEMMA FoundOnce ==
    ASSUME NEW input, SoundInput(input), Distinct(input), NEW i \in DOMAIN input, NEW q
    PROVE  /\ Once(FoundMembers(input[i], q))
           /\ \A d \in ToSet(FoundMembers(input[i], q)) :
                d \in DOMAIN Member /\ \E c \in ToSet(input[i].classes) : Member[d].owner = c.name
<1>1. PICK dex : dex = input[i]
    OBVIOUS
<1>2. SoundFile(dex)
    BY <1>1, InputFiles
<1>3. PICK s : s = AskedClasses(dex, q)
    OBVIOUS
<1>4. IsSequence(s) /\ ToSet(s) \subseteq ToSet(dex.classes) /\ DOMAIN s = 1..Len(s)
    BY <1>2, <1>3, MemberRowsListed, SequenceParts
<1>5. Once(s)
  <2>1. IsSequence(Classes(dex)) /\ Once(Classes(dex))
      BY <1>1, <1>2, ClassesListed, ClassesOnce DEF SoundFile
  <2>2. \E chosen : s = Only(Classes(dex), chosen)
      BY <1>3 DEF AskedClasses, Where
  <2> QED BY <2>1, <2>2, OnlyKeeps DEF IsSequence
<1>6. PICK t : t = MembersByClass(dex, q)
    OBVIOUS
<1>7. Yields(t, s) /\ Len(t) = Len(s) /\ (\A r \in ToSet(t) : IsSequence(r)) /\ IsSequence(t)
    BY <1>2, <1>3, <1>4, <1>6, MemberRowsListed, EachSequence
<1>8. \A j \in 1..Len(s) : /\ t[j] = MembersIn(s[j], q)
                           /\ Sound(s[j]) /\ s[j] \in ToSet(dex.classes) /\ ValidMembers(s[j])
  <2>1. \A j \in 1..Len(s) : t[j] = MembersIn(s[j], q)
      BY <1>3, <1>4, <1>6 DEF MembersByClass
  <2>2. \A j \in 1..Len(s) : s[j] \in ToSet(dex.classes)
      BY <1>4, SequenceParts
  <2> QED BY <1>1, <1>2, <2>1, <2>2, ClassesOnce DEF SoundFile
<1>9. Apart(t)
  <2>1. ASSUME NEW j \in 1..Len(t)
        PROVE  Once(t[j])
      BY <1>7, <1>8, <2>1, MembersOnce DEF Sound
  <2>2. ASSUME NEW j \in 1..Len(t), NEW k \in 1..Len(t), j # k
        PROVE  ToSet(t[j]) \cap ToSet(t[k]) = {}
    <3>1. s[j] # s[k]
        BY <1>5, <1>7, <2>2 DEF Once
    <3>2. s[j].name # s[k].name
        BY <1>1, <1>7, <1>8, <3>1, ClassesOnce
    <3> QED BY <1>7, <1>8, <3>2, MembersOwned
  <2> QED BY <2>1, <2>2 DEF Apart
<1>10. PICK f : f = FlattenSeq(t)
    OBVIOUS
<1>11. Once(f) /\ IsSequence(f) /\ Unites(ToSet(f), t, Len(s))
    BY <1>4, <1>7, <1>9, <1>10, FlatOnce, EachSequence
<1>12. PICK r : r = FoundMembers(dex, q)
    OBVIOUS
<1>13. Once(r)
  <2>1. \E chosen : r = Only(f, chosen)
      BY <1>6, <1>10, <1>12 DEF FoundMembers, Where
  <2> QED BY <1>11, <2>1, OnlyKeeps DEF IsSequence
<1>14. ASSUME NEW d \in ToSet(r)
       PROVE  d \in DOMAIN Member /\ \E c \in ToSet(dex.classes) : Member[d].owner = c.name
  <2>1. d \in ToSet(f)
      BY <1>2, <1>6, <1>10, <1>12, <1>14, MemberRowsListed
  <2>2. PICK j \in 1..Len(s) : d \in ToSet(t[j])
      BY <1>11, <2>1 DEF Unites
  <2> QED BY <1>8, <2>2, MembersOwned
<1> QED BY <1>1, <1>12, <1>13, <1>14

-----------------------------------------------------------------------------
(***************************************************************************)
(* The searches of declarations: their rows are a list, and an index finds *)
(* the members that a scan finds, in the order in which it sorts them.     *)
(***************************************************************************)

FoundIn(dex, q) ==
    CASE q.operation = "search_strings" -> StringRows(dex, q)
      [] q.operation = "search_classes" -> ClassRows(dex, q)
      [] OTHER -> MemberRows(dex, q)

FoundByFile(input, q) == [i \in DOMAIN input |-> FoundIn(input[i], q)]
DiscoveryRows(input, q) == FlattenSeq(FoundByFile(input, q))

DiscoveryKey(input, q) ==
    [r \in ToSet(DiscoveryRows(input, q)) |->
        IF q.operation = "search_strings" THEN <<Units[r.entry], r.at>> ELSE <<Units[r.target], 0>>]

\* Discovery pages through its rows, sorted.
LEMMA DiscoveryIs ==
    ASSUME NEW input, NEW q
    PROVE  \A o, n : Discovery(input, q, o, n)
                = SortedPage(DiscoveryRows(input, q), o, n, DiscoveryKey(input, q))
BY DEF Discovery, DiscoveryRows, DiscoveryKey, FoundByFile, FoundIn, Each

\* Its rows are a list.
LEMMA DiscoveryListed ==
    ASSUME NEW input, SoundInput(input), NEW q
    PROVE  /\ Yields(FoundByFile(input, q), input) /\ IsSequence(DiscoveryRows(input, q))
           /\ Unites(ToSet(DiscoveryRows(input, q)), FoundByFile(input, q), Len(input))
<1>1. IsSequence(input) /\ DOMAIN input = 1..Len(input)
      /\ \A i \in 1..Len(input) : SoundFile(input[i]) /\ IsSequence(input[i].strings)
    BY InputFiles DEF SoundInput, ReadableInput
<1>2. \A i \in 1..Len(input) : IsSequence(FoundIn(input[i], q))
  <2> TAKE i \in 1..Len(input)
  <2>1. SoundFile(input[i]) /\ IsSequence(input[i].strings) /\ IsSequence(input[i].classes)
      BY <1>1 DEF SoundFile
  <2> QED BY <2>1, StringRowsListed, ClassRowsListed, MemberRowsListed DEF FoundIn
<1>3. Yields(FoundByFile(input, q), input)
    BY <1>1, <1>2 DEF Yields, FoundByFile
<1> QED BY <1>1, <1>3, EachSequence DEF DiscoveryRows

\* No two texts have one number; what is declared has one.
Numbers(input) ==
    /\ \A t, u \in DOMAIN Units : Units[t] \in Nat /\ (Units[t] = Units[u] => t = u)
    /\ DOMAIN Member \subseteq DOMAIN Units /\ Owners(input) \subseteq DOMAIN Units

\* The rows of a search of members.
LEMMA FoundMembersOnce ==
    ASSUME NEW input, SoundInput(input), Distinct(input), NEW q, q.operation = "search_members"
    PROVE  /\ Once(DiscoveryRows(input, q))
           /\ \A r \in ToSet(DiscoveryRows(input, q)) :
                \E i \in 1..Len(input) : /\ r.target \in ToSet(FoundMembers(input[i], q))
                                         /\ r = [target |-> r.target, entry |-> input[i].entry]
           /\ \A i \in 1..Len(input) : \A d \in ToSet(FoundMembers(input[i], q)) :
                [target |-> d, entry |-> input[i].entry] \in ToSet(DiscoveryRows(input, q))
           /\ \A i, j \in 1..Len(input) :
                i # j => ToSet(FoundMembers(input[i], q)) \cap ToSet(FoundMembers(input[j], q)) = {}
<1>1. IsSequence(input) /\ DOMAIN input = 1..Len(input) /\ \A i \in 1..Len(input) : SoundFile(input[i])
    BY InputFiles
<1>2. PICK t : t = FoundByFile(input, q)
    OBVIOUS
<1>3. \A i \in 1..Len(input) : t[i] = MemberRows(input[i], q)
    BY <1>1, <1>2 DEF FoundByFile, FoundIn
<1>4. Yields(t, input) /\ Unites(ToSet(DiscoveryRows(input, q)), t, Len(input)) /\ Len(t) = Len(input)
      /\ IsSequence(t) /\ \A r \in ToSet(t) : IsSequence(r)
    BY <1>1, <1>2, DiscoveryListed, EachSequence
<1>5. \A i \in 1..Len(input) :
        /\ IsSequence(t[i]) /\ IsSequence(FoundMembers(input[i], q))
        /\ Len(t[i]) = Len(FoundMembers(input[i], q))
        /\ ToSet(t[i]) = {[target |-> d, entry |-> input[i].entry] : d \in ToSet(FoundMembers(input[i], q))}
  <2> TAKE i \in 1..Len(input)
  <2>1. PICK dex : dex = input[i]
      OBVIOUS
  <2>2. SoundFile(dex) /\ t[i] = MemberRows(dex, q)
      BY <1>1, <1>3, <2>1
  <2>3. /\ IsSequence(MemberRows(dex, q)) /\ IsSequence(FoundMembers(dex, q))
        /\ Len(MemberRows(dex, q)) = Len(FoundMembers(dex, q))
        /\ ToSet(MemberRows(dex, q)) = {[target |-> d, entry |-> dex.entry] : d \in ToSet(FoundMembers(dex, q))}
      BY <2>2, MemberRowsListed
  <2> QED BY <2>1, <2>2, <2>3
<1>6. \A i, j \in 1..Len(input) :
        i # j => ToSet(FoundMembers(input[i], q)) \cap ToSet(FoundMembers(input[j], q)) = {}
  <2> SUFFICES ASSUME NEW i \in 1..Len(input), NEW j \in 1..Len(input), NEW d,
                      d \in ToSet(FoundMembers(input[i], q)), d \in ToSet(FoundMembers(input[j], q))
               PROVE  i = j
      OBVIOUS
  <2>1. PICK c \in ToSet(input[i].classes) : Member[d].owner = c.name
      BY <1>1, FoundOnce
  <2>2. PICK e \in ToSet(input[j].classes) : Member[d].owner = e.name
      BY <1>1, FoundOnce
  <2>3. i \in DOMAIN input /\ j \in DOMAIN input /\ c.name = e.name
      BY <1>1, <2>1, <2>2
  <2> QED BY <2>3, ClassesOnce
<1>7. \A i \in 1..Len(input) : Once(t[i])
  <2> TAKE i \in 1..Len(input)
  <2>1. PICK r : r = FoundMembers(input[i], q)
      OBVIOUS
  <2>2. Once(r)
      BY <1>1, <2>1, FoundOnce
  <2>3. t[i] = [k \in DOMAIN r |-> [target |-> r[k], entry |-> input[i].entry]] /\ DOMAIN r = 1..Len(r)
      BY <1>3, <1>5, <2>1, MemberRowsAre, SequenceParts
  <2>4. \A k \in 1..Len(r) : t[i][k].target = r[k]
      BY <2>3
  <2>5. PICK u : u = t[i]
      OBVIOUS
  <2>6. Len(u) = Len(r) /\ \A k \in 1..Len(r) : u[k].target = r[k]
      BY <1>5, <2>1, <2>4, <2>5
  <2>7. Once(u)
      BY <2>2, <2>6 DEF Once
  <2> QED BY <2>5, <2>7
<1>8. \A i, j \in 1..Len(input) : i # j => ToSet(t[i]) \cap ToSet(t[j]) = {}
  <2> SUFFICES ASSUME NEW i \in 1..Len(input), NEW j \in 1..Len(input), i # j,
                      NEW r, r \in ToSet(t[i]), r \in ToSet(t[j])
               PROVE  FALSE
      OBVIOUS
  <2>1. r.target \in ToSet(FoundMembers(input[i], q)) /\ r.target \in ToSet(FoundMembers(input[j], q))
      BY <1>5
  <2> QED BY <1>6, <2>1
<1>9. Once(DiscoveryRows(input, q))
  <2>1. Apart(t)
      BY <1>4, <1>7, <1>8 DEF Apart
  <2> QED BY <1>2, <1>4, <2>1, FlatOnce DEF DiscoveryRows
<1>10. ASSUME NEW r \in ToSet(DiscoveryRows(input, q))
       PROVE  \E i \in 1..Len(input) : /\ r.target \in ToSet(FoundMembers(input[i], q))
                                       /\ r = [target |-> r.target, entry |-> input[i].entry]
  <2>1. PICK i \in 1..Len(input) : r \in ToSet(t[i])
      BY <1>4, <1>10 DEF Unites
  <2>2. PICK d \in ToSet(FoundMembers(input[i], q)) : r = [target |-> d, entry |-> input[i].entry]
      BY <1>5, <2>1
  <2> QED BY <2>2
<1>11. ASSUME NEW i \in 1..Len(input), NEW d \in ToSet(FoundMembers(input[i], q))
       PROVE  [target |-> d, entry |-> input[i].entry] \in ToSet(DiscoveryRows(input, q))
  <2>1. [target |-> d, entry |-> input[i].entry] \in ToSet(t[i])
      BY <1>5, <1>11
  <2> QED BY <1>4, <2>1 DEF Unites
<1> QED BY <1>6, <1>9, <1>10, <1>11

\* What a scan finds in a file.
LEMMA FoundIs ==
    ASSUME NEW input, SoundInput(input), NEW q, Searches(q), NEW i \in 1..Len(input), NEW d
    PROVE  d \in ToSet(FoundMembers(input[i], q)) <=>
            /\ Some(q, "value") => Holds(d, q.value)
            /\ \E c \in ToSet(input[i].classes) :
                /\ Some(q, "class_name") => q.class_name = c.name
                /\ d \in ToSet(MembersIn(c, q))
<1>1. PICK dex : dex = input[i]
    OBVIOUS
<1>2. SoundFile(dex)
    BY <1>1, InputFiles
<1>3. PICK s, t : s = AskedClasses(dex, q) /\ t = MembersByClass(dex, q)
    OBVIOUS
<1>4. /\ IsSequence(s) /\ ToSet(s) = {c \in ToSet(dex.classes) : Some(q, "class_name") => q.class_name = c.name}
      /\ Yields(t, s) /\ ToSet(FoundMembers(dex, q)) = {e \in ToSet(FlattenSeq(t)) : Hit(q, e)}
    BY <1>2, <1>3, MemberRowsListed
<1>5. Unites(ToSet(FlattenSeq(t)), t, Len(s))
    BY <1>4, EachSequence
<1>6. \A j \in 1..Len(s) : t[j] = MembersIn(s[j], q)
    BY <1>3, <1>4, SequenceParts DEF MembersByClass
<1>7. ToSet(s) = {s[j] : j \in 1..Len(s)}
    BY <1>4, SequenceParts
<1>8. d \in ToSet(FlattenSeq(t)) <=> \E j \in 1..Len(s) : d \in ToSet(MembersIn(s[j], q))
    BY <1>5, <1>6 DEF Unites
<1>9. (\E j \in 1..Len(s) : d \in ToSet(MembersIn(s[j], q))) <=> \E c \in ToSet(s) : d \in ToSet(MembersIn(c, q))
    BY <1>7
<1>10. Hit(q, d) <=> (Some(q, "value") => Holds(d, q.value))
    BY DEF Searches, Indexable, Hit, Matches
<1> QED BY <1>1, <1>4, <1>8, <1>9, <1>10

WantedMembers(input, q) ==
    {d \in {e \in Definitions(input) : e.name \in DOMAIN Member} :
        /\ (Member[d.name].kind = q.kind)
        /\ Some(q, "value") => Holds(d.name, q.value)
        /\ Some(q, "class_name") => Member[d.name].owner = q.class_name}

\* What an index holds.
LEMMA DefinitionIs ==
    ASSUME NEW input, NEW x
    PROVE  x \in Definitions(input) <=>
            \E i \in DOMAIN input : \E j \in DOMAIN input[i].classes :
                \E d \in {input[i].classes[j].name} \cup ToSet(input[i].classes[j].fields)
                            \cup MethodsOf(input[i].classes[j]) :
                    x = [name |-> d, entry |-> input[i].entry]
BY DEF Definitions

\* A member of a class is one of its fields or its methods, by its kind.
LEMMA MembersKinds ==
    ASSUME NEW c, Sound(c), NEW q, q.kind \in {"method", "field"}, NEW d
    PROVE  d \in ToSet(MembersIn(c, q)) <=>
            /\ d \in {c.name} \cup ToSet(c.fields) \cup MethodsOf(c)
            /\ d \in DOMAIN Member /\ Member[d].kind = q.kind
<1>1. ToSet(MembersIn(c, q)) = IF q.kind = "field" THEN ToSet(c.fields) ELSE MethodsOf(c)
    BY MembersInListed DEF Sound
<1>2. /\ c.name \notin DOMAIN Member
      /\ \A e \in ToSet(c.fields) : e \in DOMAIN Member /\ Member[e].kind = "field"
      /\ \A e \in MethodsOf(c) : e \in DOMAIN Member /\ Member[e].kind = "method"
    BY DEF Sound, NamedWell
<1>3. CASE q.kind = "field"
    BY <1>1, <1>2, <1>3
<1>4. CASE q.kind = "method"
    BY <1>1, <1>2, <1>4
<1> QED BY <1>3, <1>4

\* An index holds the members that a scan finds.
LEMMA WantedIs ==
    ASSUME NEW input, SoundInput(input), NEW q, Searches(q), NEW x
    PROVE  x \in WantedMembers(input, q) <=>
            \E i \in 1..Len(input) : /\ x.name \in ToSet(FoundMembers(input[i], q))
                                     /\ x = [name |-> x.name, entry |-> input[i].entry]
<1>1. IsSequence(input) /\ DOMAIN input = 1..Len(input) /\ \A i \in 1..Len(input) : SoundFile(input[i])
    BY InputFiles
<1>2. \A i \in 1..Len(input) : /\ DOMAIN input[i].classes = 1..Len(input[i].classes)
                               /\ ToSet(input[i].classes) = {input[i].classes[j] : j \in DOMAIN input[i].classes}
    BY <1>1, SequenceParts DEF SoundFile
<1>3. \A i \in 1..Len(input) : \A c \in ToSet(input[i].classes) : Sound(c)
    BY <1>1 DEF SoundFile
<1>4. q.kind \in {"method", "field"}
    BY DEF Searches
<1>5. ASSUME x \in WantedMembers(input, q)
      PROVE  \E i \in 1..Len(input) : /\ x.name \in ToSet(FoundMembers(input[i], q))
                                      /\ x = [name |-> x.name, entry |-> input[i].entry]
  <2>1. /\ x \in Definitions(input) /\ x.name \in DOMAIN Member /\ Member[x.name].kind = q.kind
        /\ Some(q, "value") => Holds(x.name, q.value)
        /\ Some(q, "class_name") => Member[x.name].owner = q.class_name
      BY <1>5 DEF WantedMembers
  <2>a. PICK i \in DOMAIN input :
            \E j \in DOMAIN input[i].classes :
                \E d \in {input[i].classes[j].name} \cup ToSet(input[i].classes[j].fields)
                            \cup MethodsOf(input[i].classes[j]) :
                    x = [name |-> d, entry |-> input[i].entry]
      BY <2>1, DefinitionIs
  <2>2. PICK j \in DOMAIN input[i].classes :
            \E d \in {input[i].classes[j].name} \cup ToSet(input[i].classes[j].fields)
                            \cup MethodsOf(input[i].classes[j]) :
                    x = [name |-> d, entry |-> input[i].entry]
      BY <2>a
  <2>3. PICK c : c = input[i].classes[j]
      OBVIOUS
  <2>4. /\ x = [name |-> x.name, entry |-> input[i].entry]
        /\ x.name \in {c.name} \cup ToSet(c.fields) \cup MethodsOf(c)
      BY <2>2, <2>3
  <2>5. c \in ToSet(input[i].classes) /\ i \in 1..Len(input) /\ Sound(c)
      BY <1>1, <1>2, <1>3, <2>2, <2>3
  <2>6. x.name \in ToSet(MembersIn(c, q))
      BY <1>4, <2>1, <2>4, <2>5, MembersKinds
  <2>7. Some(q, "class_name") => q.class_name = c.name
      BY <2>1, <2>5, <2>6, MembersOwned
  <2>8. x.name \in ToSet(FoundMembers(input[i], q))
      BY <2>1, <2>5, <2>6, <2>7, FoundIs
  <2> QED BY <2>4, <2>5, <2>8
<1>6. ASSUME NEW i \in 1..Len(input), x.name \in ToSet(FoundMembers(input[i], q)),
             x = [name |-> x.name, entry |-> input[i].entry]
      PROVE  x \in WantedMembers(input, q)
  <2>1. PICK c \in ToSet(input[i].classes) :
            /\ Some(q, "class_name") => q.class_name = c.name
            /\ x.name \in ToSet(MembersIn(c, q))
      BY <1>6, FoundIs
  <2>2. Some(q, "value") => Holds(x.name, q.value)
      BY <1>6, FoundIs
  <2>3. PICK j \in DOMAIN input[i].classes : c = input[i].classes[j]
      BY <1>2, <2>1
  <2>4. Sound(c)
      BY <1>3, <2>1
  <2>5. /\ x.name \in {c.name} \cup ToSet(c.fields) \cup MethodsOf(c)
        /\ x.name \in DOMAIN Member /\ Member[x.name].kind = q.kind
      BY <1>4, <2>1, <2>4, MembersKinds
  <2>6. Member[x.name].owner = c.name
      BY <2>1, <2>4, MembersOwned
  <2>7. x \in Definitions(input)
    <3>1. i \in DOMAIN input
        BY <1>1
    <3> QED BY <1>6, <2>3, <2>5, <3>1, DefinitionIs
  <2> QED BY <2>1, <2>2, <2>5, <2>6, <2>7 DEF WantedMembers
<1> QED BY <1>5, <1>6

\* search_members: the rows of an index are the sorted rows of a scan.
LEMMA MemberRowsCounted ==
    ASSUME NEW input, SoundInput(input), Distinct(input), Numbers(input), NEW q, Searches(q),
           NEW num, num = [r \in ToSet(DiscoveryRows(input, q)) |-> Units[r.target]]
    PROVE  Numbering(num, ToSet(DiscoveryRows(input, q)))
<1>1. q.operation = "search_members"
    BY DEF Searches
<1>2. IsSequence(input) /\ DOMAIN input = 1..Len(input)
    BY InputFiles
<1>3. PICK S : S = ToSet(DiscoveryRows(input, q))
    OBVIOUS
<1>4. \A r \in S : r.target \in DOMAIN Units
  <2> TAKE r \in S
  <2>1. PICK i \in 1..Len(input) : r.target \in ToSet(FoundMembers(input[i], q))
      BY <1>1, <1>3, FoundMembersOnce
  <2>2. r.target \in DOMAIN Member
      BY <1>2, <2>1, FoundOnce
  <2> QED BY <2>2 DEF Numbers
<1>5. ASSUME NEW r \in S, NEW s \in S, r.target = s.target
      PROVE  r = s
  <2>1. PICK i \in 1..Len(input) : /\ r.target \in ToSet(FoundMembers(input[i], q))
                                   /\ r = [target |-> r.target, entry |-> input[i].entry]
      BY <1>1, <1>3, FoundMembersOnce
  <2>2. PICK j \in 1..Len(input) : /\ s.target \in ToSet(FoundMembers(input[j], q))
                                   /\ s = [target |-> s.target, entry |-> input[j].entry]
      BY <1>1, <1>3, FoundMembersOnce
  <2>3. i = j
      BY <1>1, <1>5, <2>1, <2>2, FoundMembersOnce
  <2> QED BY <1>5, <2>1, <2>2, <2>3
<1>6. \A r \in S : num[r] = Units[r.target]
    BY <1>3
<1>7. \A r \in S : num[r] \in Int
    BY <1>4, <1>6 DEF Numbers
<1>8. \A r, s \in S : num[r] = num[s] => r = s
    BY <1>4, <1>5, <1>6 DEF Numbers
<1> QED BY <1>3, <1>7, <1>8 DEF Numbering

\* So an index answers with the sorted page of a scan.
LEMMA MembersAlike ==
    ASSUME NEW input, SoundInput(input), Distinct(input), Numbers(input), NEW q, Searches(q)
    PROVE  \A o, n : MembersByIndex(input, q, o, n)
            = CountedPage(Listed(Sorted(DiscoveryRows(input, q), DiscoveryKey(input, q)), o, n), o)
<1>1. q.operation = "search_members"
    BY DEF Searches
<1>2. PICK F, key : F = DiscoveryRows(input, q) /\ key = DiscoveryKey(input, q)
    OBVIOUS
<1>3. IsSequence(F) /\ Once(F)
    BY <1>1, <1>2, DiscoveryListed, FoundMembersOnce
<1>4. PICK num : num = [r \in ToSet(F) |-> Units[r.target]]
    OBVIOUS
<1>5. Numbering(num, ToSet(F))
    BY <1>2, <1>4, MemberRowsCounted
<1>6. \A r \in ToSet(F) : key[r] = <<num[r], 0>>
    BY <1>1, <1>2, <1>4 DEF DiscoveryKey
<1>7. PICK R : R = Sorted(F, key)
    OBVIOUS
<1>8. IsSequence(R) /\ ToSet(R) = ToSet(F) /\ Ascends(R, num)
    BY <1>3, <1>5, <1>6, <1>7, SortedSequence, SortedAscends
<1>9. PICK u : u = [i \in 1..Len(R) |-> [name |-> R[i].target, entry |-> R[i].entry]]
    OBVIOUS
<1>10. Len(R) \in Nat /\ ToSet(R) = {R[i] : i \in 1..Len(R)} /\ \A i \in 1..Len(R) : R[i] \in ToSet(F)
    BY <1>8, SequenceParts
<1>11. IsSequence(u) /\ Len(u) = Len(R) /\ ToSet(u) = {u[i] : i \in 1..Len(R)}
  <2>1. u = [i \in 1..Len(R) |-> u[i]]
      BY <1>9
  <2> QED BY <1>10, <2>1, Numbered
<1>12. PICK S : S = WantedMembers(input, q)
    OBVIOUS
<1>13. \A i \in 1..Len(R) : R[i] = [target |-> R[i].target, entry |-> R[i].entry]
  <2> TAKE i \in 1..Len(R)
  <2>1. PICK k \in 1..Len(input) : R[i] = [target |-> R[i].target, entry |-> input[k].entry]
      BY <1>1, <1>2, <1>10, FoundMembersOnce
  <2> QED BY <2>1
<1>14. S = ToSet(u)
  <2>1. ASSUME NEW x \in S
        PROVE  x \in ToSet(u)
    <3>1. PICK k \in 1..Len(input) : /\ x.name \in ToSet(FoundMembers(input[k], q))
                                     /\ x = [name |-> x.name, entry |-> input[k].entry]
        BY <1>12, <2>1, WantedIs
    <3>2. [target |-> x.name, entry |-> input[k].entry] \in ToSet(F)
        BY <1>1, <1>2, <3>1, FoundMembersOnce
    <3>3. PICK i \in 1..Len(R) : [target |-> x.name, entry |-> input[k].entry] = R[i]
        BY <1>8, <1>10, <3>2
    <3>4. u[i] = x
        BY <1>9, <3>1, <3>3
    <3> QED BY <1>11, <3>4
  <2>2. ASSUME NEW x \in ToSet(u)
        PROVE  x \in S
    <3>1. PICK i \in 1..Len(R) : x = [name |-> R[i].target, entry |-> R[i].entry]
        BY <1>9, <1>11, <2>2
    <3>2. PICK k \in 1..Len(input) : /\ R[i].target \in ToSet(FoundMembers(input[k], q))
                                     /\ R[i] = [target |-> R[i].target, entry |-> input[k].entry]
        BY <1>1, <1>2, <1>10, FoundMembersOnce
    <3>3. x.name \in ToSet(FoundMembers(input[k], q)) /\ x = [name |-> x.name, entry |-> input[k].entry]
        BY <3>1, <3>2
    <3> QED BY <1>12, <3>3, WantedIs
  <2> QED BY <2>1, <2>2
<1>15. PICK nu : nu = [x \in S |-> Units[x.name]]
    OBVIOUS
<1>16. \A i \in 1..Len(R) : nu[u[i]] = num[R[i]] /\ u[i] \in S
    BY <1>4, <1>9, <1>10, <1>11, <1>14, <1>15
<1>17. Ascends(u, nu)
    BY <1>8, <1>11, <1>16 DEF Ascends
<1> DEFINE P(x, i) == Cardinality({y \in S : Units[y.name] < Units[x.name]}) = i - 1
           f(i) == CHOOSE x \in S : P(x, i)
<1>18. PICK w : w = [i \in 1..Cardinality(S) |-> f(i)]
    OBVIOUS
<1>19. Ascending(S, LAMBDA d : Units[d.name]) = w
    BY <1>18 DEF Ascending
<1>20. \A i \in 1..Len(u) : \A x \in S : P(x, i) <=> x = u[i]
  <2> TAKE i \in 1..Len(u)
  <2> TAKE x \in S
  <2>1. {y \in S : Units[y.name] < Units[x.name]} = Below(u, nu, x)
      BY <1>14, <1>15 DEF Below
  <2>2. Cardinality(Below(u, nu, x)) = i - 1 <=> x = u[i]
      BY <1>11, <1>14, <1>17, AscendsOnce
  <2> QED BY <2>1, <2>2
<1>21. Cardinality(S) = Len(u)
    BY <1>11, <1>14, <1>17, AscendsOnce
<1>22. \A i \in 1..Len(u) : f(i) = u[i]
  <2> TAKE i \in 1..Len(u)
  <2>1. u[i] \in S
      BY <1>11, <1>16
  <2> HIDE DEF P
  <2> QED BY <1>20, <2>1
<1>23. w = u
  <2> HIDE DEF f
  <2>1. w = [i \in 1..Cardinality(S) |-> w[i]] /\ \A i \in 1..Len(u) : w[i] = u[i]
      BY <1>18, <1>21, <1>22
  <2> QED BY <1>11, <1>14, <1>17, <2>1, AscendingIs, ZenonT(60)
<1>24. [i \in DOMAIN u |-> [target |-> u[i].name, entry |-> u[i].entry]] = R
  <2>1. DOMAIN u = 1..Len(R) /\ R = [i \in 1..Len(R) |-> R[i]]
      BY <1>8, <1>9, SequenceParts
  <2>2. \A i \in 1..Len(R) : [target |-> u[i].name, entry |-> u[i].entry] = R[i]
      BY <1>9, <1>13
  <2> QED BY <2>1, <2>2
<1>25. \A o, n : MembersByIndex(input, q, o, n)
            = CountedPage(Listed([i \in DOMAIN u |-> [target |-> u[i].name, entry |-> u[i].entry]], o, n), o)
  <2>1. Ascending(WantedMembers(input, q), LAMBDA d : Units[d.name]) = u
      BY <1>12, <1>19, <1>23
  <2> QED BY <2>1 DEF MembersByIndex, WantedMembers
<1> QED BY <1>2, <1>7, <1>24, <1>25

-----------------------------------------------------------------------------
(***************************************************************************)
(* The structure of classes: each listing is a list.                       *)
(***************************************************************************)

\* A class after its last superclass so far.
MoreOf(input, t) ==
    LET last == t[Len(t)]
        parent == IF last \in Owners(input) THEN ClassNamed(input, last).super ELSE None
    IN  IF parent = None \/ parent \in ToSet(t) THEN t ELSE Append(t, parent)

\* The superclasses of a class are a list.
LEMMA SuperclassesListed ==
    ASSUME NEW input, IsFiniteSet(Owners(input)), NEW name
    PROVE  IsSequence(Superclasses(input, name))
<1> DEFINE n == Cardinality(Owners(input))
           E == {name} \cup {ClassNamed(input, x).super : x \in Owners(input)}
           T == {t \in Seq(E) : t # <<>>}
           step == [p \in (1..n) \X T |-> MoreOf(input, p[2])]
           base == <<name>>
<1>1. n \in Nat /\ base \in T
    BY FS_CardinalityType
<1>2. ASSUME NEW t \in T
      PROVE  MoreOf(input, t) \in T
  <2>1. PICK last : last = t[Len(t)]
      OBVIOUS
  <2>2. PICK parent : parent = IF last \in Owners(input) THEN ClassNamed(input, last).super ELSE None
      OBVIOUS
  <2>3. MoreOf(input, t) = IF parent = None \/ parent \in ToSet(t) THEN t ELSE Append(t, parent)
      BY <2>1, <2>2 DEF MoreOf
  <2>4. parent = None \/ parent \in E
      BY <2>2
  <2>5. parent \in E => Append(t, parent) \in Seq(E) /\ Append(t, parent) # <<>>
    <3> HIDE DEF E
    <3> QED OBVIOUS
  <2> QED BY <2>3, <2>4, <2>5
<1>3. step \in [(1..n) \X T -> T]
  <2> HIDE DEF T, n
  <2> QED BY <1>2
<1>4. \A k \in 1..n, t \in T : step[<<k, t>>] = MoreOf(input, t)
  <2> HIDE DEF T, n
  <2> QED OBVIOUS
<1>5. PICK f : Values(f, n, T, base, step)
  <2> HIDE DEF n, T, step, base
  <2>1. Recursive(T, base, n, step)
      BY <1>1, <1>3 DEF Recursive
  <2> QED BY <2>1, Recursed
<1>6. \A k \in 1..n : f[k] = MoreOf(input, f[k - 1])
  <2> HIDE DEF n, T, step
  <2> QED BY <1>4, <1>5 DEF Values
<1> DEFINE Run(g) == g = [k \in 0..n |-> IF k = 0 THEN <<name>> ELSE MoreOf(input, g[k - 1])]
<1>7. Run(f)
  <2>1. \A k \in 0..n : f[k] = IF k = 0 THEN <<name>> ELSE MoreOf(input, f[k - 1])
    <3>1. \A k \in 0..n : k = 0 \/ k \in 1..n
        BY <1>1
    <3> HIDE DEF n, T, step
    <3> QED BY <1>5, <1>6, <3>1 DEF Values
  <2>2. f = [k \in 0..n |-> f[k]]
    <3> HIDE DEF n, T, step
    <3> QED BY <1>5 DEF Values
  <2> HIDE DEF step, T, n
  <2> QED BY <2>1, <2>2
<1> DEFINE line == CHOOSE g : Run(g)
<1>8. Run(line)
  <2> HIDE DEF Run
  <2> QED BY <1>7
<1>9. Superclasses(input, name) = Tail(line[n])
    BY DEF Superclasses, MoreOf
<1> HIDE DEF line
<1>10. line[0] = base /\ \A k \in 1..n : line[k] = MoreOf(input, line[k - 1])
  <2>1. 0 \in 0..n /\ \A k \in 1..n : k \in 0..n /\ k # 0
      BY <1>1
  <2> HIDE DEF n
  <2> QED BY <1>8, <2>1
<1>11. \A k \in 0..n : line[k] = f[k]
  <2> HIDE DEF n, T, step, Run
  <2>1. Alongside(line, f, n)
      BY <1>1, <1>5, <1>6, <1>10 DEF Alongside, Values
  <2> QED BY <2>1, GoOnAlike
<1>12. line[n] \in T
  <2>1. n \in 0..n
      BY <1>1
  <2> HIDE DEF n, T, step, Run
  <2> QED BY <1>5, <1>11, <2>1 DEF Values
<1>13. PICK t : t = line[n]
    OBVIOUS
<1>14. Tail(t) \in Seq(E)
  <2>1. t \in Seq(E) /\ t # <<>>
      BY <1>12, <1>13
  <2> HIDE DEF E
  <2> QED BY <2>1
<1> QED BY <1>9, <1>13, <1>14, Sequences

\* Rows of a list are a list.
LEMMA RowsListed ==
    ASSUME NEW relation, NEW targets, IsSequence(targets)
    PROVE  IsSequence(Rows(relation, targets))
<1>1. PICK t : t = Rows(relation, targets)
    OBVIOUS
<1>2. t = [i \in DOMAIN targets |-> t[i]]
    BY <1>1 DEF Rows
<1> QED BY <1>1, <1>2, MadeSequence

BelowOf(input, owner, n) ==
    (IF ClassNamed(input, n).super = owner THEN <<Row("direct_subclass", n)>> ELSE <<>>)
    \o (IF owner \in ToSet(ClassNamed(input, n).interfaces) THEN <<Row("direct_implementor", n)>> ELSE <<>>)

\* The classes below one are a list.
LEMMA BelowListed == \A input, owner, n : IsSequence(BelowOf(input, owner, n))
<1> TAKE input, owner, n
<1>1. PICK s : s = IF ClassNamed(input, n).super = owner THEN <<Row("direct_subclass", n)>> ELSE <<>>
    OBVIOUS
<1>2. PICK t : t = IF owner \in ToSet(ClassNamed(input, n).interfaces) THEN <<Row("direct_implementor", n)>> ELSE <<>>
    OBVIOUS
<1>3. IsSequence(s) /\ IsSequence(t)
    BY <1>1, <1>2, ShortSequences
<1> QED BY <1>1, <1>2, <1>3, ConcatSequence DEF BelowOf

\* The class that a name stands for is one of the input.
LEMMA NamedClass ==
    ASSUME NEW input, SoundInput(input), NEW name \in Owners(input)
    PROVE  Sound(ClassNamed(input, name))
<1>1. \E i \in DOMAIN input : \E c \in ToSet(input[i].classes) : c.name = name
    BY OwnersFinite DEF SoundInput
<1>2. PICK S : S = UNION {ToSet(input[i].classes) : i \in DOMAIN input}
    OBVIOUS
<1>3. \E c \in S : c.name = name
    BY <1>1, <1>2
<1>4. ClassNamed(input, name) \in S
    BY <1>2, <1>3 DEF ClassNamed
<1> QED BY <1>2, <1>4, SoundClass

\* The names of classes in their order are a list.
LEMMA AscendingListed ==
    ASSUME NEW S, IsFiniteSet(S), NEW w, w = Ascending(S, LAMBDA n : Units[n])
    PROVE  IsSequence(w)
<1> DEFINE f(k) == CHOOSE x \in S : Cardinality({y \in S : Units[y] < Units[x]}) = k - 1
<1>1. w = [k \in 1..Cardinality(S) |-> f(k)]
    BY DEF Ascending
<1> HIDE DEF f
<1>2. w = [i \in 1..Cardinality(S) |-> w[i]]
    BY <1>1
<1> QED BY <1>2, AscendingSequence

\* Hierarchy pages through a list.
LEMMA HierarchyListed ==
    ASSUME NEW input, SoundInput(input), NEW q, q.class_name \in Owners(input)
    PROVE  \E R : IsSequence(R) /\ \A o, n : Hierarchy(input, q, o, n) = Listed(R, o, n)
<1>1. PICK owner : owner = q.class_name
    OBVIOUS
<1>2. IsFiniteSet(Owners(input)) /\ Sound(ClassNamed(input, owner))
    BY <1>1, OwnersFinite, NamedClass DEF SoundInput
<1>3. PICK a : a = Rows("superclass", Superclasses(input, owner))
    OBVIOUS
<1>4. IsSequence(a)
    BY <1>2, <1>3, SuperclassesListed, RowsListed
<1>5. PICK b : b = Rows("interface", ByUnits(ClassNamed(input, owner).interfaces))
    OBVIOUS
<1>6. IsSequence(b)
  <2>1. PICK s : s = ClassNamed(input, owner).interfaces
      OBVIOUS
  <2>2. IsSequence(s)
      BY <1>2, <2>1 DEF Sound, Readable
  <2>3. IsSequence(ByUnits(s))
      BY <2>2, SortedSequence DEF ByUnits, SortedBy
  <2> QED BY <1>5, <2>1, <2>3, RowsListed
<1>7. PICK names : names = Ascending(Owners(input), LAMBDA n : Units[n])
    OBVIOUS
<1>8. IsSequence(names)
    BY <1>2, <1>7, AscendingListed
<1>9. PICK t : t = [i \in DOMAIN names |-> BelowOf(input, owner, names[i])]
    OBVIOUS
<1>10. IsSequence(FlattenSeq(t))
  <2>1. t = [i \in DOMAIN names |-> t[i]] /\ \A i \in 1..Len(names) : IsSequence(t[i])
      BY <1>8, <1>9, BelowListed, SequenceParts
  <2> QED BY <1>8, <2>1, EachListed
<1>11. PICK R : R = a \o b \o FlattenSeq(t)
    OBVIOUS
<1>12. IsSequence(R)
  <2>1. IsSequence(a \o b)
      BY <1>4, <1>6, ConcatSequence, SMTT(30)
  <2> QED BY <1>10, <1>11, <2>1, ConcatSequence
<1>13. \A o, n : Hierarchy(input, q, o, n) = Listed(R, o, n)
    BY <1>1, <1>3, <1>5, <1>7, <1>9, <1>11 DEF Hierarchy, Each, BelowOf
<1> QED BY <1>12, <1>13

OutlineOf(c, q) ==
    (IF q.operation = "list_methods" THEN <<>>
     ELSE Rows("interface", ByUnits(c.interfaces)) \o Rows("field", Fields(c)))
    \o Rows("method", Ids(Methods(c)))

OutlineByClass(dex, q) == [j \in DOMAIN Visited(dex, q) |-> OutlineOf(Visited(dex, q)[j], q)]
OutlineByFile(input, q) == [i \in DOMAIN input |-> FlattenSeq(OutlineByClass(input[i], q))]

\* The outline of a class is a list.
LEMMA OutlineOfListed ==
    ASSUME NEW c, Readable(c), NEW q
    PROVE  IsSequence(OutlineOf(c, q))
<1>1. PICK a : a = Rows("interface", ByUnits(c.interfaces))
    OBVIOUS
<1>2. IsSequence(a)
  <2>1. IsSequence(c.interfaces)
      BY DEF Readable
  <2>2. IsSequence(ByUnits(c.interfaces))
      BY <2>1, SortedSequence DEF ByUnits, SortedBy
  <2> QED BY <1>1, <2>2, RowsListed
<1>3. PICK b : b = Rows("field", Fields(c))
    OBVIOUS
<1>4. IsSequence(b)
    BY <1>3, MembersListed, RowsListed
<1>5. PICK m : m = Rows("method", Ids(Methods(c)))
    OBVIOUS
<1>6. IsSequence(m)
  <2>1. IsSequence(Ids(Methods(c)))
      BY MembersListed, IdsListed
  <2> QED BY <1>5, <2>1, RowsListed
<1>7. PICK s : s = IF q.operation = "list_methods" THEN <<>> ELSE a \o b
    OBVIOUS
<1>8. IsSequence(s)
    BY <1>2, <1>4, <1>7, ConcatSequence, ShortSequences
<1>9. OutlineOf(c, q) = s \o m
    BY <1>1, <1>3, <1>5, <1>7 DEF OutlineOf
<1> QED BY <1>6, <1>8, <1>9, ConcatSequence

\* The classes that a query visits are classes of the file.
LEMMA VisitedListed ==
    ASSUME NEW dex, SoundFile(dex), NEW q
    PROVE  /\ IsSequence(Visited(dex, q)) /\ DOMAIN Visited(dex, q) = 1..Len(Visited(dex, q))
           /\ \A j \in 1..Len(Visited(dex, q)) : Sound(Visited(dex, q)[j])
<1>1. PICK u : u = Classes(dex)
    OBVIOUS
<1>2. IsSequence(u) /\ ToSet(u) = ToSet(dex.classes)
    BY <1>1, ClassesListed DEF SoundFile
<1>3. PICK s : s = Visited(dex, q)
    OBVIOUS
<1>4. s = Only(u, {c \in ToSet(u) : Some(q, "class_name") => c.name = q.class_name})
    BY <1>1, <1>3 DEF Visited, Where
<1>5. IsSequence(s) /\ ToSet(s) \subseteq ToSet(u)
    BY <1>2, <1>4, OnlySequence
<1>6. DOMAIN s = 1..Len(s) /\ \A j \in 1..Len(s) : s[j] \in ToSet(s)
    BY <1>5, SequenceParts
<1> QED BY <1>2, <1>3, <1>5, <1>6 DEF SoundFile

\* Outline pages through a list.
LEMMA OutlineListed ==
    ASSUME NEW input, SoundInput(input), NEW q
    PROVE  \E R : IsSequence(R) /\ \A o, n : Outline(input, q, o, n) = Listed(R, o, n)
<1>1. IsSequence(input) /\ DOMAIN input = 1..Len(input) /\ \A i \in 1..Len(input) : SoundFile(input[i])
    BY InputFiles
<1>2. \A i \in 1..Len(input) : IsSequence(FlattenSeq(OutlineByClass(input[i], q)))
  <2> TAKE i \in 1..Len(input)
  <2>1. PICK dex : dex = input[i]
      OBVIOUS
  <2>2. PICK s : s = Visited(dex, q)
      OBVIOUS
  <2>3. IsSequence(s) /\ DOMAIN s = 1..Len(s) /\ \A j \in 1..Len(s) : Readable(s[j])
      BY <1>1, <2>1, <2>2, VisitedListed DEF Sound
  <2>4. PICK t : t = OutlineByClass(dex, q)
      OBVIOUS
  <2>5. t = [j \in DOMAIN s |-> OutlineOf(s[j], q)]
      BY <2>2, <2>4 DEF OutlineByClass
  <2>6. t = [j \in DOMAIN s |-> t[j]] /\ \A j \in 1..Len(s) : IsSequence(t[j])
      BY <2>3, <2>5, OutlineOfListed
  <2> QED BY <2>1, <2>3, <2>4, <2>6, EachListed
<1>3. PICK t : t = OutlineByFile(input, q)
    OBVIOUS
<1>4. t = [i \in DOMAIN input |-> t[i]] /\ \A i \in 1..Len(input) : IsSequence(t[i])
    BY <1>1, <1>2, <1>3 DEF OutlineByFile
<1>5. IsSequence(FlattenSeq(t))
    BY <1>1, <1>4, EachListed
<1>6. \A o, n : Outline(input, q, o, n) = Listed(FlattenSeq(t), o, n)
    BY <1>3 DEF Outline, OutlineByFile, OutlineByClass, OutlineOf, Each
<1> QED BY <1>5, <1>6

BodiesByMethod(dex, c, q) == [k \in DOMAIN AskedMethods(c, q) |-> Instructions(dex, AskedMethods(c, q)[k])]
BodiesByClass(dex, q) == [j \in DOMAIN Visited(dex, q) |-> FlattenSeq(BodiesByMethod(dex, Visited(dex, q)[j], q))]
BodiesByFile(input, q) == [i \in DOMAIN input |-> FlattenSeq(BodiesByClass(input[i], q))]
ShownBodies(input, q) == Where(FlattenSeq(BodiesByFile(input, q)), LAMBDA s : Shown(q, s))
BodiesKey(input, q) == [s \in ToSet(ShownBodies(input, q)) |-> <<Units[s.caller], s.at>>]

\* Bodies pages through its rows, sorted.
LEMMA BodiesAre ==
    ASSUME NEW input, NEW q, ~(Some(q, "method_descriptor") /\ ~Declared(input, q.method_descriptor))
    PROVE  \A o, n : Bodies(input, q, o, n)
                = SortedPage(ShownBodies(input, q), o, n, BodiesKey(input, q))
BY DEF Bodies, ShownBodies, BodiesKey, BodiesByFile, BodiesByClass, BodiesByMethod, Each

\* The bodies of a class are a list.
LEMMA ClassBodiesListed ==
    ASSUME NEW c, Readable(c), NEW dex, NEW q
    PROVE  IsSequence(FlattenSeq(BodiesByMethod(dex, c, q)))
<1>1. PICK u : u = Methods(c)
    OBVIOUS
<1>2. IsSequence(u) /\ ToSet(u) = ToSet(c.methods)
    BY <1>1, MembersListed
<1>3. PICK s : s = AskedMethods(c, q)
    OBVIOUS
<1>4. s = Only(u, {m \in ToSet(u) : Some(q, "method_descriptor") => m.id = q.method_descriptor})
    BY <1>1, <1>3 DEF AskedMethods, Where
<1>5. IsSequence(s) /\ ToSet(s) \subseteq ToSet(u)
    BY <1>2, <1>4, OnlySequence
<1>6. DOMAIN s = 1..Len(s) /\ \A k \in 1..Len(s) : s[k] \in ToSet(c.methods)
    BY <1>2, <1>5, SequenceParts
<1>7. PICK t : t = BodiesByMethod(dex, c, q)
    OBVIOUS
<1>8. t = [k \in DOMAIN s |-> Instructions(dex, s[k])]
    BY <1>3, <1>7 DEF BodiesByMethod
<1>9. t = [k \in DOMAIN s |-> t[k]] /\ \A k \in 1..Len(s) : IsSequence(t[k])
    BY <1>6, <1>8, InstructionsListed
<1> QED BY <1>5, <1>7, <1>9, EachListed

\* So are those of an input that are shown.
LEMMA BodiesListed ==
    ASSUME NEW input, SoundInput(input), NEW q
    PROVE  IsSequence(ShownBodies(input, q))
<1>1. IsSequence(input) /\ DOMAIN input = 1..Len(input) /\ \A i \in 1..Len(input) : SoundFile(input[i])
    BY InputFiles
<1>2. \A i \in 1..Len(input) : IsSequence(FlattenSeq(BodiesByClass(input[i], q)))
  <2> TAKE i \in 1..Len(input)
  <2>1. PICK dex : dex = input[i]
      OBVIOUS
  <2>2. PICK s : s = Visited(dex, q)
      OBVIOUS
  <2>3. IsSequence(s) /\ DOMAIN s = 1..Len(s) /\ \A j \in 1..Len(s) : Readable(s[j])
      BY <1>1, <2>1, <2>2, VisitedListed DEF Sound
  <2>4. PICK t : t = BodiesByClass(dex, q)
      OBVIOUS
  <2>5. t = [j \in DOMAIN s |-> FlattenSeq(BodiesByMethod(dex, s[j], q))]
      BY <2>2, <2>4 DEF BodiesByClass
  <2>6. t = [j \in DOMAIN s |-> t[j]] /\ \A j \in 1..Len(s) : IsSequence(t[j])
      BY <2>3, <2>5, ClassBodiesListed
  <2> QED BY <2>1, <2>3, <2>4, <2>6, EachListed
<1>3. PICK t : t = BodiesByFile(input, q)
    OBVIOUS
<1>4. t = [i \in DOMAIN input |-> t[i]] /\ \A i \in 1..Len(input) : IsSequence(t[i])
    BY <1>1, <1>2, <1>3 DEF BodiesByFile
<1>5. PICK f : f = FlattenSeq(t)
    OBVIOUS
<1>6. IsSequence(f)
    BY <1>1, <1>4, <1>5, EachListed
<1>7. ShownBodies(input, q) = Only(f, {s \in ToSet(f) : Shown(q, s)})
    BY <1>3, <1>5 DEF ShownBodies, Where
<1> QED BY <1>6, <1>7, OnlySequence

\* ClassPage pages through a list.
LEMMA ClassPageListed ==
    ASSUME NEW input, SoundInput(input), NEW q
    PROVE  \E R : IsSequence(R) /\ \A o, n : ClassPage(input, q, o, n) = Listed(R, o, n)
<1>1. PICK names : names = {n \in Owners(input) : Some(q, "prefix") => Starts(n, q.prefix)}
    OBVIOUS
<1>2. IsFiniteSet(names)
  <2>1. names \subseteq Owners(input)
      BY <1>1
  <2> QED BY <2>1, OwnersFinite, FS_Subset DEF SoundInput
<1>3. PICK w : w = Ascending(names, LAMBDA n : Units[n])
    OBVIOUS
<1>4. IsSequence(w)
    BY <1>2, <1>3, AscendingListed
<1>5. PICK R : R = [i \in DOMAIN w |-> [target |-> w[i], entry |-> EntryOf(input, w[i])]]
    OBVIOUS
<1>6. R = [i \in DOMAIN w |-> R[i]]
    BY <1>5
<1>7. IsSequence(R)
    BY <1>4, <1>6, MadeSequence
<1>8. \A o, n : ClassPage(input, q, o, n) = Listed(R, o, n)
    BY <1>1, <1>3, <1>5 DEF ClassPage
<1> QED BY <1>7, <1>8

(* The review of two preparations, and of the string pool. *)

DeclaredIn(c, kind) ==
    (IF kind \in {"all", "class"} THEN <<c.name>> ELSE <<>>)
    \o (IF kind \in {"all", "field"} THEN Fields(c) ELSE <<>>)
    \o (IF kind \in {"all", "method"} THEN Ids(Methods(c)) ELSE <<>>)

\* What a class declares is a list.
LEMMA DeclaredInListed ==
    ASSUME NEW c, Readable(c), NEW kind
    PROVE  IsSequence(DeclaredIn(c, kind))
<1>1. PICK a : a = IF kind \in {"all", "class"} THEN <<c.name>> ELSE <<>>
    OBVIOUS
<1>2. PICK b : b = IF kind \in {"all", "field"} THEN Fields(c) ELSE <<>>
    OBVIOUS
<1>3. PICK d : d = IF kind \in {"all", "method"} THEN Ids(Methods(c)) ELSE <<>>
    OBVIOUS
<1>4. IsSequence(a) /\ IsSequence(b)
    BY <1>1, <1>2, ShortSequences, MembersListed
<1>5. IsSequence(d)
    BY <1>3, ShortSequences, MembersListed, IdsListed
<1>6. DeclaredIn(c, kind) = (a \o b) \o d
    BY <1>1, <1>2, <1>3 DEF DeclaredIn
<1>7. IsSequence(a \o b)
    BY <1>4, ConcatSequence
<1> QED BY <1>5, <1>6, <1>7, ConcatSequence

\* So is what an input declares.
LEMMA DeclarationsListed ==
    ASSUME NEW input, ReadableInput(input), NEW kind
    PROVE  IsSequence(DeclarationsOf(input, kind))
<1>1. IsSequence(input) /\ DOMAIN input = 1..Len(input)
    BY SequenceParts DEF ReadableInput
<1>2. \A i \in 1..Len(input) : IsSequence(DeclaredOf(input[i], kind))
  <2> TAKE i \in 1..Len(input)
  <2>1. PICK dex : dex = input[i]
      OBVIOUS
  <2>2. IsSequence(dex.classes) /\ \A j \in DOMAIN dex.classes : Readable(dex.classes[j])
      BY <1>1, <2>1 DEF ReadableInput
  <2>3. PICK s : s = Classes(dex)
      OBVIOUS
  <2>4. IsSequence(s) /\ ToSet(s) = ToSet(dex.classes)
      BY <2>2, <2>3, ClassesListed
  <2>5. \A c \in ToSet(dex.classes) : Readable(c)
      BY <2>2, SequenceParts
  <2>6. DOMAIN s = 1..Len(s) /\ \A j \in 1..Len(s) : Readable(s[j])
      BY <2>4, <2>5, SequenceParts
  <2>7. PICK t : t = [j \in DOMAIN s |-> DeclaredIn(s[j], kind)]
      OBVIOUS
  <2>8. t = [j \in DOMAIN s |-> t[j]] /\ \A j \in 1..Len(s) : IsSequence(t[j])
      BY <2>6, <2>7, DeclaredInListed
  <2>9. IsSequence(FlattenSeq(t))
      BY <2>4, <2>8, EachListed
  <2> QED BY <2>1, <2>3, <2>7, <2>9 DEF DeclaredOf, DeclaredIn, Each
<1>3. PICK t : t = [i \in DOMAIN input |-> DeclaredOf(input[i], kind)]
    OBVIOUS
<1>4. t = [i \in DOMAIN input |-> t[i]] /\ \A i \in 1..Len(input) : IsSequence(t[i])
    BY <1>1, <1>2, <1>3
<1>5. IsSequence(FlattenSeq(t))
    BY <1>1, <1>4, EachListed
<1> QED BY <1>3, <1>5 DEF DeclarationsOf, Each

StateIn(before, after, n) ==
    CASE n \notin ToSet(before) -> "added" [] n \notin ToSet(after) -> "removed" [] OTHER -> "unchanged"

ChangedIn(before, after, q) ==
    {n \in ToSet(before) \cup ToSet(after) :
        StateIn(before, after, n) # "unchanged" /\ q.change \in {"all", StateIn(before, after, n)}}

ChangeRows(old, new, q, rows) ==
    [i \in DOMAIN rows |->
        [target |-> rows[i], relation |-> StateIn(DeclarationsOf(old, q.kind), DeclarationsOf(new, q.kind), rows[i]),
         old |-> EntryOf(old, rows[i]), new |-> EntryOf(new, rows[i])]]

\* Difference refuses what is declared twice, or pages through a list.
LEMMA DifferenceListed ==
    ASSUME NEW old, ReadableInput(old), NEW new, ReadableInput(new), NEW q
    PROVE  \E R : IsSequence(R) /\ \A o, n : Difference(old, new, q, o, n)
            = IF ~(NoRepeats(DeclarationsOf(old, q.kind)) /\ NoRepeats(DeclarationsOf(new, q.kind)))
              THEN Failure("inventory_or_scan_error") ELSE Listed(R, o, n)
<1>1. PICK before, after : before = DeclarationsOf(old, q.kind) /\ after = DeclarationsOf(new, q.kind)
    OBVIOUS
<1>2. IsSequence(before) /\ IsSequence(after)
    BY <1>1, DeclarationsListed
<1>3. PICK shown : shown = ChangedIn(before, after, q)
    OBVIOUS
<1>4. IsFiniteSet(shown)
  <2>1. shown \subseteq ToSet(before) \cup ToSet(after)
      BY <1>3 DEF ChangedIn
  <2>2. IsFiniteSet(ToSet(before)) /\ IsFiniteSet(ToSet(after))
      BY <1>2, FiniteElements
  <2>3. IsFiniteSet(ToSet(before) \cup ToSet(after))
      BY <2>2, FS_Union
  <2> QED BY <2>1, <2>3, FS_Subset
<1>5. PICK w : w = Ascending(shown, LAMBDA n : Units[n])
    OBVIOUS
<1>6. IsSequence(w)
    BY <1>4, <1>5, AscendingListed
<1>7. PICK R : R = ChangeRows(old, new, q, w)
    OBVIOUS
<1>8. R = [i \in DOMAIN w |-> R[i]]
    BY <1>7 DEF ChangeRows
<1>9. IsSequence(R)
    BY <1>6, <1>8, MadeSequence
<1>10. \A o, n : Difference(old, new, q, o, n)
            = IF ~(NoRepeats(before) /\ NoRepeats(after)) THEN Failure("inventory_or_scan_error") ELSE Listed(R, o, n)
    BY <1>1, <1>3, <1>5, <1>7 DEF Difference, ChangedIn, StateIn, ChangeRows
<1> QED BY <1>1, <1>9, <1>10

CandidatesAt(dex, q, i) == Where(Candidates[dex.strings[i]], LAMBDA p : q.pattern \in {"all", p})

SecretsAt(dex, q, i) ==
    [k \in DOMAIN CandidatesAt(dex, q, i) |->
        [entry |-> dex.entry, at |-> i, relation |-> CandidatesAt(dex, q, i)[k], n |-> k]]

SecretsIn(dex, q) == FlattenSeq([i \in DOMAIN dex.strings |-> SecretsAt(dex, q, i)])

\* The candidates of a file are a list.
LEMMA SecretsInListed ==
    ASSUME NEW dex, IsSequence(dex.strings), \A j \in DOMAIN dex.strings : IsSequence(Candidates[dex.strings[j]]),
           NEW q
    PROVE  IsSequence(SecretsIn(dex, q))
<1>1. PICK s : s = dex.strings
    OBVIOUS
<1>2. IsSequence(s) /\ DOMAIN s = 1..Len(s)
    BY <1>1, SequenceParts
<1>3. \A i \in 1..Len(s) : IsSequence(SecretsAt(dex, q, i))
  <2> TAKE i \in 1..Len(s)
  <2>1. IsSequence(Candidates[s[i]])
      BY <1>1, <1>2
  <2>2. PICK w : w = CandidatesAt(dex, q, i)
      OBVIOUS
  <2>3. IsSequence(w)
      BY <1>1, <2>1, <2>2, OnlySequence DEF CandidatesAt, Where
  <2>4. PICK t : t = SecretsAt(dex, q, i)
      OBVIOUS
  <2>5. t = [k \in DOMAIN w |-> t[k]]
      BY <2>2, <2>4 DEF SecretsAt
  <2> QED BY <2>3, <2>4, <2>5, MadeSequence
<1>4. PICK t : t = [i \in DOMAIN s |-> SecretsAt(dex, q, i)]
    OBVIOUS
<1>5. t = [i \in DOMAIN s |-> t[i]] /\ \A i \in 1..Len(s) : IsSequence(t[i])
    BY <1>2, <1>3, <1>4
<1> QED BY <1>1, <1>2, <1>4, <1>5, EachListed DEF SecretsIn

\* Secrets pages through a list.
LEMMA SecretsListed ==
    ASSUME NEW input, SoundInput(input), NEW q
    PROVE  \E R : IsSequence(R) /\ \A o, n : Secrets(input, q, o, n) = Listed(R, o, n)
<1>1. IsSequence(input) /\ DOMAIN input = 1..Len(input)
    BY InputFiles
<1>2. \A i \in 1..Len(input) : IsSequence(SecretsIn(input[i], q))
    BY <1>1, SecretsInListed DEF SoundInput, ReadableInput
<1>3. PICK t : t = [i \in DOMAIN input |-> SecretsIn(input[i], q)]
    OBVIOUS
<1>4. t = [i \in DOMAIN input |-> t[i]] /\ \A i \in 1..Len(input) : IsSequence(t[i])
    BY <1>1, <1>2, <1>3
<1>5. IsSequence(FlattenSeq(t))
    BY <1>1, <1>4, EachListed
<1>6. \A o, n : Secrets(input, q, o, n) = Listed(FlattenSeq(t), o, n)
    BY <1>3 DEF Secrets, SecretsIn, SecretsAt, CandidatesAt, Each
<1> QED BY <1>5, <1>6

-----------------------------------------------------------------------------
(***************************************************************************)
(* The pages of a worker divide a listing, whether an index answers or not.*)
(***************************************************************************)

RoutedFails(dex, q) ==
    \A full \in BOOLEAN, o \in Nat, n \in Limits :
        Shaped(Routed(dex, q, o, n, full)) /\ Routed(dex, q, o, n, full).status # "ok"

RoutedParts(dex, q, R) ==
    /\ IsSequence(R)
    /\ \A full \in BOOLEAN, o \in 0..Len(R), n \in Limits :
        /\ PartOf(Routed(dex, q, o, n, full), R, o)
        /\ SelectedQuery(q) => Routed(dex, q, o, n, full).status = "ok"

Special == {"find_refs", "get_class_source", "get_method_source"}

\* The first row tells the length of the listing, and so how long a page to ask for.
LEMMA WholeIs ==
    ASSUME NEW dex, NEW q, q.operation \notin Special, NEW R, IsSequence(R),
           Routed(dex, q, 0, 1, FALSE).total = Len(R),
           Routed(dex, q, 0, Len(R) + SpoolFrom, FALSE).items = R
    PROVE  WholeOfDex(dex, q) = R
BY DEF WholeOfDex, Special, Entire

\* A first page that is long enough is the listing.
LEMMA PagedWhole ==
    ASSUME NEW R, IsSequence(R), NEW n \in Limits
    PROVE  /\ PageResult(Listed(R, 0, n), 0, n).total = Len(R)
           /\ n >= Len(R) => PageResult(Listed(R, 0, n), 0, n).items = R
<1>1. PICK w : w = Window(R, 0, n)
    OBVIOUS
<1>2. Listed(R, 0, n) = [status |-> "ok", items |-> w, total |-> Len(R), next |-> None]
    BY <1>1 DEF Listed, Answer
<1>3. /\ PageResult(Listed(R, 0, n), 0, n).total = Len(R)
      /\ PageResult(Listed(R, 0, n), 0, n).items = w
    BY <1>2 DEF PageResult
<1>4. n \in Nat
    BY DEF Limits
<1> QED BY <1>1, <1>3, <1>4, WindowWhole

\* The length of a listing and a spooled page are limits.
LEMMA SpoolLimits ==
    ASSUME NEW R, IsSequence(R)
    PROVE  /\ 1 \in Limits /\ SpoolFrom \in Nat /\ Len(R) \in Nat
           /\ Len(R) + SpoolFrom \in Limits /\ Len(R) + SpoolFrom >= Len(R)
           /\ Len(R) > 0 => Len(R) + SpoolFrom > SpoolFrom
           /\ SpoolFrom >= 1 /\ HeapRoom \in Nat /\ HeapRoom >= 1
<1>1. SpoolFrom \in Nat \ {0} /\ HeapRoom \in Nat \ {0}
    BY PagesAssumption DEF PagesAssumption
<1>2. Len(R) \in Nat
    BY SequenceParts
<1> QED BY <1>1, <1>2 DEF Limits

\* A handler that pages through a list serves its parts.
LEMMA ListedPages ==
    ASSUME NEW dex, NEW q, q.operation \notin Special, NEW R, IsSequence(R),
           \A full \in BOOLEAN : \A o, n : Routed(dex, q, o, n, full) = PageResult(Listed(R, o, n), o, n)
    PROVE  RoutedParts(dex, q, WholeOfDex(dex, q))
<1>1. PICK m : m = Len(R) + SpoolFrom
    OBVIOUS
<1>2. m \in Limits /\ m >= Len(R) /\ 1 \in Limits
    BY <1>1, SpoolLimits
<1>3. Routed(dex, q, 0, 1, FALSE).total = Len(R) /\ Routed(dex, q, 0, m, FALSE).items = R
  <2>1. PageResult(Listed(R, 0, 1), 0, 1).total = Len(R)
      BY <1>2, PagedWhole
  <2>2. PageResult(Listed(R, 0, m), 0, m).items = R
      BY <1>2, PagedWhole
  <2>3. /\ Routed(dex, q, 0, 1, FALSE) = PageResult(Listed(R, 0, 1), 0, 1)
        /\ Routed(dex, q, 0, m, FALSE) = PageResult(Listed(R, 0, m), 0, m)
      OBVIOUS
  <2> QED BY <2>1, <2>2, <2>3
<1>4. WholeOfDex(dex, q) = R
    BY <1>1, <1>3, WholeIs
<1>5. RoutedParts(dex, q, R)
    BY PagedPart DEF RoutedParts
<1> QED BY <1>4, <1>5

\* A sorted page that starts the listing does not exceed the memory when it is one
\* row, or is long enough to be spooled.
LEMMA SortedStart ==
    ASSUME NEW rows, IsSequence(rows), NEW key, NEW n \in Limits, n = 1 \/ n = Len(rows) + SpoolFrom
    PROVE  SortedPage(rows, 0, n, key) = Listed(Sorted(rows, key), 0, n)
<1>1. Len(rows) \in Nat /\ SpoolFrom \in Nat /\ HeapRoom \in Nat /\ HeapRoom >= 1 /\ 0 \in 0..Len(rows) /\ n \in Nat
      /\ (Len(rows) > 0 => Len(rows) + SpoolFrom > SpoolFrom) /\ rows \in Seq(ToSet(rows))
    BY SpoolLimits, SequenceParts DEF Limits
<1>2. CASE 0 + n > SpoolFrom
    BY <1>2 DEF SortedPage
<1>3. CASE ~(0 + n > SpoolFrom)
  <2>1. 0 + n = n
      BY <1>1
  <2>2. n = 1 \/ Len(rows) = 0
      BY <1>1, <1>3, <2>1
  <2>3. PICK s : s = Sorted(rows, key)
      OBVIOUS
  <2>4. IsSequence(s) /\ Len(s) = Len(rows)
      BY <2>3, SortedSequence
  <2>5. PICK h : h = Heap(rows, 0 + n, key)
      OBVIOUS
  <2>6. h = First(s, n)
      BY <1>1, <2>1, <2>3, <2>5, HeapFirst
  <2>7. Len(h) = Least(n, Len(s))
      BY <1>1, <2>4, <2>6, FirstSlice
  <2>8. ~(Len(h) > HeapRoom)
      BY <1>1, <2>2, <2>4, <2>7 DEF Least
  <2>9. SortedPage(rows, 0, n, key) = Answer(Window(h, 0, n), Len(rows))
      BY <1>3, <2>5, <2>8 DEF SortedPage
  <2>10. SortedPage(rows, 0, n, key).status # "page_exceeds_budget"
      BY <2>9 DEF Answer
  <2> QED BY <1>1, <2>10, SortedPart
<1> QED BY <1>2, <1>3

\* Sorted rows, of which an index may have a list.
LEMMA SortedPages ==
    ASSUME NEW dex, NEW q, q.operation \notin Special, ~SelectedQuery(q),
           NEW rows, IsSequence(rows), NEW key,
           \A o, n : Routed(dex, q, o, n, FALSE) = PageResult(SortedPage(rows, o, n, key), o, n),
           \A o, n : Routed(dex, q, o, n, TRUE) \in
                {PageResult(SortedPage(rows, o, n, key), o, n), CountedPage(Listed(Sorted(rows, key), o, n), o)}
    PROVE  RoutedParts(dex, q, WholeOfDex(dex, q))
<1>1. PICK R : R = Sorted(rows, key)
    OBVIOUS
<1>2. IsSequence(R) /\ Len(R) = Len(rows)
    BY <1>1, SortedSequence
<1>3. PICK m : m = Len(R) + SpoolFrom
    OBVIOUS
<1>4. m \in Limits /\ m >= Len(R) /\ 1 \in Limits
    BY <1>2, <1>3, SpoolLimits
<1>5. SortedPage(rows, 0, 1, key) = Listed(R, 0, 1) /\ SortedPage(rows, 0, m, key) = Listed(R, 0, m)
    BY <1>1, <1>2, <1>3, <1>4, SortedStart
<1>6. Routed(dex, q, 0, 1, FALSE).total = Len(R) /\ Routed(dex, q, 0, m, FALSE).items = R
  <2>1. PageResult(Listed(R, 0, 1), 0, 1).total = Len(R)
      BY <1>2, <1>4, PagedWhole
  <2>2. PageResult(Listed(R, 0, m), 0, m).items = R
      BY <1>2, <1>4, PagedWhole
  <2>3. /\ Routed(dex, q, 0, 1, FALSE) = PageResult(SortedPage(rows, 0, 1, key), 0, 1)
        /\ Routed(dex, q, 0, m, FALSE) = PageResult(SortedPage(rows, 0, m, key), 0, m)
      OBVIOUS
  <2> QED BY <1>5, <2>1, <2>2, <2>3
<1>7. WholeOfDex(dex, q) = R
    BY <1>2, <1>3, <1>6, WholeIs
<1>8. ASSUME NEW full \in BOOLEAN, NEW o \in 0..Len(R), NEW n \in Limits
      PROVE  PartOf(Routed(dex, q, o, n, full), R, o)
  <2>1. PartOf(PageResult(SortedPage(rows, o, n, key), o, n), R, o)
      BY <1>1, <1>2, SortedPart
  <2>2. PartOf(CountedPage(Listed(R, o, n), o), R, o)
      BY <1>2, PagedPart
  <2>3. Routed(dex, q, o, n, full) \in {PageResult(SortedPage(rows, o, n, key), o, n), CountedPage(Listed(R, o, n), o)}
      BY <1>1
  <2> QED BY <2>1, <2>2, <2>3
<1>9. RoutedParts(dex, q, R)
    BY <1>2, <1>8 DEF RoutedParts
<1> QED BY <1>7, <1>9

\* Printed lines.
LEMMA LinePages ==
    ASSUME NEW dex, NEW q, ~SelectedQuery(q), NEW R, IsSequence(R), WholeOfDex(dex, q) = R,
           \A full \in BOOLEAN : \A o, n : Routed(dex, q, o, n, full) = LinePage(R, o, n)
    PROVE  RoutedParts(dex, q, WholeOfDex(dex, q))
BY LinePart DEF RoutedParts

\* A handler that fails serves no part.
LEMMA FailingPages ==
    ASSUME NEW dex, NEW q, NEW code, code # "ok",
           \A full \in BOOLEAN : \A o, n : Routed(dex, q, o, n, full) \in {Failure(code), PageResult(Failure(code), o, n)}
    PROVE  RoutedFails(dex, q)
<1>1. \A o, n : PageResult(Failure(code), o, n) = Failure(code)
    BY FailedPart DEF PageResult
<1> QED BY <1>1, FailedPart DEF RoutedFails

\* What the assumptions say of an artifact's DEX files.
Ready(dex) ==
    /\ SoundInput(dex.input) /\ Distinct(dex.input) /\ Numbers(dex.input)
    /\ ReadableInput(dex.other) /\ IsSequence(dex.found)
    /\ None \notin Owners(dex.input) /\ \A c \in Owners(dex.input) : ReadableSource(Source[c])

Served(dex, q) == RoutedFails(dex, q) \/ RoutedParts(dex, q, WholeOfDex(dex, q))

\* Searches for operands.
LEMMA OperandServed ==
    ASSUME NEW dex, Ready(dex), NEW q, OperandQuery(q)
    PROVE  Served(dex, q)
<1>1. q.operation \notin Special
    BY DEF OperandQuery, Special
<1>2. PICK R : IsSequence(R) /\ \A o, n : TypeOperands(dex.input, q, o, n) = Listed(R, o, n)
    BY TypeOperandsListed DEF Ready
<1>3. \A full \in BOOLEAN : \A o, n : Routed(dex, q, o, n, full) = PageResult(Listed(R, o, n), o, n)
    BY <1>2 DEF Routed
<1> QED BY <1>1, <1>2, <1>3, ListedPages DEF Served

\* Uses of strings.
LEMMA StringsServed ==
    ASSUME NEW dex, Ready(dex), NEW q, q.operation = "find_string_refs"
    PROVE  Served(dex, q)
<1>1. q.operation \notin Special /\ ~OperandQuery(q)
    BY DEF OperandQuery, Special
<1>2. PICK R : IsSequence(R) /\ \A o, n : Strings(dex.input, q, o, n) = Listed(R, o, n)
    BY StringsListed DEF Ready
<1>3. \A full \in BOOLEAN : \A o, n : Routed(dex, q, o, n, full) = PageResult(Listed(R, o, n), o, n)
    BY <1>1, <1>2 DEF Routed
<1> QED BY <1>1, <1>2, <1>3, ListedPages DEF Served

\* Uses of types.
LEMMA TypesServed ==
    ASSUME NEW dex, Ready(dex), NEW q, q.operation = "find_type_refs", ~OperandQuery(q)
    PROVE  Served(dex, q)
<1>1. q.operation \notin Special /\ q.operation # "search_members" /\ q.operation # "get_method_calls"
    BY DEF Special
<1>2. PICK R : R = IndexRows(dex.input, q)
    OBVIOUS
<1>3. IsSequence(R)
    BY <1>2, IndexListed DEF Ready
<1>4. \A o, n : ByIndex(dex.input, q, o, n) = PageResult(Listed(R, o, n), o, n)
    BY <1>1, <1>2, ByIndexIs
<1>5. NeedsIndex(q)
    BY DEF NeedsIndex
<1>6. \A full \in BOOLEAN : \A o, n : Routed(dex, q, o, n, full) = ByIndex(dex.input, q, o, n)
    BY <1>5 DEF Routed
<1>7. \A full \in BOOLEAN : \A o, n : Routed(dex, q, o, n, full) = PageResult(Listed(R, o, n), o, n)
    BY <1>4, <1>6
<1> QED BY <1>1, <1>3, <1>7, ListedPages DEF Served

\* A query that names a member has one answer from a scan and from an index.
LEMMA RoutedReferences ==
    ASSUME NEW dex, NEW q, Pointed(q) \/ q.operation = "search_refs"
    PROVE  \A full \in BOOLEAN : \A o, n :
            /\ full /\ Pointed(q) => Routed(dex, q, o, n, full) = ByIndex(dex.input, q, o, n)
            /\ ~(full /\ Pointed(q)) => Routed(dex, q, o, n, full) = PageResult(References(dex.input, q, o, n), o, n)
<1>1. /\ ~OperandQuery(q) /\ q.operation # "find_string_refs" /\ q.operation # "find_type_refs"
      /\ q.operation \in ReferenceOps /\ (Indexable(q) <=> Pointed(q))
    BY DEF OperandQuery, Pointed, ReferenceOps, Indexable
<1>2. /\ q.operation \notin DiscoveryOps /\ q.operation \notin StructureOps \cup {"list_methods"}
      /\ q.operation \notin OwnerOps
      /\ q.operation \notin {"revision_diff", "secret_candidates", "build_xref_index", "info", "get_manifest", "find_refs"}
    BY DEF Pointed, DiscoveryOps, StructureOps, OwnerOps
<1> QED BY <1>1, <1>2 DEF Routed

\* References to members.
LEMMA PointedServed ==
    ASSUME NEW dex, Ready(dex), NEW q, Pointed(q) \/ q.operation = "search_refs"
    PROVE  Served(dex, q)
<1>1. q.operation \notin Special /\ q.operation # "search_members"
    BY DEF Special, Pointed
<1>2. PICK R : R = ScanRows(dex.input, q)
    OBVIOUS
<1>3. IsSequence(R) /\ (Pointed(q) => R = IndexRows(dex.input, q))
    BY <1>2, ScanListed, IndexIsScan DEF Ready
<1>4. q.operation = "get_method_calls" => AskedOf(q) = q.method_descriptor
    BY DEF AskedOf, KindOf
<1>5. CASE q.operation = "get_method_calls" /\ ~Declared(dex.input, q.method_descriptor)
  <2>1. \A o, n : References(dex.input, q, o, n) = Failure("method_not_found")
      BY <1>5, ReferencesAre
  <2>2. \A o, n : ByIndex(dex.input, q, o, n) = Failure("method_not_found")
      BY <1>1, <1>4, <1>5, ByIndexIs
  <2>3. \A full \in BOOLEAN : \A o, n : Routed(dex, q, o, n, full) \in
            {Failure("method_not_found"), PageResult(Failure("method_not_found"), o, n)}
      BY <2>1, <2>2, RoutedReferences
  <2> QED BY <2>3, FailingPages DEF Served
<1>6. CASE ~(q.operation = "get_method_calls" /\ ~Declared(dex.input, q.method_descriptor))
  <2>1. \A o, n : References(dex.input, q, o, n) = Listed(R, o, n)
      BY <1>2, <1>6, ReferencesAre
  <2>2. Pointed(q) => \A o, n : ByIndex(dex.input, q, o, n) = PageResult(Listed(R, o, n), o, n)
      BY <1>1, <1>3, <1>4, <1>6, ByIndexIs
  <2>3. \A full \in BOOLEAN : \A o, n : Routed(dex, q, o, n, full) = PageResult(Listed(R, o, n), o, n)
      BY <2>1, <2>2, RoutedReferences
  <2> QED BY <1>1, <1>3, <2>3, ListedPages DEF Served
<1> QED BY <1>5, <1>6

\* Searches of declarations.
LEMMA DiscoveryServed ==
    ASSUME NEW dex, Ready(dex), NEW q, q.operation \in DiscoveryOps,
           q.operation = "search_members" => q.kind \in {"method", "field"}
    PROVE  Served(dex, q)
<1>1. q.operation \notin Special /\ ~SelectedQuery(q)
    BY DEF Special, DiscoveryOps, SelectedQuery, OperandQuery
<1>2. PICK rows, key : rows = DiscoveryRows(dex.input, q) /\ key = DiscoveryKey(dex.input, q)
    OBVIOUS
<1>3. IsSequence(rows)
    BY <1>2, DiscoveryListed DEF Ready
<1>4. /\ ~OperandQuery(q) /\ q.operation # "find_string_refs" /\ ~NeedsIndex(q)
      /\ q.operation \notin ReferenceOps /\ (Indexable(q) => Searches(q))
    BY DEF OperandQuery, DiscoveryOps, ReferenceOps, Indexable, NeedsIndex, Searches
<1>5. \A o, n : Discovery(dex.input, q, o, n) = SortedPage(rows, o, n, key)
    BY <1>2, DiscoveryIs
<1>6. /\ q.operation \notin StructureOps \cup {"list_methods"}
      /\ q.operation \notin OwnerOps
      /\ q.operation \notin {"revision_diff", "secret_candidates", "build_xref_index", "info", "get_manifest", "find_refs"}
    BY DEF DiscoveryOps, StructureOps, OwnerOps
<1>7. \A full \in BOOLEAN : \A o, n :
        /\ ~(full /\ Indexable(q)) => Routed(dex, q, o, n, full) = PageResult(Discovery(dex.input, q, o, n), o, n)
        /\ full /\ Indexable(q) => Routed(dex, q, o, n, full) = ByIndex(dex.input, q, o, n)
    BY <1>4, <1>6 DEF Routed
<1>8. Indexable(q) => \A o, n : ByIndex(dex.input, q, o, n) = CountedPage(Listed(Sorted(rows, key), o, n), o)
  <2> SUFFICES ASSUME Indexable(q)
               PROVE  \A o, n : ByIndex(dex.input, q, o, n) = CountedPage(Listed(Sorted(rows, key), o, n), o)
      OBVIOUS
  <2>1. Searches(q) /\ q.operation = "search_members"
      BY <1>4 DEF Searches
  <2>2. \A o, n : ByIndex(dex.input, q, o, n) = MembersByIndex(dex.input, q, o, n)
      BY <2>1 DEF ByIndex
  <2> QED BY <1>2, <2>1, <2>2, MembersAlike DEF Ready
<1>9. \A o, n : Routed(dex, q, o, n, FALSE) = PageResult(SortedPage(rows, o, n, key), o, n)
    BY <1>5, <1>7
<1>10. \A o, n : Routed(dex, q, o, n, TRUE) \in
                {PageResult(SortedPage(rows, o, n, key), o, n), CountedPage(Listed(Sorted(rows, key), o, n), o)}
    BY <1>5, <1>7, <1>8
<1> QED BY <1>1, <1>3, <1>9, <1>10, SortedPages DEF Served

\* The other operations have no index.
Unindexed(q) ==
           /\ ~OperandQuery(q) /\ q.operation # "find_string_refs" /\ ~Indexable(q)
           /\ ~(NeedsIndex(q) /\ q.operation = "find_type_refs") /\ ~SelectedQuery(q)
           /\ q.operation \notin ReferenceOps /\ q.operation \notin DiscoveryOps

\* They are answered by the handlers alone.
LEMMA NoIndex ==
    ASSUME NEW q, q.operation \notin ReferenceOps \cup DiscoveryOps \cup {"find_type_refs"}
    PROVE  Unindexed(q)
BY DEF Unindexed, OperandQuery, Indexable, ReferenceOps, DiscoveryOps, SelectedQuery

\* Hierarchies of classes.
LEMMA HierarchyServed ==
    ASSUME NEW dex, Ready(dex), NEW q, q.operation = "get_class_hierarchy"
    PROVE  Served(dex, q)
<1>1. q.operation \notin Special /\ q.operation \notin ReferenceOps \cup DiscoveryOps \cup {"find_type_refs"}
    BY DEF Special, ReferenceOps, DiscoveryOps
<1>0. Unindexed(q)
    BY <1>1, NoIndex
<1>2. \A full \in BOOLEAN : \A o, n :
        Routed(dex, q, o, n, full) = PageResult(Hierarchy(dex.input, q, o, n), o, n)
  <2>1. /\ q.operation \in StructureOps \cup {"list_methods"} /\ q.operation \notin OwnerOps
        /\ q.operation \notin {"revision_diff", "secret_candidates", "build_xref_index", "info", "get_manifest", "find_refs"}
      BY DEF StructureOps, OwnerOps
  <2>2. \A full \in BOOLEAN : \A o, n : Routed(dex, q, o, n, full) = PageResult(Structure(dex.input, q, o, n), o, n)
      BY <1>0, <2>1 DEF Routed, Unindexed
  <2> QED BY <2>2 DEF Structure
<1>3. CASE q.class_name \notin Owners(dex.input)
  <2>1. \A o, n : Hierarchy(dex.input, q, o, n) = Failure("class_not_found")
      BY <1>3 DEF Hierarchy
  <2>2. \A full \in BOOLEAN : \A o, n : Routed(dex, q, o, n, full) \in
            {Failure("class_not_found"), PageResult(Failure("class_not_found"), o, n)}
      BY <1>2, <2>1
  <2> QED BY <2>2, FailingPages DEF Served
<1>4. CASE q.class_name \in Owners(dex.input)
  <2>1. PICK R : IsSequence(R) /\ \A o, n : Hierarchy(dex.input, q, o, n) = Listed(R, o, n)
      BY <1>4, HierarchyListed DEF Ready
  <2>2. \A full \in BOOLEAN : \A o, n : Routed(dex, q, o, n, full) = PageResult(Listed(R, o, n), o, n)
      BY <1>2, <2>1
  <2> QED BY <1>1, <2>1, <2>2, ListedPages DEF Served
<1> QED BY <1>3, <1>4

\* Outlines, bodies and methods.
LEMMA StructureServed ==
    ASSUME NEW dex, Ready(dex), NEW q,
           q.operation \in StructureOps \cup {"list_methods"}, q.operation # "get_class_hierarchy"
    PROVE  Served(dex, q)
<1>1. q.operation \notin Special /\ q.operation \notin ReferenceOps \cup DiscoveryOps \cup {"find_type_refs"}
    BY DEF Special, ReferenceOps, DiscoveryOps, StructureOps
<1>0. Unindexed(q)
    BY <1>1, NoIndex
<1>2. \A full \in BOOLEAN : \A o, n :
        Routed(dex, q, o, n, full) = PageResult(Structure(dex.input, q, o, n), o, n)
  <2>1. /\ q.operation \notin OwnerOps
        /\ q.operation \notin {"revision_diff", "secret_candidates", "build_xref_index", "info", "get_manifest", "find_refs"}
      BY DEF StructureOps, OwnerOps
  <2> QED BY <1>0, <2>1 DEF Routed, Unindexed
<1>3. CASE Some(q, "class_name") /\ q.class_name \notin Owners(dex.input)
  <2>1. \A o, n : Structure(dex.input, q, o, n) = Failure("class_not_found")
      BY <1>3 DEF Structure
  <2>2. \A full \in BOOLEAN : \A o, n : Routed(dex, q, o, n, full) \in
            {Failure("class_not_found"), PageResult(Failure("class_not_found"), o, n)}
      BY <1>2, <2>1
  <2> QED BY <2>2, FailingPages DEF Served
<1>4. CASE /\ ~(Some(q, "class_name") /\ q.class_name \notin Owners(dex.input))
           /\ q.operation \in {"get_class_outline", "list_methods"}
  <2>1. PICK R : IsSequence(R) /\ \A o, n : Outline(dex.input, q, o, n) = Listed(R, o, n)
      BY OutlineListed DEF Ready
  <2>2. \A o, n : Structure(dex.input, q, o, n) = Outline(dex.input, q, o, n)
      BY <1>4 DEF Structure
  <2>3. \A full \in BOOLEAN : \A o, n : Routed(dex, q, o, n, full) = PageResult(Listed(R, o, n), o, n)
      BY <1>2, <2>1, <2>2
  <2> QED BY <1>1, <2>1, <2>3, ListedPages DEF Served
<1>5. CASE /\ ~(Some(q, "class_name") /\ q.class_name \notin Owners(dex.input))
           /\ q.operation \notin {"get_class_outline", "list_methods"}
  <2>1. \A o, n : Structure(dex.input, q, o, n) = Bodies(dex.input, q, o, n)
      BY <1>5 DEF Structure
  <2>2. CASE Some(q, "method_descriptor") /\ ~Declared(dex.input, q.method_descriptor)
    <3>1. \A o, n : Bodies(dex.input, q, o, n) = Failure("method_not_found")
        BY <2>2 DEF Bodies
    <3>2. \A full \in BOOLEAN : \A o, n : Routed(dex, q, o, n, full) \in
            {Failure("method_not_found"), PageResult(Failure("method_not_found"), o, n)}
        BY <1>2, <2>1, <3>1
    <3> QED BY <3>2, FailingPages DEF Served
  <2>3. CASE ~(Some(q, "method_descriptor") /\ ~Declared(dex.input, q.method_descriptor))
    <3>1. PICK rows, key : rows = ShownBodies(dex.input, q) /\ key = BodiesKey(dex.input, q)
        OBVIOUS
    <3>2. IsSequence(rows)
        BY <3>1, BodiesListed DEF Ready
    <3>3. \A o, n : Bodies(dex.input, q, o, n) = SortedPage(rows, o, n, key)
        BY <2>3, <3>1, BodiesAre
    <3>4. \A full \in BOOLEAN : \A o, n : Routed(dex, q, o, n, full) = PageResult(SortedPage(rows, o, n, key), o, n)
        BY <1>2, <2>1, <3>3
    <3>5. ~SelectedQuery(q)
        BY <1>0 DEF Unindexed
    <3>6. \A o, n : Routed(dex, q, o, n, FALSE) = PageResult(SortedPage(rows, o, n, key), o, n)
        BY <3>4
    <3>7. \A o, n : Routed(dex, q, o, n, TRUE) \in
                {PageResult(SortedPage(rows, o, n, key), o, n), CountedPage(Listed(Sorted(rows, key), o, n), o)}
        BY <3>4
    <3> QED BY <1>1, <3>2, <3>5, <3>6, <3>7, SortedPages DEF Served
  <2> QED BY <2>2, <2>3
<1> QED BY <1>3, <1>4, <1>5

\* Differences and candidate secrets.
LEMMA ReviewServed ==
    ASSUME NEW dex, Ready(dex), NEW q, q.operation \in {"revision_diff", "secret_candidates"}
    PROVE  Served(dex, q)
<1>1. q.operation \notin Special /\ q.operation \notin ReferenceOps \cup DiscoveryOps \cup {"find_type_refs"}
      /\ q.operation \notin StructureOps \cup {"list_methods"}
    BY DEF Special, ReferenceOps, DiscoveryOps, StructureOps
<1>0. Unindexed(q)
    BY <1>1, NoIndex
<1>a. q.operation \notin OwnerOps
    BY DEF OwnerOps
<1>2. CASE q.operation = "revision_diff"
  <2>1. \A full \in BOOLEAN : \A o, n :
            Routed(dex, q, o, n, full) = PageResult(Difference(dex.input, dex.other, q, o, n), o, n)
      BY <1>1, <1>2, <1>0, <1>a DEF Routed, Unindexed
  <2>2. PICK b \in BOOLEAN : b = ~(NoRepeats(DeclarationsOf(dex.input, q.kind)) /\ NoRepeats(DeclarationsOf(dex.other, q.kind)))
      OBVIOUS
  <2>3. PICK R : IsSequence(R) /\ \A o, n : Difference(dex.input, dex.other, q, o, n)
                    = IF b THEN Failure("inventory_or_scan_error") ELSE Listed(R, o, n)
    <3>1. PICK old, new, kind : old = dex.input /\ new = dex.other /\ kind = q.kind
        OBVIOUS
    <3>2. ReadableInput(old) /\ ReadableInput(new)
        BY <3>1 DEF Ready, SoundInput
    <3>3. \E R : IsSequence(R) /\ \A o, n : Difference(old, new, q, o, n)
            = IF ~(NoRepeats(DeclarationsOf(old, q.kind)) /\ NoRepeats(DeclarationsOf(new, q.kind)))
              THEN Failure("inventory_or_scan_error") ELSE Listed(R, o, n)
        BY <3>2, DifferenceListed
    <3> QED BY <2>2, <3>1, <3>3
  <2>4. CASE b
    <3>1. \A full \in BOOLEAN : \A o, n : Routed(dex, q, o, n, full) \in
            {Failure("inventory_or_scan_error"), PageResult(Failure("inventory_or_scan_error"), o, n)}
        BY <2>1, <2>3, <2>4
    <3> QED BY <3>1, FailingPages DEF Served
  <2>5. CASE ~b
    <3>1. \A full \in BOOLEAN : \A o, n : Routed(dex, q, o, n, full) = PageResult(Listed(R, o, n), o, n)
        BY <2>1, <2>3, <2>5
    <3> QED BY <1>1, <2>3, <3>1, ListedPages DEF Served
  <2> QED BY <2>4, <2>5
<1>3. CASE q.operation = "secret_candidates"
  <2>1. PICK R : IsSequence(R) /\ \A o, n : Secrets(dex.input, q, o, n) = Listed(R, o, n)
      BY SecretsListed DEF Ready
  <2>2. \A full \in BOOLEAN : \A o, n :
            Routed(dex, q, o, n, full) = PageResult(Secrets(dex.input, q, o, n), o, n)
      BY <1>1, <1>3, <1>0, <1>a DEF Routed, Unindexed
  <2>3. \A full \in BOOLEAN : \A o, n : Routed(dex, q, o, n, full) = PageResult(Listed(R, o, n), o, n)
      BY <2>1, <2>2
  <2> QED BY <1>1, <2>1, <2>3, ListedPages DEF Served
<1> QED BY <1>2, <1>3

\* Pages of classes, and sources.
LEMMA OwnersServed ==
    ASSUME NEW dex, Ready(dex), NEW q, q.operation \in OwnerOps, q.operation # "get_class_source_metadata"
    PROVE  Served(dex, q)
<1>1. q.operation \notin ReferenceOps \cup DiscoveryOps \cup {"find_type_refs"}
      /\ q.operation \notin StructureOps \cup {"list_methods"}
      /\ q.operation \notin {"revision_diff", "secret_candidates"}
    BY DEF ReferenceOps, DiscoveryOps, StructureOps, OwnerOps
<1>0. Unindexed(q)
    BY <1>1, NoIndex
<1>2. \A full \in BOOLEAN : \A o, n : Routed(dex, q, o, n, full) = OfOwner(dex.input, q, o, n)
  <2>1. q.operation \notin {"build_xref_index", "info", "get_manifest", "find_refs"}
      BY DEF OwnerOps
  <2> QED BY <1>1, <1>0, <2>1 DEF Routed, Unindexed
<1>3. CASE q.operation = "list_classes"
  <2>1. PICK R : IsSequence(R) /\ \A o, n : ClassPage(dex.input, q, o, n) = Listed(R, o, n)
      BY ClassPageListed DEF Ready
  <2>2. \A full \in BOOLEAN : \A o, n : Routed(dex, q, o, n, full) = PageResult(Listed(R, o, n), o, n)
      BY <1>2, <1>3, <2>1 DEF OfOwner
  <2>3. q.operation \notin Special
      BY <1>3 DEF Special
  <2> QED BY <2>1, <2>2, <2>3, ListedPages DEF Served
<1>4. ASSUME NEW code, code # "ok", \A o, n : OfOwner(dex.input, q, o, n) = Failure(code)
      PROVE  Served(dex, q)
  <2>1. \A full \in BOOLEAN : \A o, n : Routed(dex, q, o, n, full) \in {Failure(code), PageResult(Failure(code), o, n)}
      BY <1>2, <1>4
  <2> QED BY <1>4, <2>1, FailingPages DEF Served
<1>5. CASE q.operation = "get_method_source"
  <2>1. \A o, n : OfOwner(dex.input, q, o, n) = MethodSource(dex.input, q, o, n)
      BY <1>5 DEF OfOwner
  <2>2. CASE ~Some(q, "class_name")
      BY <1>4, <2>1, <2>2 DEF MethodSource
  <2>3. CASE Some(q, "class_name") /\ q.class_name \notin Owners(dex.input)
      BY <1>4, <2>1, <2>3 DEF MethodSource
  <2>4. CASE /\ Some(q, "class_name") /\ q.class_name \in Owners(dex.input)
             /\ Get(q, "source_format", "auto") = "java"
      BY <1>4, <2>1, <2>4 DEF MethodSource
  <2>5. CASE /\ Some(q, "class_name") /\ q.class_name \in Owners(dex.input)
             /\ Get(q, "source_format", "auto") # "java" /\ ~Declared(dex.input, q.method_descriptor)
      BY <1>4, <2>1, <2>5 DEF MethodSource
  <2>6. CASE /\ Some(q, "class_name") /\ q.class_name \in Owners(dex.input)
             /\ Get(q, "source_format", "auto") # "java" /\ Declared(dex.input, q.method_descriptor)
    <3>1. PICK R : R = Source[q.class_name].smali
        OBVIOUS
    <3>2. IsSequence(R)
        BY <2>6, <3>1 DEF Ready, ReadableSource
    <3>3. WholeOfDex(dex, q) = R
        BY <1>5, <3>1 DEF WholeOfDex
    <3>4. \A full \in BOOLEAN : \A o, n : Routed(dex, q, o, n, full) = LinePage(R, o, n)
        BY <1>2, <2>1, <2>6, <3>1 DEF MethodSource
    <3> QED BY <1>1, <3>2, <3>3, <3>4, <1>0, LinePages DEF Served, Unindexed
  <2> QED BY <2>2, <2>3, <2>4, <2>5, <2>6
<1>6. CASE q.operation = "get_class_source"
  <2>1. CASE ~Some(q, "class_name")
      BY <1>4, <1>6, <2>1 DEF OfOwner
  <2>2. CASE Some(q, "class_name") /\ Given(q, "class_name") \notin Owners(dex.input)
      BY <1>4, <1>6, <2>2 DEF OfOwner
  <2>3. CASE Some(q, "class_name") /\ Given(q, "class_name") \in Owners(dex.input)
    <3>1. PICK R : R = Source[q.class_name].java
        OBVIOUS
    <3>a. None \notin Owners(dex.input) => q.class_name \in Owners(dex.input)
        BY <2>3 DEF Given
    <3>b. q.class_name \in Owners(dex.input)
        BY <2>3 DEF Given, Some
    <3>2. IsSequence(R)
        BY <3>1, <3>b DEF Ready, ReadableSource
    <3>3. WholeOfDex(dex, q) = R
        BY <1>6, <3>1 DEF WholeOfDex
    <3>4. \A full \in BOOLEAN : \A o, n : Routed(dex, q, o, n, full) = LinePage(R, o, n)
        BY <1>2, <1>6, <2>3, <3>1 DEF OfOwner
    <3> QED BY <1>1, <3>2, <3>3, <3>4, <1>0, LinePages DEF Served, Unindexed
  <2> QED BY <2>1, <2>2, <2>3
<1> QED BY <1>3, <1>5, <1>6 DEF OwnerOps

\* What is left: an unknown operation, or lines of the tool.
LEMMA OthersServed ==
    ASSUME NEW dex, Ready(dex), NEW q,
           q.operation \notin ReferenceOps \cup DiscoveryOps \cup {"find_type_refs"},
           q.operation \notin StructureOps \cup {"list_methods"}, q.operation \notin OwnerOps,
           q.operation \notin {"revision_diff", "secret_candidates"}
    PROVE  Served(dex, q)
<1>0. Unindexed(q)
    BY NoIndex
<1>1. CASE q.operation \in {"build_xref_index", "info"}
  <2>1. \A full \in BOOLEAN : \A o, n : Routed(dex, q, o, n, full) = Answer(<<>>, 0)
      BY <1>1, <1>0 DEF Routed, Unindexed
  <2>2. IsSequence(<<>>) /\ Len(<<>>) = 0
      BY ShortSequences
  <2>3. q.operation \notin Special
      BY <1>1 DEF Special
  <2>4. WholeOfDex(dex, q) = <<>>
    <3>a. PICK x : x = Answer(<<>>, 0)
        OBVIOUS
    <3>b. \A full \in BOOLEAN : \A o, n : Routed(dex, q, o, n, full) = x
        BY <2>1, <3>a
    <3>c. x.total = 0 /\ x.items = <<>>
        BY <3>a DEF Answer
    <3>d. PICK m : m = Len(<<>>) + SpoolFrom
        OBVIOUS
    <3>1. Routed(dex, q, 0, 1, FALSE).total = Len(<<>>) /\ Routed(dex, q, 0, m, FALSE).items = <<>>
        BY <2>2, <3>b, <3>c
    <3> QED BY <2>2, <2>3, <3>1, <3>d, WholeIs
  <2>5. SubSeq(<<>>, 0 + 1, 0) = <<>>
      OBVIOUS
  <2>6. PICK x : x = Answer(<<>>, 0)
      OBVIOUS
  <2>7. Through(x, <<>>, 0, 0) /\ Shaped(x) /\ x.status = "ok"
      BY <2>2, <2>5, <2>6 DEF Through, Shaped, Answer
  <2>8. \A o \in 0..Len(<<>>) : PartOf(x, <<>>, o)
    <3>1. \A o \in 0..Len(<<>>) : o = 0 /\ 0 \in o..Len(<<>>)
        BY <2>2
    <3> QED BY <2>7, <3>1 DEF PartOf
  <2>9. RoutedParts(dex, q, <<>>)
      BY <2>1, <2>2, <2>6, <2>7, <2>8 DEF RoutedParts
  <2> QED BY <2>4, <2>9 DEF Served
<1>2. CASE q.operation = "find_refs"
  <2>1. \A full \in BOOLEAN : \A o, n : Routed(dex, q, o, n, full) = LinePage(dex.found, o, n)
      BY <1>2, <1>0 DEF Routed, Unindexed
  <2>2. WholeOfDex(dex, q) = dex.found /\ IsSequence(dex.found)
      BY <1>2 DEF WholeOfDex, Ready
  <2> QED BY <2>1, <2>2, <1>0, LinePages DEF Served, Unindexed
<1>3. CASE q.operation = "get_manifest"
  <2>1. \A full \in BOOLEAN : \A o, n : Routed(dex, q, o, n, full) \in {Failure("no_manifest"), PageResult(Failure("no_manifest"), o, n)}
      BY <1>3, <1>0 DEF Routed, Unindexed
  <2> QED BY <2>1, FailingPages DEF Served
<1>4. CASE q.operation \notin {"build_xref_index", "info", "find_refs", "get_manifest"}
  <2>1. \A full \in BOOLEAN : \A o, n : Routed(dex, q, o, n, full) \in
            {Failure("unknown_operation"), PageResult(Failure("unknown_operation"), o, n)}
      BY <1>4, <1>0 DEF Routed, Unindexed
  <2> QED BY <2>1, FailingPages DEF Served
<1> QED BY <1>1, <1>2, <1>3, <1>4

\* Every operation but the metadata of a source.
LEMMA RoutedServed ==
    ASSUME NEW dex, Ready(dex), NEW q, q.operation # "get_class_source_metadata",
           q.operation = "search_members" => q.kind \in {"method", "field"}
    PROVE  Served(dex, q)
<1>1. CASE q.operation \in ReferenceOps
    BY <1>1, StringsServed, PointedServed DEF ReferenceOps, Pointed
<1>2. CASE q.operation \in DiscoveryOps
    BY <1>2, DiscoveryServed
<1>3. CASE q.operation = "find_type_refs"
    BY <1>3, OperandServed, TypesServed
<1>4. CASE q.operation \in StructureOps \cup {"list_methods"}
    BY <1>4, HierarchyServed, StructureServed
<1>5. CASE q.operation \in OwnerOps
    BY <1>5, OwnersServed
<1>6. CASE q.operation \in {"revision_diff", "secret_candidates"}
    BY <1>6, ReviewServed
<1>7. CASE /\ q.operation \notin ReferenceOps \cup DiscoveryOps \cup {"find_type_refs"}
           /\ q.operation \notin StructureOps \cup {"list_methods"} /\ q.operation \notin OwnerOps
           /\ q.operation \notin {"revision_diff", "secret_candidates"}
    BY <1>7, OthersServed
<1> QED BY <1>1, <1>2, <1>3, <1>4, <1>5, <1>6, <1>7

-----------------------------------------------------------------------------
(***************************************************************************)
(* The metadata of a source: a page of lines has the links that start in   *)
(* it, in their order.                                                     *)
(***************************************************************************)

Reaches(answer, R, p, T, o, end) ==
    /\ p[end] \in p[o]..Len(R) /\ answer.items = SubSeq(R, p[o] + 1, p[end])
    /\ answer.next = None => end = T
    /\ answer.next # None => answer.next = end /\ o < end

Cut(answer, R, p, T, o) ==
    /\ Shaped(answer)
    /\ answer.status = "ok" => \E end \in o..T : Reaches(answer, R, p, T, o, end)

\* What a page of metadata holds.
LEMMA MetadataIs ==
    ASSUME NEW q, NEW lines, NEW links \in Seq(Nat),
           lines = Source[q.class_name].lines, links = Source[q.class_name].links
    PROVE  \A o, n : SourceMetadata(q, o, n)
            = [status |-> "ok", items |-> Only(links, Span(LengthOf(lines, o), LengthOf(lines, o + n))),
               total |-> Len(lines), next |-> IF o + n < Len(lines) THEN o + n ELSE None]
<1> TAKE o, n
<1>1. PICK a, b : a = LengthOf(lines, o) /\ b = LengthOf(lines, o + n)
    OBVIOUS
<1>2. PICK S : S = {x \in ToSet(links) : a <= x /\ x < b}
    OBVIOUS
<1>3. Only(links, S) = Only(links, Span(a, b))
  <2>1. ToSet(links) \subseteq Nat
      BY Elements
  <2>2. ToSet(links) \cap S = ToSet(links) \cap Span(a, b)
      BY <1>2, <2>1 DEF Span
  <2> QED BY <2>2, OnlySame
<1> QED BY <1>1, <1>2, <1>3 DEF SourceMetadata, Where

RoutedCuts(dex, q, R, p, T) ==
    /\ IsSequence(R) /\ Points(p, T, R)
    /\ \A full \in BOOLEAN, o \in 0..T, n \in Limits : Cut(Routed(dex, q, o, n, full), R, p, T, o)

\* The pages of a source's lines cut the links of the source.
LEMMA MetadataCut ==
    ASSUME NEW q, NEW lines \in Seq(Nat), NEW links \in Seq(Nat), Rising(links),
           lines = Source[q.class_name].lines, links = Source[q.class_name].links
    PROVE  \E R, p : /\ IsSequence(R) /\ Points(p, Len(lines), R)
                     /\ \A m \in Nat : m >= Len(lines) => SourceMetadata(q, 0, m).items = R
                     /\ \A o \in 0..Len(lines), n \in Limits : Cut(SourceMetadata(q, o, n), R, p, Len(lines), o)
<1>1. PICK T : T = Len(lines)
    OBVIOUS
<1>2. PICK f : Lengths(f, lines) /\ \A n : LengthOf(lines, n) = f[Least(n, T)]
    BY <1>1, LengthRuns
<1>3. PICK R : R = LinksTo(links, f, T)
    OBVIOUS
<1>4. PICK p : p = [k \in 0..T |-> Len(LinksTo(links, f, k))]
    OBVIOUS
<1>5. T \in Nat /\ f[0] = 0
    BY <1>1, <1>2 DEF Lengths
<1>6. IsSequence(R)
  <2>1. R \in Seq(Nat)
      BY <1>3, OnlyTyped DEF LinksTo
  <2> QED BY <2>1, Sequences
<1>7. ASSUME NEW a \in 0..T, NEW b \in a..T
      PROVE  /\ p[a] \in Nat /\ p[b] \in p[a]..Len(R)
             /\ Only(links, Span(f[a], f[b])) = SubSeq(R, p[a] + 1, p[b])
  <2>1. a \in 0..Len(lines) /\ b \in a..Len(lines) /\ b \in 0..T /\ R = LinksTo(links, f, Len(lines))
      BY <1>1, <1>3, <1>5
  <2>2. p[a] = Len(LinksTo(links, f, a)) /\ p[b] = Len(LinksTo(links, f, b))
      BY <1>4, <2>1
  <2>a. Lengths(f, lines)
      BY <1>2
  <2>3. /\ Len(LinksTo(links, f, a)) \in Nat
        /\ Len(LinksTo(links, f, b)) \in Len(LinksTo(links, f, a))..Len(R)
        /\ Only(links, Span(f[a], f[b])) = SubSeq(R, Len(LinksTo(links, f, a)) + 1, Len(LinksTo(links, f, b)))
    <3>1. Stretch(a, b, Len(lines))
        BY <2>1 DEF Stretch
    <3>2. Linked(lines, f, links, R)
        BY <2>a, <2>1 DEF Linked
    <3>3. LinkedPart(links, f, a, b, R)
        BY <3>1, <3>2, LinksBetween
    <3> QED BY <3>3 DEF LinkedPart
  <2> QED BY <2>2, <2>3
<1>8. Points(p, T, R)
  <2>1. p[0] = 0
    <3>1. To(0) = {}
        BY DEF To
    <3>2. Only(links, To(0)) = <<>>
        BY <3>1, NoneOnly
    <3>3. p[0] = Len(Only(links, To(0)))
        BY <1>4, <1>5 DEF LinksTo
    <3> QED BY <3>2, <3>3
  <2>2. p[T] = Len(R)
      BY <1>3, <1>4, <1>5
  <2>3. \A k \in 0..T : p[k] \in 0..Len(R)
    <3> TAKE k \in 0..T
    <3>1. T \in k..T
        BY <1>5
    <3>2. p[k] \in Nat /\ p[T] \in p[k]..Len(R)
        BY <1>7, <3>1
    <3> QED BY <2>2, <3>2
  <2>4. p \in [0..T -> 0..Len(R)]
      BY <1>4, <2>3, SMTT(30)
  <2> QED BY <1>5, <2>1, <2>2, <2>4 DEF Points
<1>9. ASSUME NEW o \in 0..T, NEW n \in Nat
      PROVE  /\ Least(o + n, T) \in o..T
             /\ SourceMetadata(q, o, n)
                  = [status |-> "ok", items |-> SubSeq(R, p[o] + 1, p[Least(o + n, T)]), total |-> T,
                     next |-> IF o + n < T THEN o + n ELSE None]
             /\ p[Least(o + n, T)] \in p[o]..Len(R)
  <2>1. Least(o, T) = o /\ Least(o + n, T) \in o..T
      BY <1>5 DEF Least
  <2>2. PICK e : e = Least(o + n, T)
      OBVIOUS
  <2>3. LengthOf(lines, o) = f[o] /\ LengthOf(lines, o + n) = f[e]
      BY <1>2, <2>1, <2>2
  <2>4. SourceMetadata(q, o, n)
            = [status |-> "ok", items |-> Only(links, Span(LengthOf(lines, o), LengthOf(lines, o + n))),
               total |-> Len(lines), next |-> IF o + n < Len(lines) THEN o + n ELSE None]
      BY MetadataIs
  <2>5. Only(links, Span(f[o], f[e])) = SubSeq(R, p[o] + 1, p[e]) /\ p[e] \in p[o]..Len(R)
      BY <1>7, <2>1, <2>2
  <2> QED BY <1>1, <2>1, <2>2, <2>3, <2>4, <2>5
<1>10. ASSUME NEW m \in Nat, m >= T PROVE SourceMetadata(q, 0, m).items = R
  <2>1. Least(0 + m, T) = T /\ 0 \in 0..T
      BY <1>5, <1>10 DEF Least
  <2>2. SourceMetadata(q, 0, m)
            = [status |-> "ok", items |-> SubSeq(R, p[0] + 1, p[T]), total |-> T,
               next |-> IF 0 + m < T THEN 0 + m ELSE None]
      BY <1>9, <2>1
  <2>3. SourceMetadata(q, 0, m).items = SubSeq(R, p[0] + 1, p[T])
      BY <2>2
  <2>4. p[0] + 1 = 1 /\ p[T] = Len(R)
      BY <1>8 DEF Points
  <2>5. R \in Seq(ToSet(R))
      BY <1>6, SequenceParts
  <2> QED BY <2>3, <2>4, <2>5, SubSeqFull
<1>11. ASSUME NEW o \in 0..T, NEW n \in Limits PROVE Cut(SourceMetadata(q, o, n), R, p, T, o)
  <2>1. n \in Nat \ {0}
      BY DEF Limits
  <2>2. PICK e : e = Least(o + n, T)
      OBVIOUS
  <2>3. PICK w : w = SubSeq(R, p[o] + 1, p[e])
      OBVIOUS
  <2>4. PICK x : x = SourceMetadata(q, o, n)
      OBVIOUS
  <2>5. /\ e \in o..T /\ p[e] \in p[o]..Len(R)
        /\ x = [status |-> "ok", items |-> w, total |-> T, next |-> IF o + n < T THEN o + n ELSE None]
      BY <1>9, <2>1, <2>2, <2>3, <2>4
  <2>6. (o + n < T => o + n = e /\ o < e) /\ (~(o + n < T) => e = T) /\ (o + n < T => o + n # None)
      BY <1>5, <2>1, <2>2, NoneApart DEF Least
  <2>7. Reaches(x, R, p, T, o, e)
      BY <2>3, <2>5, <2>6 DEF Reaches
  <2>8. Shaped(x)
      BY <2>5 DEF Shaped
  <2> QED BY <2>4, <2>5, <2>7, <2>8 DEF Cut
<1> QED BY <1>1, <1>6, <1>8, <1>10, <1>11

\* The metadata of a source.
LEMMA MetadataServed ==
    ASSUME NEW dex, Ready(dex), NEW q, q.operation = "get_class_source_metadata"
    PROVE  RoutedFails(dex, q) \/ \E p, T : RoutedCuts(dex, q, WholeOfDex(dex, q), p, T)
<1>1. q.operation \notin ReferenceOps \cup DiscoveryOps \cup {"find_type_refs"}
      /\ q.operation \notin StructureOps \cup {"list_methods"}
      /\ q.operation \notin {"revision_diff", "secret_candidates"} /\ q.operation \in OwnerOps
      /\ q.operation \notin Special
    BY DEF ReferenceOps, DiscoveryOps, StructureOps, OwnerOps, Special
<1>0. Unindexed(q)
    BY <1>1, NoIndex
<1>2. \A full \in BOOLEAN : \A o, n : Routed(dex, q, o, n, full) = OfOwner(dex.input, q, o, n)
  <2>1. q.operation \notin {"build_xref_index", "info", "get_manifest", "find_refs"}
      OBVIOUS
  <2> QED BY <1>1, <1>0, <2>1 DEF Routed, Unindexed
<1>3. CASE Given(q, "class_name") \notin Owners(dex.input)
  <2>1. \A o, n : OfOwner(dex.input, q, o, n) = Failure("class_not_found")
      BY <1>3 DEF OfOwner
  <2>2. \A full \in BOOLEAN : \A o, n : Routed(dex, q, o, n, full) \in
            {Failure("class_not_found"), PageResult(Failure("class_not_found"), o, n)}
      BY <1>2, <2>1
  <2> QED BY <2>2, FailingPages
<1>4. CASE Given(q, "class_name") \in Owners(dex.input)
  <2>1. \A full \in BOOLEAN : \A o, n : Routed(dex, q, o, n, full) = SourceMetadata(q, o, n)
      BY <1>2, <1>4 DEF OfOwner
  <2>2. PICK lines, links : lines = Source[q.class_name].lines /\ links = Source[q.class_name].links
      OBVIOUS
  <2>3. lines \in Seq(Nat) /\ links \in Seq(Nat) /\ Rising(links)
    <3>1. q.class_name \in Owners(dex.input)
        BY <1>4 DEF Given, Ready
    <3>2. ReadableSource(Source[q.class_name])
        BY <3>1 DEF Ready
    <3>3. lines \in Seq(Nat) /\ links \in Seq(Nat)
        BY <2>2, <3>2 DEF ReadableSource
    <3>4. \A i, j \in DOMAIN links : i < j => links[i] <= links[j]
        BY <2>2, <3>2 DEF ReadableSource
    <3>5. DOMAIN links = 1..Len(links)
        BY <3>3
    <3> QED BY <3>3, <3>4, <3>5 DEF Rising
  <2>4. PICK T : T = Len(lines)
      OBVIOUS
  <2>5. PICK R, p : /\ IsSequence(R) /\ Points(p, T, R)
                    /\ \A m \in Nat : m >= T => SourceMetadata(q, 0, m).items = R
                    /\ \A o \in 0..T, n \in Limits : Cut(SourceMetadata(q, o, n), R, p, T, o)
      BY <2>2, <2>3, <2>4, MetadataCut, ZenonT(60)
  <2>6. WholeOfDex(dex, q) = R
    <3>1. SpoolFrom \in Nat /\ T \in Nat
        BY PagesAssumption, <2>5 DEF PagesAssumption, Points
    <3>2. PICK m : m = T + SpoolFrom
        OBVIOUS
    <3>3. m \in Nat /\ m >= T
        BY <3>1, <3>2
    <3>4. SourceMetadata(q, 0, 1).total = T
      <4>1. SourceMetadata(q, 0, 1)
            = [status |-> "ok", items |-> Only(links, Span(LengthOf(lines, 0), LengthOf(lines, 0 + 1))),
               total |-> Len(lines), next |-> IF 0 + 1 < Len(lines) THEN 0 + 1 ELSE None]
          BY <2>2, <2>3, MetadataIs
      <4>2. SourceMetadata(q, 0, 1).total = Len(lines)
          BY <4>1
      <4> QED BY <2>4, <4>2
    <3>5. Routed(dex, q, 0, 1, FALSE).total = T /\ Routed(dex, q, 0, m, FALSE).items = R
      <4>1. SourceMetadata(q, 0, m).items = R
          BY <2>5, <3>3
      <4> QED BY <2>1, <3>4, <4>1
    <3> QED BY <1>1, <3>2, <3>5 DEF WholeOfDex, Special, Entire
  <2>7. RoutedCuts(dex, q, R, p, T)
      BY <2>1, <2>5 DEF RoutedCuts
  <2> QED BY <2>6, <2>7
<1> QED BY <1>3, <1>4

-----------------------------------------------------------------------------
(***************************************************************************)
(* The answers of a worker: a query that lacks a key, or names no method,  *)
(* fails, and a page fits into the response.                               *)
(***************************************************************************)

DexFails(dex, q) ==
    \A full \in BOOLEAN, o \in Nat, n \in Limits :
        Shaped(DexAnswer(dex, q, o, n, full)) /\ DexAnswer(dex, q, o, n, full).status # "ok"

DexParts(dex, q, R) ==
    /\ IsSequence(R)
    /\ \A full \in BOOLEAN, o \in 0..Len(R), n \in Limits :
        /\ PartOf(DexAnswer(dex, q, o, n, full), R, o)
        /\ SelectedQuery(q) => DexAnswer(dex, q, o, n, full).status = "ok"

DexCuts(dex, q, R, p, T) ==
    /\ IsSequence(R) /\ Points(p, T, R) /\ ~SelectedQuery(q)
    /\ \A full \in BOOLEAN, o \in 0..T, n \in Limits : Cut(DexAnswer(dex, q, o, n, full), R, p, T, o)

Kinded(q) == "operation" \in DOMAIN q /\
    (q.operation = "search_members" /\ "kind" \in DOMAIN q => q.kind \in {"method", "field"})

\* The method that a name stands for leaves the rest of a query as it is.
LEMMA SelectedKeeps ==
    ASSUME NEW input, NEW q, Kinded(q), NEW r, r = Selected(input, q)
    PROVE  /\ Kinded(r) /\ r.operation = q.operation
           /\ SelectedQuery(r) <=> SelectedQuery(q)
           /\ "kind" \in DOMAIN q => "kind" \in DOMAIN r
<1>1. CASE r = q
    BY <1>1
<1>2. CASE r # q
  <2>1. PICK d : r = Set(q, "method_descriptor", d)
      BY <1>2 DEF Selected
  <2>2. DOMAIN r = DOMAIN q \cup {"method_descriptor"} /\ \A k \in DOMAIN q : k # "method_descriptor" => r[k] = q[k]
      BY <2>1 DEF Set
  <2>3. "operation" \in DOMAIN r /\ r.operation = q.operation
      BY <2>2 DEF Kinded
  <2>4. "kind" \in DOMAIN r <=> "kind" \in DOMAIN q
      BY <2>2
  <2>5. "kind" \in DOMAIN q => r.kind = q.kind
      BY <2>2
  <2>6. Relation(r) = Relation(q)
    <3>1. "type_relation" \in DOMAIN r <=> "type_relation" \in DOMAIN q
        BY <2>2
    <3>2. "type_relation" \in DOMAIN q => r["type_relation"] = q["type_relation"]
        BY <2>2
    <3> QED BY <3>1, <3>2 DEF Relation, Get
  <2>7. Kinded(r)
      BY <2>3, <2>4, <2>5 DEF Kinded
  <2>8. SelectedQuery(r) <=> SelectedQuery(q)
      BY <2>3, <2>6 DEF SelectedQuery, OperandQuery
  <2> QED BY <2>3, <2>4, <2>7, <2>8
<1> QED BY <1>1, <1>2

\* Every operation's answers: failures, the parts of a listing, or those of the links.
LEMMA DexServed ==
    ASSUME NEW dex, Ready(dex), NEW q, Kinded(q),
           NEW R, R = WholeOfDex(dex, Selected(dex.input, q))
    PROVE  \/ DexFails(dex, q)
           \/ DexParts(dex, q, R)
           \/ q.operation = "get_class_source_metadata" /\ \E p, T : DexCuts(dex, q, R, p, T)
<1>1. PICK r : r = Selected(dex.input, q)
    OBVIOUS
<1>2. /\ Kinded(r) /\ r.operation = q.operation /\ (SelectedQuery(r) <=> SelectedQuery(q))
      /\ ("kind" \in DOMAIN q => "kind" \in DOMAIN r)
  <2>1. PICK input : input = dex.input
      OBVIOUS
  <2> QED BY <1>1, <2>1, SelectedKeeps
<1>3. CASE ~Answerable(q)
  <2>1. \A full, o, n : DexAnswer(dex, q, o, n, full) = Failure("key_error")
      BY <1>3 DEF DexAnswer
  <2> QED BY <2>1, FailedPart DEF DexFails
<1>4. CASE Answerable(q) /\ Named(q) /\ Resolution(dex.input, q) # "ok"
  <2>1. PICK code : code = Resolution(dex.input, q)
      OBVIOUS
  <2>2. \A full, o, n : DexAnswer(dex, q, o, n, full) = Failure(code)
      BY <1>4, <2>1 DEF DexAnswer
  <2> QED BY <1>4, <2>1, <2>2, FailedPart DEF DexFails
<1>5. CASE Answerable(q) /\ ~(Named(q) /\ Resolution(dex.input, q) # "ok")
  <2>1. \A full, o, n : DexAnswer(dex, q, o, n, full) = Fitted(q, Routed(dex, r, o, n, full), o)
      BY <1>1, <1>5 DEF DexAnswer
  <2>2. r.operation = "search_members" => r.kind \in {"method", "field"}
    <3> SUFFICES ASSUME r.operation = "search_members" PROVE r.kind \in {"method", "field"}
        OBVIOUS
    <3>1. q.operation = "search_members"
        BY <1>2
    <3>2. "kind" \in DOMAIN q
        BY <1>5, <3>1 DEF Answerable, Subscripted
    <3> QED BY <1>2, <3>2 DEF Kinded
  <2>3. ASSUME RoutedFails(dex, r) PROVE DexFails(dex, q)
    <3> SUFFICES ASSUME NEW full \in BOOLEAN, NEW o \in Nat, NEW n \in Limits
                 PROVE  Shaped(DexAnswer(dex, q, o, n, full)) /\ DexAnswer(dex, q, o, n, full).status # "ok"
        BY DEF DexFails
    <3>1. PICK x : x = Routed(dex, r, o, n, full)
        OBVIOUS
    <3>2. Shaped(x) /\ x.status # "ok"
        BY <2>3, <3>1 DEF RoutedFails
    <3>3. Fitted(q, x, o) \in {x, Failure("response_limit")}
        BY <3>2 DEF Fitted, ReferencePage
    <3>4. Shaped(Failure("response_limit")) /\ Failure("response_limit").status # "ok"
        BY FailedPart
    <3> QED BY <2>1, <3>1, <3>2, <3>3, <3>4
  <2>4. ASSUME RoutedParts(dex, r, R) PROVE DexParts(dex, q, R)
    <3>1. IsSequence(R)
        BY <2>4 DEF RoutedParts
    <3> SUFFICES ASSUME NEW full \in BOOLEAN, NEW o \in 0..Len(R), NEW n \in Limits
                 PROVE  /\ PartOf(DexAnswer(dex, q, o, n, full), R, o)
                        /\ SelectedQuery(q) => DexAnswer(dex, q, o, n, full).status = "ok"
        BY <3>1 DEF DexParts
    <3>2. PICK x : x = Routed(dex, r, o, n, full)
        OBVIOUS
    <3>3. PartOf(x, R, o) /\ (SelectedQuery(q) => x.status = "ok")
        BY <1>2, <2>4, <3>2 DEF RoutedParts
    <3>4. PartOf(Fitted(q, x, o), R, o) /\ (SelectedQuery(q) => Fitted(q, x, o).status = x.status)
        BY <3>1, <3>3, FittedPart
    <3> QED BY <2>1, <3>2, <3>3, <3>4
  <2>5. ASSUME NEW p, NEW T, RoutedCuts(dex, r, R, p, T), q.operation = "get_class_source_metadata"
        PROVE  DexCuts(dex, q, R, p, T)
    <3>1. IsSequence(R) /\ Points(p, T, R)
        BY <2>5 DEF RoutedCuts
    <3>2. ~SelectedQuery(q)
        BY <2>5 DEF SelectedQuery, OperandQuery
    <3> SUFFICES ASSUME NEW full \in BOOLEAN, NEW o \in 0..T, NEW n \in Limits
                 PROVE  Cut(DexAnswer(dex, q, o, n, full), R, p, T, o)
        BY <3>1, <3>2 DEF DexCuts
    <3>3. PICK x : x = Routed(dex, r, o, n, full)
        OBVIOUS
    <3>4. Cut(x, R, p, T, o)
        BY <2>5, <3>3 DEF RoutedCuts
    <3>5. Fitted(q, x, o) \in {x, Failure("response_limit")}
        BY <3>2 DEF Fitted
    <3>6. Cut(Failure("response_limit"), R, p, T, o)
      <4>1. PICK y : y = Failure("response_limit")
          OBVIOUS
      <4>2. Shaped(y) /\ y.status = "response_limit"
          BY <4>1, FailedPart
      <4> QED BY <4>1, <4>2 DEF Cut
    <3> QED BY <2>1, <3>3, <3>4, <3>5, <3>6
  <2>6. CASE q.operation = "get_class_source_metadata"
    <3>1. RoutedFails(dex, r) \/ \E p, T : RoutedCuts(dex, r, R, p, T)
        BY <1>1, <1>2, <2>6, MetadataServed
    <3> QED BY <2>3, <2>5, <2>6, <3>1
  <2>7. CASE q.operation # "get_class_source_metadata"
    <3>1. Served(dex, r)
        BY <1>2, <2>2, <2>7, RoutedServed
    <3> QED BY <1>1, <2>3, <2>4, <3>1 DEF Served
  <2> QED BY <2>6, <2>7
<1> QED BY <1>3, <1>4, <1>5

-----------------------------------------------------------------------------
(***************************************************************************)
(* Grouped pages: chunks of a listing until enough groups are held.        *)
(***************************************************************************)

NextOf(dex, q, limit, full, x) == IF x.ended THEN x ELSE NextChunk(dex, q, x, limit, full)

StartOf(o) == [position |-> o, held |-> <<>>, answer |-> None, ended |-> FALSE]

Chunks(f, S, dex, q, o, limit, full) ==
    /\ f \in [0..(Room + 1) -> S] /\ f[0] = StartOf(o)
    /\ \A k \in 1..(Room + 1) : f[k - 1] \in S /\ f[k] = NextOf(dex, q, limit, full, f[k - 1])

Closed(S, dex, q, limit, full) == \A x \in S : NextOf(dex, q, limit, full, x) \in S

\* A grouped page is the last of a run of chunks.
LEMMA ChunksRun ==
    ASSUME NEW dex, NEW q, NEW o, NEW limit, NEW full, NEW S, StartOf(o) \in S, Closed(S, dex, q, limit, full)
    PROVE  \E f : Chunks(f, S, dex, q, o, limit, full)
                    /\ GroupedPage(dex, q, o, limit, full) = f[Room + 1].answer
<1> DEFINE Go(x) == NextOf(dex, q, limit, full, x)
           base == StartOf(o)
<1>0. PICK n : n = Room + 1
    OBVIOUS
<1>1. n \in Nat /\ base \in S /\ \A x \in S : Go(x) \in S
    BY <1>0, PagesAssumption DEF PagesAssumption, Closed
<1> DEFINE step == [p \in (1..n) \X S |-> Go(p[2])]
<1>2. step \in [(1..n) \X S -> S]
  <2> HIDE DEF Go
  <2> QED BY <1>1
<1>3. \A k \in 1..n, t \in S : step[<<k, t>>] = Go(t)
  <2> HIDE DEF Go
  <2> QED OBVIOUS
<1>4. PICK f : Values(f, n, S, base, step)
  <2> HIDE DEF step, base
  <2>1. Recursive(S, base, n, step)
      BY <1>1, <1>2 DEF Recursive
  <2> QED BY <2>1, Recursed
<1>5. \A k \in 1..n : f[k - 1] \in S /\ f[k] = Go(f[k - 1])
  <2> HIDE DEF step, Go
  <2> QED BY <1>3, <1>4 DEF Values
<1> DEFINE Run(g) == g = [k \in 0..n |-> IF k = 0 THEN base ELSE Go(g[k - 1])]
<1>6. Run(f)
  <2>1. \A k \in 0..n : f[k] = IF k = 0 THEN base ELSE Go(f[k - 1])
    <3>1. \A k \in 0..n : k = 0 \/ k \in 1..n
        BY <1>1
    <3> HIDE DEF step, Go
    <3> QED BY <1>4, <1>5, <3>1 DEF Values
  <2>2. f = [k \in 0..n |-> f[k]]
    <3> HIDE DEF step
    <3> QED BY <1>4 DEF Values
  <2> HIDE DEF step, Go
  <2> QED BY <2>1, <2>2
<1> DEFINE run == CHOOSE g : Run(g)
<1>7. Run(run)
  <2> HIDE DEF Run
  <2> QED BY <1>6
<1>8. GroupedPage(dex, q, o, limit, full) = run[n].answer
    BY <1>0 DEF GroupedPage, NextOf, StartOf
<1> HIDE DEF run
<1>9. run[0] = base /\ \A k \in 1..n : run[k] = Go(run[k - 1])
  <2>1. 0 \in 0..n /\ \A k \in 1..n : k \in 0..n /\ k # 0
      BY <1>1
  <2> HIDE DEF Go
  <2> QED BY <1>7, <2>1
<1>10. \A k \in 0..n : run[k] = f[k]
  <2> HIDE DEF Go, step, Run
  <2>1. Alongside(run, f, n)
      BY <1>1, <1>4, <1>5, <1>9 DEF Alongside, Values
  <2> QED BY <2>1, GoOnAlike
<1>11. run[n] = f[n]
    BY <1>1, <1>10
<1>12. Chunks(f, S, dex, q, o, limit, full)
  <2>1. f \in [0..n -> S] /\ f[0] = base
    <3> HIDE DEF step
    <3> QED BY <1>4 DEF Values
  <2> QED BY <1>0, <1>5, <2>1 DEF Chunks
<1> QED BY <1>0, <1>8, <1>11, <1>12

\* The fields of a page that is being collected.
Chunked(position, held, answer, ended) ==
    [position |-> position, held |-> held, answer |-> answer, ended |-> ended]

\* When the first chunk fails, so does the page.
LEMMA GroupedFails ==
    ASSUME NEW dex, NEW q, DexFails(dex, q), NEW o \in Nat, NEW limit, NEW full \in BOOLEAN
    PROVE  Shaped(GroupedPage(dex, q, o, limit, full)) /\ GroupedPage(dex, q, o, limit, full).status # "ok"
<1>1. PICK chunk : chunk = DexAnswer(dex, q, o, PageSize, full)
    OBVIOUS
<1>2. Shaped(chunk) /\ chunk.status # "ok"
  <2>1. PageSize \in Limits
      BY PagesAssumption DEF PagesAssumption, Limits
  <2> QED BY <1>1, <2>1 DEF DexFails
<1>3. PICK last : last = [position |-> o, held |-> <<>>, answer |-> chunk, ended |-> TRUE]
    OBVIOUS
<1>4. NextOf(dex, q, limit, full, StartOf(o)) = last /\ NextOf(dex, q, limit, full, last) = last
  <2>1. PICK s : s = StartOf(o)
      OBVIOUS
  <2>2. s = [position |-> o, held |-> <<>>, answer |-> None, ended |-> FALSE]
      BY <2>1 DEF StartOf
  <2>3. s.position = o /\ ~s.ended
      BY <2>2
  <2>4. NextChunk(dex, q, s, limit, full) = [s EXCEPT !.answer = chunk, !.ended = TRUE]
      BY <1>1, <1>2, <2>3 DEF NextChunk
  <2>5. [s EXCEPT !.answer = chunk, !.ended = TRUE] = last
    <3>1. s = Chunked(o, <<>>, None, FALSE) /\ last = Chunked(o, <<>>, chunk, TRUE)
        BY <1>3, <2>2 DEF Chunked
    <3>2. PICK h, no, yes : h = <<>> /\ no = FALSE /\ yes = TRUE
        OBVIOUS
    <3>3. s = Chunked(o, h, None, no) /\ last = Chunked(o, h, chunk, yes)
        BY <3>1, <3>2
    <3>4. PICK x : x = [s EXCEPT !.answer = chunk, !.ended = yes]
        OBVIOUS
    <3>5. s = [position |-> o, held |-> h, answer |-> None, ended |-> no]
        BY <3>3 DEF Chunked
    <3>6. x = [position |-> o, held |-> h, answer |-> chunk, ended |-> yes]
        BY <3>4, <3>5
    <3> QED BY <3>2, <3>3, <3>4, <3>6 DEF Chunked
  <2>6. last.ended
      BY <1>3
  <2> QED BY <2>1, <2>3, <2>4, <2>5, <2>6 DEF NextOf
<1>5. PICK S : S = {StartOf(o), last}
    OBVIOUS
<1>6. StartOf(o) \in S /\ Closed(S, dex, q, limit, full)
    BY <1>4, <1>5 DEF Closed
<1>7. PICK f : Chunks(f, S, dex, q, o, limit, full) /\ GroupedPage(dex, q, o, limit, full) = f[Room + 1].answer
    BY <1>6, ChunksRun
<1>8. PICK n : n = Room + 1
    OBVIOUS
<1>9. n \in Nat /\ n >= 1
    BY <1>8, PagesAssumption DEF PagesAssumption
<1>10. n \in 1..n /\ f[n - 1] \in S /\ f[n] = NextOf(dex, q, limit, full, f[n - 1])
    BY <1>7, <1>8, <1>9 DEF Chunks
<1>11. f[n] = last
    BY <1>4, <1>5, <1>10
<1> QED BY <1>2, <1>3, <1>7, <1>8, <1>11

\* One row is one group, and fits.
LEMMA OneAccepted ==
    ASSUME NEW limit \in Limits
    PROVE  Accepts(<<>>, limit) /\ \A x : Accepts(<<x>>, limit)
<1>1. limit \in Nat /\ limit >= 1 /\ Room \in Nat /\ Room >= 1
    BY PagesAssumption DEF PagesAssumption, Limits
<1>2. Accepts(<<>>, limit)
  <2>1. Groups(<<>>) = Cardinality({}) /\ Len(<<>>) = 0
    <3>1. {i \in DOMAIN <<>> : i = 1 \/ ~SameGroup(<<>>[i - 1], <<>>[i])} = {}
        OBVIOUS
    <3> QED BY <3>1 DEF Groups
  <2> QED BY <1>1, <2>1, FS_EmptySet DEF Accepts
<1>3. ASSUME NEW x PROVE Accepts(<<x>>, limit)
  <2>1. PICK s : s = <<x>>
      OBVIOUS
  <2>2. Len(s) = 1 /\ DOMAIN s = 1..1
      BY <2>1
  <2>3. {i \in DOMAIN s : i = 1 \/ ~SameGroup(s[i - 1], s[i])} = {1}
      BY <2>2
  <2>4. Groups(s) = 1
      BY <2>3, FS_Singleton DEF Groups
  <2> QED BY <1>1, <2>1, <2>2, <2>4 DEF Accepts
<1> QED BY <1>2, <1>3

Going(R, o, k, e, held, chunk, limit) ==
    /\ IsSequence(R) /\ limit \in Limits /\ o \in 0..Len(R) /\ k \in o..Len(R) /\ e \in k..Len(R)
    /\ held = SubSeq(R, o + 1, k) /\ Accepts(held, limit) /\ chunk = SubSeq(R, k + 1, e)

Gone(R, o, k, e, held, chunk, limit) ==
    \E c \in k..e :
        /\ Collect(held, chunk, limit) = SubSeq(R, o + 1, c)
        /\ Accepts(SubSeq(R, o + 1, c), limit)
        /\ k = o /\ k < e => o < c

\* What a page takes of a chunk that goes on where it stops: some first rows, and one
\* at least when it holds none.
LEMMA CollectIs ==
    ASSUME NEW R, NEW o, NEW k, NEW e, NEW held, NEW chunk, NEW limit, Going(R, o, k, e, held, chunk, limit)
    PROVE  Gone(R, o, k, e, held, chunk, limit)
<1> SUFFICES ASSUME IsSequence(R), limit \in Limits, o \in 0..Len(R), k \in o..Len(R), e \in k..Len(R),
                    held = SubSeq(R, o + 1, k), Accepts(held, limit), chunk = SubSeq(R, k + 1, e)
             PROVE  Gone(R, o, k, e, held, chunk, limit)
    BY DEF Going
<1>1. Len(R) \in Nat /\ o \in Nat /\ k \in Nat /\ e \in Nat /\ k \in 0..Len(R)
    BY SequenceParts
<1>2. PICK n : n = e - k
    OBVIOUS
<1>3. n \in Nat /\ Len(chunk) = n
    BY <1>1, <1>2, SliceIs
<1>4. ASSUME NEW j \in 0..n
      PROVE  k + j \in k..e /\ held \o SubSeq(chunk, 1, j) = SubSeq(R, o + 1, k + j)
  <2>1. PICK c : c = k + j
      OBVIOUS
  <2>2. c \in k..e /\ c \in k..Len(R) /\ j \in 0..(e - k)
      BY <1>1, <1>2, <2>1
  <2>3. SubSeq(chunk, 1, j) = SubSeq(R, k + 1, k + j)
      BY <1>1, <2>2, SliceStart
  <2>4. SubSeq(R, o + 1, k) \o SubSeq(R, k + 1, c) = SubSeq(R, o + 1, c)
      BY <2>2, SlicesJoin
  <2> QED BY <2>1, <2>2, <2>3, <2>4
<1> DEFINE Fits(j) == Accepts(held \o SubSeq(chunk, 1, j), limit)
           taken == {j \in 0..Len(chunk) : Fits(j)}
           most == CHOOSE j \in taken : \A m \in taken : m <= j
<1>5. Collect(held, chunk, limit) = held \o SubSeq(chunk, 1, most)
    BY DEF Collect
<1>6. taken \in SUBSET (0..n)
    BY <1>3
<1>7. 0 \in taken
  <2>1. held \o SubSeq(chunk, 1, 0) = SubSeq(R, o + 1, k + 0) /\ k + 0 = k
      BY <1>1, <1>3, <1>4
  <2>2. Fits(0)
      BY <2>1
  <2> QED BY <1>3, <2>2
<1>8. most \in taken /\ \A m \in taken : m <= most
  <2> HIDE DEF taken
  <2>1. \E j \in taken : \A m \in taken : m <= j
      BY <1>3, <1>6, <1>7, Greatest
  <2> QED BY <2>1
<1>9. PICK j : j = most
    OBVIOUS
<1>10. j \in 0..n /\ Fits(j) /\ \A m \in taken : m <= j
    BY <1>3, <1>8, <1>9
<1>11. PICK c : c = k + j
    OBVIOUS
<1>12. /\ c \in k..e /\ Collect(held, chunk, limit) = SubSeq(R, o + 1, c)
       /\ Accepts(SubSeq(R, o + 1, c), limit)
  <2> HIDE DEF most
  <2> QED BY <1>4, <1>5, <1>9, <1>10, <1>11
<1>13. ASSUME k = o, k < e PROVE o < c
  <2>1. 1 \in 0..n /\ k + 1 \in k..Len(R) /\ k + 1 \in o..Len(R)
      BY <1>1, <1>2, <1>13
  <2>2. held \o SubSeq(chunk, 1, 1) = SubSeq(R, o + 1, k + 1)
      BY <1>4, <2>1
  <2>3. PICK u : u = SubSeq(R, o + 1, k + 1)
      OBVIOUS
  <2>4. u \in Seq(ToSet(R)) /\ Len(u) = 1
      BY <1>1, <1>13, <2>1, <2>3, SliceIs
  <2>5. u = <<u[1]>>
      BY <2>4
  <2>6. Accepts(u, limit)
      BY <2>5, OneAccepted
  <2>7. 1 \in taken
      BY <1>3, <2>1, <2>2, <2>3, <2>6
  <2>8. 1 <= j
    <3> HIDE DEF taken
    <3> QED BY <1>10, <2>7
  <2> QED BY <1>1, <1>10, <1>11, <1>13, <2>8
<1> QED BY <1>12, <1>13 DEF Gone

\* What a grouped page holds while it is collected, and what it answers.
Grouping(x, R, o, limit) ==
    /\ x = Chunked(x.position, x.held, x.answer, x.ended) /\ x.ended \in BOOLEAN
    /\ x.position \in o..Len(R) /\ x.held = SubSeq(R, o + 1, x.position)
    /\ ~x.ended => Accepts(x.held, limit)
    /\ x.ended => PartOf(x.answer, R, o) /\ x.answer.status = "ok"

Pages(R) == [status : {"ok"}, items : Seq(ToSet(R)), total : {Len(R)}, next : Nat \cup {None}]

EndOf(R, c, taken) ==
    IF taken = <<>> /\ c < Len(R) THEN Failure("response_limit")
    ELSE [status |-> "ok", items |-> taken, total |-> Len(R), next |-> IF c < Len(R) THEN c ELSE None]

\* The answer that ends a page: there is none without a row.
LEMMA GroupedEnds ==
    ASSUME NEW R, IsSequence(R), NEW o \in 0..Len(R), NEW c \in o..Len(R), c < Len(R) => o < c,
           NEW taken, taken = SubSeq(R, o + 1, c), NEW z, z = EndOf(R, c, taken)
    PROVE  PartOf(z, R, o) /\ z.status = "ok" /\ z \in Pages(R)
<1>1. Len(R) \in Nat /\ c \in Nat /\ c # None /\ (~(c < Len(R)) => c = Len(R))
  <2>1. Len(R) \in Nat
      BY SequenceParts
  <2>2. c \in Nat
      BY <2>1
  <2> QED BY <2>1, <2>2, NoneApart
<1>2. taken \in Seq(ToSet(R)) /\ Len(taken) = c - o
    BY SliceIs
<1>3. ~(taken = <<>> /\ c < Len(R))
    BY <1>1, <1>2
<1>4. PICK y : y = IF c < Len(R) THEN c ELSE None
    OBVIOUS
<1>5. z = [status |-> "ok", items |-> taken, total |-> Len(R), next |-> y]
    BY <1>3, <1>4 DEF EndOf
<1>6. Through(z, R, o, c)
    BY <1>1, <1>4, <1>5 DEF Through
<1>7. Shaped(z) /\ z.status = "ok"
    BY <1>5 DEF Shaped
<1>8. y \in Nat \cup {None}
    BY <1>1, <1>4
<1>9. PartOf(z, R, o)
    BY <1>6, <1>7 DEF PartOf
<1>10. z \in Pages(R)
  <2>1. PICK A, B, C, D, n, s, t, u : /\ A = Seq(ToSet(R)) /\ B = Nat \cup {None} /\ n = Len(R) /\ s = "ok"
                                  /\ C = {"ok"} /\ D = {Len(R)} /\ t = taken /\ u = y
      OBVIOUS
  <2>2. t \in A /\ u \in B
      BY <1>2, <1>8, <2>1
  <2>a. s \in C /\ n \in D
      BY <2>1
  <2>3. z = [status |-> s, items |-> t, total |-> n, next |-> u]
      BY <1>5, <2>1
  <2>4. z \in [status : C, items : A, total : D, next : B]
      BY <2>2, <2>3, <2>a
  <2> QED BY <2>1, <2>4 DEF Pages
<1> QED BY <1>7, <1>9, <1>10

\* Each chunk adds a row, or is the last.
LEMMA GroupedGrows ==
    ASSUME NEW dex, NEW q, NEW R, DexParts(dex, q, R), SelectedQuery(q), NEW limit \in Limits,
           NEW full \in BOOLEAN, NEW o \in 0..Len(R), NEW x, Grouping(x, R, o, limit), ~x.ended,
           NEW y, y = NextChunk(dex, q, x, limit, full)
    PROVE  /\ Grouping(y, R, o, limit) /\ y.answer \in {x.answer} \cup Pages(R)
           /\ y.ended \/ y.position > x.position
<1>1. PICK k, h, a : k = x.position /\ h = x.held /\ a = x.answer
    OBVIOUS
<1>2. /\ k \in o..Len(R) /\ h = SubSeq(R, o + 1, k) /\ Accepts(h, limit) /\ x = Chunked(k, h, a, FALSE)
      /\ IsSequence(R)
  <2>1. x.ended = FALSE
      BY DEF Grouping
  <2> QED BY <1>1, <2>1 DEF Grouping, DexParts
<1>3. PICK chunk : chunk = DexAnswer(dex, q, k, PageSize, full)
    OBVIOUS
<1>4. PartOf(chunk, R, k) /\ chunk.status = "ok" /\ k \in 0..Len(R)
  <2>1. PageSize \in Limits /\ Len(R) \in Nat
      BY <1>2, SequenceParts, PagesAssumption DEF PagesAssumption, Limits
  <2>2. k \in 0..Len(R)
      BY <1>2, <2>1
  <2> QED BY <1>3, <2>1, <2>2 DEF DexParts
<1>5. PICK e \in k..Len(R) : Through(chunk, R, k, e)
    BY <1>4 DEF PartOf
<1>6. PICK items : items = chunk.items
    OBVIOUS
<1>7. /\ items = SubSeq(R, k + 1, e) /\ Len(items) = e - k /\ chunk.total = Len(R)
      /\ e < Len(R) => k < e
    BY <1>2, <1>4, <1>5, <1>6, SliceIs DEF Through
<1>8. PICK taken : taken = Collect(h, items, limit)
    OBVIOUS
<1>9. PICK c \in k..e : /\ taken = SubSeq(R, o + 1, c) /\ Accepts(taken, limit)
                        /\ k = o /\ k < e => o < c
  <2>1. IsSequence(R) /\ k \in o..Len(R) /\ e \in k..Len(R) /\ h = SubSeq(R, o + 1, k) /\ Accepts(h, limit)
      BY <1>2, <1>5
  <2>2. items = SubSeq(R, k + 1, e)
      BY <1>7
  <2>3. \E c \in k..e : /\ Collect(h, items, limit) = SubSeq(R, o + 1, c)
                        /\ Accepts(SubSeq(R, o + 1, c), limit)
                        /\ k = o /\ k < e => o < c
    <3>1. Going(R, o, k, e, h, items, limit)
        BY <2>1, <2>2 DEF Going
    <3>2. Gone(R, o, k, e, h, items, limit)
        BY <3>1, CollectIs
    <3> QED BY <3>2 DEF Gone
  <2> QED BY <1>8, <2>3
<1>10. Len(R) \in Nat /\ o \in Nat /\ k \in Nat /\ e \in Nat /\ c \in Nat /\ c \in o..Len(R)
    BY <1>2, <1>5, SequenceParts
<1>11. Len(taken) = c - o /\ Len(h) = k - o
    BY <1>2, <1>9, <1>10, SliceIs
<1>12. k + Len(taken) - Len(h) = c /\ k + Len(items) = e
    BY <1>7, <1>10, <1>11
<1>13. PICK z : z = EndOf(R, c, taken)
    OBVIOUS
<1>14. y = IF c < Len(R) /\ c = e THEN [x EXCEPT !.position = c, !.held = taken]
           ELSE [x EXCEPT !.answer = z, !.ended = TRUE]
  <2>1. x.position = k /\ x.held = h
      BY <1>1
  <2>2. chunk.status = "ok" /\ chunk.items = items /\ chunk.total = Len(R)
      BY <1>4, <1>6, <1>7
  <2> QED BY <1>3, <1>8, <1>12, <1>13, <2>1, <2>2 DEF NextChunk, EndOf
<1>15. c < Len(R) => o < c
  <2> SUFFICES ASSUME c < Len(R), ~(o < c) PROVE FALSE
      OBVIOUS
  <2>1. o = c /\ k = o /\ c <= e /\ e <= Len(R)
      BY <1>2, <1>5, <1>9, <1>10
  <2>2. ~(k < e)
      BY <1>9, <2>1
  <2>3. e < Len(R) => k < e
      BY <1>7
  <2> QED BY <1>10, <2>1, <2>2, <2>3
<1>16. PICK yes, no : yes = TRUE /\ no = FALSE
    OBVIOUS
<1>17. x = [position |-> k, held |-> h, answer |-> a, ended |-> no]
    BY <1>2, <1>16 DEF Chunked
<1>18. CASE c < Len(R) /\ c = e
  <2>1. y = [x EXCEPT !.position = c, !.held = taken]
      BY <1>14, <1>18
  <2>2. y = [position |-> c, held |-> taken, answer |-> a, ended |-> no]
      BY <1>17, <2>1
  <2>3. y.position = c /\ y.held = taken /\ y.answer = a /\ y.ended = FALSE
      BY <1>16, <2>2
  <2>4. y = Chunked(y.position, y.held, y.answer, y.ended)
      BY <1>16, <2>2, <2>3 DEF Chunked
  <2>5. Grouping(y, R, o, limit)
      BY <1>9, <1>10, <2>3, <2>4 DEF Grouping
  <2> QED BY <1>1, <1>7, <1>10, <1>18, <2>3, <2>5
<1>19. CASE ~(c < Len(R) /\ c = e)
  <2>1. y = [x EXCEPT !.answer = z, !.ended = yes]
      BY <1>14, <1>16, <1>19
  <2>2. y = [position |-> k, held |-> h, answer |-> z, ended |-> yes]
      BY <1>17, <2>1
  <2>3. y.position = k /\ y.held = h /\ y.answer = z /\ y.ended = TRUE
      BY <1>16, <2>2
  <2>4. y = Chunked(y.position, y.held, y.answer, y.ended)
      BY <1>16, <2>2, <2>3 DEF Chunked
  <2>5. PartOf(z, R, o) /\ z.status = "ok" /\ z \in Pages(R)
    <3>1. IsSequence(R) /\ c \in o..Len(R) /\ taken = SubSeq(R, o + 1, c)
        BY <1>2, <1>9, <1>10
    <3> QED BY <1>13, <1>15, <3>1, GroupedEnds
  <2>6. Grouping(y, R, o, limit)
      BY <1>2, <2>3, <2>4, <2>5 DEF Grouping
  <2> QED BY <2>3, <2>5, <2>6
<1> QED BY <1>18, <1>19

\* A grouped page is a part of the listing.
LEMMA GroupedPart ==
    ASSUME NEW dex, NEW q, NEW R, DexParts(dex, q, R), SelectedQuery(q), NEW limit \in Limits,
           NEW full \in BOOLEAN, NEW o \in 0..Len(R)
    PROVE  /\ PartOf(GroupedPage(dex, q, o, limit, full), R, o)
           /\ GroupedPage(dex, q, o, limit, full).status = "ok"
<1>1. IsSequence(R) /\ Len(R) \in Nat /\ o \in Nat /\ Room \in Nat
    BY SequenceParts, PagesAssumption DEF DexParts, PagesAssumption
<1> DEFINE Every == [position : 0..Len(R), held : Seq(ToSet(R)), answer : Pages(R) \cup {None}, ended : BOOLEAN]
           S == {x \in Every : Grouping(x, R, o, limit)}
<1>2. ASSUME NEW x, Grouping(x, R, o, limit), x.answer \in Pages(R) \cup {None} PROVE x \in S
  <2>1. x.position \in 0..Len(R) /\ x.position \in o..Len(R)
      BY <1>1, <1>2 DEF Grouping
  <2>2. x.held \in Seq(ToSet(R))
      BY <1>1, <1>2, <2>1, SliceIs DEF Grouping
  <2>3. PICK p, h, a, e : p = x.position /\ h = x.held /\ a = x.answer /\ e = x.ended
      OBVIOUS
  <2>4. x = [position |-> p, held |-> h, answer |-> a, ended |-> e] /\ e \in BOOLEAN
      BY <1>2, <2>3 DEF Grouping, Chunked
  <2>5. x \in Every
    <3>1. PICK A : A = Pages(R) \cup {None}
        OBVIOUS
    <3>2. a \in A /\ p \in 0..Len(R) /\ h \in Seq(ToSet(R))
        BY <1>2, <2>1, <2>2, <2>3, <3>1
    <3>3. x \in [position : 0..Len(R), held : Seq(ToSet(R)), answer : A, ended : BOOLEAN]
        BY <2>4, <3>2
    <3> QED BY <3>1, <3>3
  <2> QED BY <1>2, <2>5
<1>3. StartOf(o) \in S
  <2>1. PICK s : s = StartOf(o)
      OBVIOUS
  <2>2. s.position = o /\ s.held = <<>> /\ s.answer = None /\ s.ended = FALSE
      BY <2>1 DEF StartOf
  <2>3. s = Chunked(s.position, s.held, s.answer, s.ended)
      BY <2>1, <2>2 DEF StartOf, Chunked
  <2>4. SubSeq(R, o + 1, o) = <<>> /\ o \in o..Len(R)
      BY <1>1, SliceIs
  <2>5. Accepts(<<>>, limit)
      BY OneAccepted
  <2>6. Grouping(s, R, o, limit)
      BY <2>2, <2>3, <2>4, <2>5 DEF Grouping
  <2> HIDE DEF S
  <2> QED BY <1>2, <2>1, <2>2, <2>6
<1>4. ASSUME NEW x \in S
      PROVE  /\ NextOf(dex, q, limit, full, x) \in S
             /\ ~x.ended => \/ NextOf(dex, q, limit, full, x).ended
                            \/ NextOf(dex, q, limit, full, x).position > x.position
  <2>1. Grouping(x, R, o, limit) /\ x.answer \in Pages(R) \cup {None}
      BY <1>4
  <2>2. CASE x.ended
      BY <1>4, <2>2 DEF NextOf
  <2>3. CASE ~x.ended
    <3>1. PICK y : y = NextChunk(dex, q, x, limit, full)
        OBVIOUS
    <3>2. Grouping(y, R, o, limit) /\ y.answer \in {x.answer} \cup Pages(R) /\ (y.ended \/ y.position > x.position)
        BY <2>1, <2>3, <3>1, GroupedGrows
    <3>3. y \in S
      <4> HIDE DEF S
      <4> QED BY <1>2, <2>1, <3>2
    <3> QED BY <2>3, <3>1, <3>2, <3>3 DEF NextOf
  <2> QED BY <2>2, <2>3
<1>5. \A x \in S : Grouping(x, R, o, limit)
    OBVIOUS
<1> HIDE DEF S
<1>6. Closed(S, dex, q, limit, full)
    BY <1>4 DEF Closed
<1>7. PICK f : Chunks(f, S, dex, q, o, limit, full) /\ GroupedPage(dex, q, o, limit, full) = f[Room + 1].answer
    BY <1>3, <1>6, ChunksRun
<1>8. PICK n : n = Room + 1
    OBVIOUS
<1>9. /\ n \in Nat /\ f \in [0..n -> S] /\ f[0] = StartOf(o)
      /\ \A k \in 1..n : f[k - 1] \in S /\ f[k] = NextOf(dex, q, limit, full, f[k - 1])
    BY <1>1, <1>7, <1>8 DEF Chunks
<1> DEFINE Far(k) == f[k].ended \/ f[k].position >= o + k
           P == {k \in 0..n : Far(k)}
<1>10. 0 \in P
  <2>1. f[0].position = o /\ 0 \in 0..n
      BY <1>9 DEF StartOf
  <2> QED BY <1>1, <2>1
<1>11. \A k \in 0..(n - 1) : k \in P => k + 1 \in P
  <2> SUFFICES ASSUME NEW k \in 0..(n - 1), Far(k) PROVE Far(k + 1)
      BY <1>9
  <2>1. PICK j : j = k + 1
      OBVIOUS
  <2>2. j \in 1..n /\ j - 1 = k
      BY <1>9, <2>1
  <2>3. PICK x, y : x = f[k] /\ y = f[j]
      OBVIOUS
  <2>4. x \in S /\ y = NextOf(dex, q, limit, full, x)
      BY <1>9, <2>2, <2>3
  <2>5. y \in S /\ (~x.ended => y.ended \/ y.position > x.position) /\ (x.ended => y = x)
      BY <1>4, <2>4 DEF NextOf
  <2>6. x.position \in Int /\ y.position \in Int
      BY <1>1, <1>5, <2>4, <2>5 DEF Grouping
  <2>7. x.ended \/ x.position >= o + k
      BY <2>3
  <2>8. y.ended \/ y.position >= o + j
      BY <1>1, <2>1, <2>5, <2>6, <2>7
  <2> QED BY <2>1, <2>3, <2>8
<1>12. n \in P
  <2>1. n \in Nat /\ n \in 0..n
      BY <1>9
  <2> HIDE DEF P
  <2>2. 0..n \subseteq P
      BY <1>10, <1>11, <2>1, UpTo
  <2> QED BY <2>1, <2>2
<1>13. PICK x : x = f[n]
    OBVIOUS
<1>14. Grouping(x, R, o, limit)
    BY <1>5, <1>9, <1>13
<1>15. x.ended
  <2> SUFFICES ASSUME ~x.ended PROVE FALSE
      BY <1>14 DEF Grouping
  <2>1. x.position >= o + n
      BY <1>12, <1>13
  <2>2. Len(x.held) <= Room
      BY <1>14 DEF Grouping, Accepts
  <2>3. PICK k : k = x.position
      OBVIOUS
  <2>4. k \in o..Len(R) /\ x.held = SubSeq(R, o + 1, k)
      BY <1>14, <2>3 DEF Grouping
  <2>5. Len(x.held) = k - o
      BY <1>1, <2>4, SliceIs
  <2> QED BY <1>1, <1>8, <2>1, <2>2, <2>3, <2>4, <2>5
<1> QED BY <1>7, <1>8, <1>13, <1>14, <1>15 DEF Grouping

HeldBy(e) ==
    (IF e.class # None THEN <<[name |-> e.name, class |-> e.class]>> ELSE <<>>)
    \o (IF e.inner = None THEN <<>>
        ELSE [i \in DOMAIN e.inner |-> [name |-> e.name, class |-> e.inner[i]]])

\* The classes of a file are a sequence, of finitely many texts.
LEMMA ClassesInListed ==
    ASSUME NEW file, ReadableFile(file)
    PROVE  IsSequence(ClassesIn(file)) /\ IsFiniteSet(ClassTexts(file))
<1>1. PICK s : s = file.entries
    OBVIOUS
<1>2. IsSequence(s) /\ DOMAIN s = 1..Len(s) /\ \A i \in DOMAIN s : s[i].inner # None => IsSequence(s[i].inner)
  <2>1. IsSequence(s) /\ \A i \in DOMAIN s : s[i].inner # None => IsSequence(s[i].inner)
      BY <1>1 DEF ReadableFile
  <2> QED BY <2>1, SequenceParts
<1>3. PICK t : t = [i \in DOMAIN s |-> HeldBy(s[i])]
    OBVIOUS
<1>4. ASSUME NEW i \in 1..Len(s) PROVE IsSequence(t[i])
  <2>1. PICK e : e = s[i]
      OBVIOUS
  <2>2. t[i] = HeldBy(e) /\ (e.inner # None => IsSequence(e.inner))
      BY <1>2, <1>3, <2>1
  <2>3. PICK a, b : /\ a = IF e.class # None THEN <<[name |-> e.name, class |-> e.class]>> ELSE <<>>
                    /\ b = IF e.inner = None THEN <<>>
                           ELSE [j \in DOMAIN e.inner |-> [name |-> e.name, class |-> e.inner[j]]]
      OBVIOUS
  <2>4. IsSequence(a)
      BY <2>3, ShortSequences
  <2>5. IsSequence(b)
    <3>1. CASE e.inner = None
        BY <2>3, <3>1, ShortSequences
    <3>2. CASE e.inner # None
      <4>1. PICK u : u = e.inner
          OBVIOUS
      <4>2. b = [j \in DOMAIN u |-> [name |-> e.name, class |-> u[j]]]
          BY <2>3, <3>2, <4>1
      <4>3. IsSequence(u) /\ b = [j \in DOMAIN u |-> b[j]]
          BY <2>2, <3>2, <4>1, <4>2
      <4> QED BY <4>3, MadeSequence
    <3> QED BY <3>1, <3>2
  <2>6. t[i] = a \o b
      BY <2>2, <2>3 DEF HeldBy
  <2> QED BY <2>4, <2>5, <2>6, ConcatSequence
<1>5. ClassesIn(file) = FlattenSeq(t)
    BY <1>1, <1>3 DEF ClassesIn, Each, HeldBy
<1>6. t = [i \in DOMAIN s |-> t[i]]
    BY <1>3
<1>7. IsSequence(FlattenSeq(t))
    BY <1>2, <1>4, <1>6, EachListed
<1>8. PICK c : c = ClassesIn(file)
    OBVIOUS
<1>9. IsSequence(c) /\ DOMAIN c = 1..Len(c)
    BY <1>5, <1>7, <1>8, SequenceParts
<1>10. PICK u : u = [i \in DOMAIN c |-> c[i].class]
    OBVIOUS
<1>11. u = [i \in DOMAIN c |-> u[i]]
    BY <1>10
<1>12. IsSequence(u) /\ ToSet(u) = {u[i] : i \in 1..Len(c)}
    BY <1>9, <1>11, MadeSequence
<1>13. ClassTexts(file) = ToSet(u)
    BY <1>8, <1>9, <1>10, <1>12 DEF ClassTexts
<1> QED BY <1>5, <1>7, <1>12, <1>13, FiniteElements

\* The rows of an inventory.
LEMMA InventoryListed ==
    ASSUME NEW file, ReadableFile(file), NEW q
    PROVE  IsSequence(InventoryRows(file, q))
<1> DEFINE Passes(c) ==
        /\ Some(q, "class_query") => Holds(LowerCase(c.class), LowerCase(q.class_query))
        /\ Some(q, "class_prefix") => Starts(c.class, q.class_prefix)
<1>1. PICK all : all = Where(ClassesIn(file), LAMBDA c :
                /\ Some(q, "class_query") => Holds(LowerCase(c.class), LowerCase(q.class_query))
                /\ Some(q, "class_prefix") => Starts(c.class, q.class_prefix))
    OBVIOUS
<1>2. IsSequence(all)
    BY <1>1, ClassesInListed, OnlySequence DEF Where
<1>3. PICK dex : dex = DexIn(file, Given(q, "module"))
    OBVIOUS
<1>4. PICK others : others = Where(file.entries, LAMBDA e : e.kind = "apk")
    OBVIOUS
<1>5. IsSequence(file.entries)
    BY DEF ReadableFile
<1>6. IsSequence(dex) /\ IsSequence(others)
  <2>1. IsSequence(dex)
      BY <1>3, <1>5, OnlySequence DEF DexIn, Where
  <2>2. IsSequence(others)
      BY <1>4, <1>5, OnlySequence DEF Where
  <2> QED BY <2>1, <2>2
<1>7. PICK plain : plain = dex \o others
    OBVIOUS
<1>8. PICK made : made = [i \in DOMAIN plain |-> [name |-> plain[i].name, class |-> None]]
    OBVIOUS
<1>9. IsSequence(made)
  <2>1. IsSequence(plain)
      BY <1>6, <1>7, ConcatSequence
  <2>2. made = [i \in DOMAIN plain |-> made[i]]
      BY <1>8
  <2> QED BY <2>1, <2>2, MadeSequence
<1>10. IsSequence(all \o made)
    BY <1>2, <1>9, ConcatSequence
<1>11. InventoryRows(file, q) \in {SortedBy(all, LAMBDA r : Units[r.name]), SortedBy(all \o made, LAMBDA r : Units[r.name])}
    BY <1>1, <1>3, <1>4, <1>7, <1>8 DEF InventoryRows
<1>12. IsSequence(SortedBy(all, LAMBDA r : Units[r.name])) /\ IsSequence(SortedBy(all \o made, LAMBDA r : Units[r.name]))
  <2>1. \A k : IsSequence(Sorted(all, k)) /\ IsSequence(Sorted(all \o made, k))
      BY <1>2, <1>10, SortedSequence
  <2> QED BY <2>1 DEF SortedBy
<1> QED BY <1>11, <1>12

(* What an archive answers. *)

FileFails(file, other, q) ==
    \A o \in Nat, n \in Limits :
        Shaped(ArchiveAnswer(file, other, q, o, n)) /\ ArchiveAnswer(file, other, q, o, n).status # "ok"

FileParts(file, other, q, R) ==
    IsSequence(R) /\ \A o \in 0..Len(R), n \in Limits : PartOf(ArchiveAnswer(file, other, q, o, n), R, o)

WholeOfFile(file, other, q) == Entire(LAMBDA n : ArchiveAnswer(file, other, q, 0, n))
FileServed(file, other, q) == FileFails(file, other, q) \/ FileParts(file, other, q, WholeOfFile(file, other, q))

Refuses(file, other, q) ==
    \A o, n : \E code : code # "ok" /\ ArchiveAnswer(file, other, q, o, n) = Failure(code)

Lists(file, other, q, R) ==
    IsSequence(R) /\ \A o, n : ArchiveAnswer(file, other, q, o, n) = CountedPage(Listed(R, o, n), o)

\* A refusal, and pages of a listing.
LEMMA RefusedFile ==
    ASSUME NEW file, NEW other, NEW q, Refuses(file, other, q)
    PROVE  FileServed(file, other, q)
<1> SUFFICES ASSUME NEW o \in Nat, NEW n \in Limits
             PROVE  /\ Shaped(ArchiveAnswer(file, other, q, o, n))
                    /\ ArchiveAnswer(file, other, q, o, n).status # "ok"
    BY DEF FileServed, FileFails
<1>1. PICK code : code # "ok" /\ ArchiveAnswer(file, other, q, o, n) = Failure(code)
    BY DEF Refuses
<1> QED BY <1>1, FailedPart

\* A handler that pages through a list serves its parts.
LEMMA ListedFile ==
    ASSUME NEW file, NEW other, NEW q, NEW R, Lists(file, other, q, R)
    PROVE  FileServed(file, other, q)
<1>1. IsSequence(R) /\ \A o, n : ArchiveAnswer(file, other, q, o, n) = CountedPage(Listed(R, o, n), o)
    BY DEF Lists
<1>2. PICK m : m = Len(R) + SpoolFrom
    OBVIOUS
<1>3. 1 \in Limits /\ m \in Limits /\ m >= Len(R) /\ Len(R) \in Nat /\ m \in Nat
    BY <1>1, <1>2, SpoolLimits DEF Limits
<1>4. \A n : CountedPage(Listed(R, 0, n), 0).total = Len(R)
             /\ CountedPage(Listed(R, 0, n), 0).items = Window(R, 0, n)
  <2> TAKE n
  <2>1. PICK w : w = Window(R, 0, n)
      OBVIOUS
  <2>2. PICK y : y = IF 0 + Len(w) < Len(R) THEN 0 + Len(w) ELSE None
      OBVIOUS
  <2>3. Listed(R, 0, n) = [status |-> "ok", items |-> w, total |-> Len(R), next |-> None]
      BY <2>1 DEF Listed, Answer
  <2>4. CountedPage(Listed(R, 0, n), 0) = [status |-> "ok", items |-> w, total |-> Len(R), next |-> y]
      BY <2>2, <2>3 DEF CountedPage
  <2> QED BY <2>1, <2>4
<1>5. WholeOfFile(file, other, q) = R
  <2>1. ArchiveAnswer(file, other, q, 0, 1).total = Len(R)
      BY <1>1, <1>4
  <2>2. ArchiveAnswer(file, other, q, 0, m).items = Window(R, 0, m)
      BY <1>1, <1>4
  <2>3. Window(R, 0, m) = R
      BY <1>1, <1>3, WindowWhole
  <2> QED BY <1>2, <2>1, <2>2, <2>3 DEF WholeOfFile, Entire
<1>6. FileParts(file, other, q, R)
  <2> SUFFICES ASSUME NEW o \in 0..Len(R), NEW n \in Limits
               PROVE  PartOf(ArchiveAnswer(file, other, q, o, n), R, o)
      BY <1>1 DEF FileParts
  <2>1. PartOf(CountedPage(Listed(R, o, n), o), R, o)
      BY <1>1, PagedPart
  <2> QED BY <1>1, <2>1
<1> QED BY <1>5, <1>6 DEF FileServed

\* A listing without rows.
LEMMA EmptyFile ==
    ASSUME NEW file, NEW other, NEW q, \A o, n : ArchiveAnswer(file, other, q, o, n) = Answer(<<>>, 0)
    PROVE  FileServed(file, other, q)
<1>1. PICK x : x = Answer(<<>>, 0)
    OBVIOUS
<1>2. x.status = "ok" /\ x.items = <<>> /\ x.total = 0 /\ x.next = None /\ Shaped(x)
    BY <1>1 DEF Answer, Shaped
<1>3. WholeOfFile(file, other, q) = <<>>
    BY <1>1, <1>2 DEF WholeOfFile, Entire
<1>4. IsSequence(<<>>) /\ Len(<<>>) = 0
    BY ShortSequences
<1>5. SubSeq(<<>>, 0 + 1, 0) = <<>>
    BY <1>4, SliceIs
<1>6. FileParts(file, other, q, <<>>)
  <2> SUFFICES ASSUME NEW o \in 0..Len(<<>>), NEW n \in Limits
               PROVE  PartOf(ArchiveAnswer(file, other, q, o, n), <<>>, o)
      BY <1>4 DEF FileParts
  <2>1. o = 0
      BY <1>4
  <2>2. Through(x, <<>>, 0, 0)
      BY <1>2, <1>4, <1>5 DEF Through
  <2>3. PartOf(x, <<>>, 0)
      BY <1>2, <1>4, <2>2 DEF PartOf
  <2> QED BY <1>1, <2>1, <2>3
<1> QED BY <1>3, <1>6 DEF FileServed

\* The names of entries.
LEMMA EntriesServed ==
    ASSUME NEW file, ReadableFile(file), NEW other, NEW q,
           \A o, n : ArchiveAnswer(file, other, q, o, n) = ListEntries(file, q, o, n)
    PROVE  FileServed(file, other, q)
<1>1. CASE Given(q, "kind") \notin EntryKinds \cup {None}
  <2>1. \A o, n : ListEntries(file, q, o, n) = Failure("invalid_query")
      BY <1>1 DEF ListEntries
  <2>2. Refuses(file, other, q)
      BY <2>1 DEF Refuses
  <2> QED BY <2>2, RefusedFile
<1>2. CASE ~(Given(q, "kind") \notin EntryKinds \cup {None})
  <2>1. PICK rows : rows = Where(ByName(file.entries), LAMBDA e :
            /\ e.bytes # None
            /\ Given(q, "kind") # None => e.kind = q.kind
            /\ Given(q, "prefix") # None => Starts(e.name, q.prefix))
      OBVIOUS
  <2>2. PICK R : R = [i \in DOMAIN rows |-> rows[i].name]
      OBVIOUS
  <2>3. IsSequence(R)
    <3>1. \A k : IsSequence(Sorted(file.entries, k))
        BY SortedSequence DEF ReadableFile
    <3>2. IsSequence(ByName(file.entries))
        BY <3>1 DEF ByName, SortedBy
    <3>3. IsSequence(rows)
        BY <2>1, <3>2, OnlySequence DEF Where
    <3>4. R = [i \in DOMAIN rows |-> R[i]]
        BY <2>2
    <3> QED BY <3>3, <3>4, MadeSequence
  <2>4. \A o, n : ListEntries(file, q, o, n) = CountedPage(Listed(R, o, n), o)
      BY <1>2, <2>1, <2>2 DEF ListEntries
  <2>5. Lists(file, other, q, R)
      BY <2>3, <2>4 DEF Lists
  <2> QED BY <2>5, ListedFile
<1> QED BY <1>1, <1>2

\* The content of an entry.
LEMMA ContentServed ==
    ASSUME NEW file, ReadableFile(file), NEW other, NEW q,
           \A o, n : ArchiveAnswer(file, other, q, o, n) = ReadEntry(file, q, o, n)
    PROVE  FileServed(file, other, q)
<1>1. CASE q.entry_path \notin NamesOf(file)
  <2>1. \A o, n : ReadEntry(file, q, o, n) = Failure("entry_not_found")
      BY <1>1 DEF ReadEntry
  <2>2. Refuses(file, other, q)
      BY <2>1 DEF Refuses
  <2> QED BY <2>2, RefusedFile
<1>2. CASE q.entry_path \in NamesOf(file)
  <2>1. PICK e : e = EntryNamed(file, q.entry_path)
      OBVIOUS
  <2>2. \A o, n : ReadEntry(file, q, o, n) = Content(e, q, o, n)
      BY <1>2, <2>1 DEF ReadEntry
  <2>3. PICK i \in DOMAIN file.entries : e = file.entries[i]
      BY <1>2, <2>1 DEF EntryNamed, NamesOf
  <2>4. (e.bytes # None => IsSequence(e.bytes)) /\ (e.xml # None => IsSequence(e.xml.lines))
      BY <2>3 DEF ReadableFile
  <2>5. CASE e.bytes = None \/ e.encrypted
    <3>1. \A seeks : ContentFailure(e, seeks) # "ok"
        BY DEF ContentFailure
    <3>2. \A o, n : \E code : code # "ok" /\ Content(e, q, o, n) = Failure(code)
        BY <2>5, <3>1 DEF Content
    <3>3. Refuses(file, other, q)
        BY <2>2, <3>2 DEF Refuses
    <3> QED BY <3>3, RefusedFile
  <2>6. CASE ~(e.bytes = None \/ e.encrypted)
    <3>1. PICK R : R = IF (e.document /\ Get(q, "decode_xml", TRUE) /\ SizeOf(e) <= XmlRoom) /\ e.xml # None
                       THEN e.xml.lines ELSE e.bytes
        OBVIOUS
    <3>2. IsSequence(R)
        BY <2>4, <2>6, <3>1
    <3>3. \A o, n : Content(e, q, o, n) = CountedPage(Listed(R, o, n), o)
        BY <2>6, <3>1 DEF Content, ContentPage
    <3>4. Lists(file, other, q, R)
        BY <2>2, <3>2, <3>3 DEF Lists
    <3> QED BY <3>4, ListedFile
  <2> QED BY <2>5, <2>6
<1> QED BY <1>1, <1>2

\* A manifest.
LEMMA ManifestServed ==
    ASSUME NEW file, ReadableFile(file), NEW other, NEW q,
           \A o, n : ArchiveAnswer(file, other, q, o, n) = ReadManifest(file, q, o, n)
    PROVE  FileServed(file, other, q)
<1>1. PICK failure : failure = IF file.kind = "aab"
                     THEN ManifestFailure(file, Given(q, "module_selection"), Given(q, "module"))
                     ELSE IF Given(q, "module") # None THEN "invalid_query" ELSE None
    OBVIOUS
<1>2. failure # None => failure # "ok"
    BY <1>1 DEF ManifestFailure, ChosenFailure
<1>3. CASE failure # None
  <2>1. \A o, n : ReadManifest(file, q, o, n) = Failure(failure)
      BY <1>1, <1>3 DEF ReadManifest
  <2>2. Refuses(file, other, q)
      BY <1>2, <1>3, <2>1 DEF Refuses
  <2> QED BY <2>2, RefusedFile
<1>4. CASE failure = None /\ Manifests(file, q) = {}
  <2>1. \A o, n : ReadManifest(file, q, o, n) = Failure("entry_not_found")
      BY <1>1, <1>4 DEF ReadManifest
  <2>2. Refuses(file, other, q)
      BY <2>1 DEF Refuses
  <2> QED BY <2>2, RefusedFile
<1>5. CASE failure = None /\ Manifests(file, q) # {}
  <2>1. PICK i : i = CHOOSE j \in Manifests(file, q) : TRUE
      OBVIOUS
  <2>2. i \in DOMAIN file.entries
    <3>1. i \in Manifests(file, q)
        BY <1>5, <2>1
    <3> QED BY <3>1 DEF Manifests
  <2>3. PICK e : e = file.entries[i]
      OBVIOUS
  <2>4. \A o, n : ReadManifest(file, q, o, n) = Manifest(e, q, o, n)
      BY <1>1, <1>5, <2>1, <2>3 DEF ReadManifest
  <2>5. e.xml # None => IsSequence(e.xml.lines) /\ IsSequence(e.xml.components)
      BY <2>2, <2>3 DEF ReadableFile
  <2>6. \/ \A o, n : \E code : code # "ok" /\ Manifest(e, q, o, n) = Failure(code)
        \/ e.xml # None /\ \A o, n : Manifest(e, q, o, n) = CountedPage(Listed(e.xml.lines, o, n), o)
        \/ e.xml # None /\ \A o, n : Manifest(e, q, o, n) = CountedPage(Listed(e.xml.components, o, n), o)
      BY DEF Manifest
  <2>7. \/ Refuses(file, other, q)
        \/ e.xml # None /\ (Lists(file, other, q, e.xml.lines) \/ Lists(file, other, q, e.xml.components))
      BY <2>4, <2>5, <2>6 DEF Refuses, Lists
  <2> QED BY <2>7, RefusedFile, ListedFile
<1> QED BY <1>3, <1>4, <1>5

\* The classes that two files do not share are a sequence.
LEMMA ChangesListed ==
    ASSUME NEW file, ReadableFile(file), NEW other, ReadableFile(other), NEW shown,
           shown = Ascending((ClassTexts(file) \ ClassTexts(other)) \cup (ClassTexts(other) \ ClassTexts(file)),
                             LAMBDA n : Units[n]),
           NEW t, t = [i \in DOMAIN shown |-> t[i]]
    PROVE  IsSequence(t)
<1>1. PICK S : S = (ClassTexts(file) \ ClassTexts(other)) \cup (ClassTexts(other) \ ClassTexts(file))
    OBVIOUS
<1>2. IsFiniteSet(ClassTexts(file)) /\ IsFiniteSet(ClassTexts(other))
    BY ClassesInListed
<1>3. IsFiniteSet(S)
  <2>1. IsFiniteSet(ClassTexts(file) \cup ClassTexts(other))
      BY <1>2, FS_Union
  <2>2. S \subseteq ClassTexts(file) \cup ClassTexts(other)
      BY <1>1
  <2> QED BY <2>1, <2>2, FS_Subset
<1>4. shown = Ascending(S, LAMBDA n : Units[n])
    BY <1>1
<1>5. IsSequence(shown)
    BY <1>3, <1>4, AscendingListed
<1> QED BY <1>5, MadeSequence

\* An inventory.
LEMMA InventoryServed ==
    ASSUME NEW file, ReadableFile(file), NEW other, ReadableFile(other), NEW q,
           \A o, n : ArchiveAnswer(file, other, q, o, n) = Inventory(file, other, q, o, n)
    PROVE  FileServed(file, other, q)
<1>1. PICK module : module = Given(q, "module")
    OBVIOUS
<1>2. PICK one, two : one = CapabilityFailure(file, module) /\ two = CapabilityFailure(other, module)
    OBVIOUS
<1>3. (one # None => one # "ok") /\ (two # None => two # "ok")
    BY <1>2 DEF CapabilityFailure, ChosenFailure
<1>4. PICK shown : shown = Ascending((ClassTexts(file) \ ClassTexts(other)) \cup (ClassTexts(other) \ ClassTexts(file)),
                                     LAMBDA n : Units[n])
    OBVIOUS
<1>5. PICK new : new = ClassTexts(other)
    OBVIOUS
<1>6. PICK changes : changes = [i \in DOMAIN shown |->
                        [target |-> shown[i], relation |-> IF shown[i] \in new THEN "added" ELSE "removed"]]
    OBVIOUS
<1>7. IsSequence(changes)
  <2>1. changes = [i \in DOMAIN shown |-> changes[i]]
      BY <1>6
  <2> QED BY <1>4, <2>1, ChangesListed
<1>8. PICK rows : rows = InventoryRows(file, q)
    OBVIOUS
<1>9. IsSequence(rows)
    BY <1>8, InventoryListed
<1>10. \A o, n : Inventory(file, other, q, o, n)
        = IF one # None THEN Failure(one)
          ELSE IF ~Some(q, "compare_to") THEN CountedPage(Listed(rows, o, n), o)
          ELSE IF two # None THEN Failure(two)
          ELSE CountedPage(Listed(changes, o, n), o)
    BY <1>1, <1>2, <1>4, <1>5, <1>6, <1>8 DEF Inventory
<1>11. \/ \A o, n : \E code : code # "ok" /\ Inventory(file, other, q, o, n) = Failure(code)
       \/ \A o, n : Inventory(file, other, q, o, n) = CountedPage(Listed(rows, o, n), o)
       \/ \A o, n : Inventory(file, other, q, o, n) = CountedPage(Listed(changes, o, n), o)
    BY <1>3, <1>10
<1>12. Refuses(file, other, q) \/ Lists(file, other, q, rows) \/ Lists(file, other, q, changes)
    BY <1>7, <1>9, <1>11 DEF Refuses, Lists
<1> QED BY <1>12, RefusedFile, ListedFile

\* Every operation of an archive refuses, or pages through its listing.
LEMMA ArchiveServed ==
    ASSUME NEW file, ReadableFile(file), NEW other, ReadableFile(other), NEW q
    PROVE  FileServed(file, other, q)
<1>1. CASE \/ q.operation \notin ArchiveOps \/ ~Inventoried(file.entries)
           \/ file.kind = "dex" /\ q.operation \notin {"list_entries", "read_entry"}
  <2>1. \A o, n : ArchiveAnswer(file, other, q, o, n) \in
            {Failure("unknown_operation"), Failure("duplicate_entry"), Failure("unsupported_capability")}
      BY <1>1 DEF ArchiveAnswer
  <2>2. Refuses(file, other, q)
      BY <2>1 DEF Refuses
  <2> QED BY <2>2, RefusedFile
<1>2. CASE ~(\/ q.operation \notin ArchiveOps \/ ~Inventoried(file.entries)
             \/ file.kind = "dex" /\ q.operation \notin {"list_entries", "read_entry"})
  <2>1. CASE q.operation = "list_entries"
    <3>1. \A o, n : ArchiveAnswer(file, other, q, o, n) = ListEntries(file, q, o, n)
        BY <1>2, <2>1 DEF ArchiveAnswer
    <3> QED BY <3>1, EntriesServed
  <2>2. CASE q.operation = "read_entry"
    <3>1. \A o, n : ArchiveAnswer(file, other, q, o, n) = ReadEntry(file, q, o, n)
        BY <1>2, <2>2 DEF ArchiveAnswer
    <3> QED BY <3>1, ContentServed
  <2>3. CASE q.operation = "artifact_inventory"
    <3>1. \A o, n : ArchiveAnswer(file, other, q, o, n) = Inventory(file, other, q, o, n)
        BY <1>2, <2>3 DEF ArchiveAnswer
    <3> QED BY <3>1, InventoryServed
  <2>4. CASE q.operation = "signing_inventory"
    <3>1. \A o, n : ArchiveAnswer(file, other, q, o, n) = Answer(<<>>, 0)
        BY <1>2, <2>4 DEF ArchiveAnswer
    <3> QED BY <3>1, EmptyFile
  <2>5. CASE q.operation \notin {"list_entries", "read_entry", "artifact_inventory", "signing_inventory"}
    <3>1. \A o, n : ArchiveAnswer(file, other, q, o, n) = ReadManifest(file, q, o, n)
      <4>1. /\ q.operation # "list_entries" /\ q.operation # "read_entry"
            /\ q.operation # "artifact_inventory" /\ q.operation # "signing_inventory"
          BY <2>5
      <4> QED BY <1>2, <4>1 DEF ArchiveAnswer
    <3> QED BY <3>1, ManifestServed
  <2> QED BY <2>1, <2>2, <2>3, <2>4, <2>5
<1> QED BY <1>1, <1>2

-----------------------------------------------------------------------------
(***************************************************************************)
(* What the rewriting of a query leaves of it: the keys that decide how it *)
(* is paged.                                                               *)
(***************************************************************************)

Paging == {"operation", "kind", "type_relation", "reference_format"}

\* Two queries agree on some keys.
Carries(q, r, keys) == \A k \in keys : (k \in DOMAIN r <=> k \in DOMAIN q) /\ (k \in DOMAIN q => r[k] = q[k])

\* Setting another key leaves those alone.
LEMMA SetCarries ==
    ASSUME NEW q, NEW key, key \notin Paging, NEW value
    PROVE  Carries(q, Set(q, key, value), Paging)
<1> DEFINE r == Set(q, key, value)
<1>1. DOMAIN r = DOMAIN q \cup {key} /\ \A k \in DOMAIN q : k # key => r[k] = q[k]
    BY DEF Set
<1> HIDE DEF r
<1>2. Carries(q, r, Paging)
    BY <1>1 DEF Carries, Paging
<1> QED BY <1>2 DEF r

\* So does replacing the value of another key.
LEMMA ExceptCarries ==
    ASSUME NEW q, NEW key, key \notin Paging, NEW value
    PROVE  Carries(q, [q EXCEPT ![key] = value], Paging)
<1> DEFINE r == [q EXCEPT ![key] = value]
<1>1. DOMAIN r = DOMAIN q /\ \A k \in DOMAIN q : k # key => r[k] = q[k]
    OBVIOUS
<1> HIDE DEF r
<1>2. Carries(q, r, Paging)
    BY <1>1 DEF Carries, Paging
<1> QED BY <1>2 DEF r

\* _normalize_dex_query adds budgets, and replaces names.
LEMMA NormalCarries ==
    ASSUME NEW q
    PROVE  Carries(q, Normal(q), Paging)
<1>0. \A r : Carries(r, r, Paging)
    BY DEF Carries
<1>1. \A r : Carries(r, Prefix(r), Paging)
  <2>1. "prefix" \notin Paging
      BY DEF Paging
  <2> QED BY <1>0, <2>1, ExceptCarries DEF Prefix
<1>2. \A r : Carries(r, Type(r), Paging)
  <2>1. "type_descriptor" \notin Paging
      BY DEF Paging
  <2> QED BY <1>0, <2>1, ExceptCarries DEF Type
<1>3. \A r : Carries(r, Class(r), Paging)
  <2>1. "class_name" \notin Paging
      BY DEF Paging
  <2> QED BY <1>0, <2>1, SetCarries DEF Class
<1>4. \A r : Carries(r, Value(r), Paging)
  <2>1. "value" \notin Paging
      BY DEF Paging
  <2> QED BY <1>0, <2>1, SetCarries DEF Value
<1>5. \A r, s, t : Carries(r, s, Paging) /\ Carries(s, t, Paging) => Carries(r, t, Paging)
    BY DEF Carries
<1>6. PICK p : p = Prefix(q)
    OBVIOUS
<1>7. PICK t : t = Type(p)
    OBVIOUS
<1>8. PICK c : c = Class(t)
    OBVIOUS
<1>9. PICK r : r = Value(c)
    OBVIOUS
<1>10. Carries(q, r, Paging)
    BY <1>1, <1>2, <1>3, <1>4, <1>5, <1>6, <1>7, <1>8, <1>9
<1>11. PICK d : d = Budgets(r)
    OBVIOUS
<1>12. DOMAIN d \cap Paging = {}
    BY <1>11 DEF Budgets, Paging
<1>13. PICK n : n = [k \in DOMAIN r \cup DOMAIN d |-> IF k \in DOMAIN r THEN r[k] ELSE d[k]]
    OBVIOUS
<1>14. DOMAIN n = DOMAIN r \cup DOMAIN d /\ \A k \in DOMAIN r : n[k] = r[k]
    BY <1>13
<1>15. Carries(r, n, Paging)
    BY <1>12, <1>14 DEF Carries
<1>16. Normal(q) = n
    BY <1>6, <1>7, <1>8, <1>9, <1>11, <1>13 DEF Normal
<1> QED BY <1>5, <1>10, <1>15, <1>16

Decisive == {"operation", "kind", "type_relation"}

\* The format and the cursor of an answer are not the query's.
LEMMA PlainCarries ==
    ASSUME NEW q
    PROVE  /\ Carries(q, Plain(q), Decisive)
           /\ "reference_format" \notin DOMAIN Plain(q)
<1>1. PICK r : r = Plain(q)
    OBVIOUS
<1>2. DOMAIN r = DOMAIN q \ {"reference_format", "cursor"} /\ \A k \in DOMAIN r : r[k] = q[k]
    BY <1>1 DEF Plain, Without
<1>3. Carries(q, r, Decisive) /\ "reference_format" \notin DOMAIN r
    BY <1>2 DEF Carries, Decisive
<1> QED BY <1>1, <1>3

\* Which queries are cut to the response, and which kinds of members are sought.
LEMMA CarriesOn ==
    ASSUME NEW q, NEW r, Carries(q, r, Decisive), "operation" \in DOMAIN q
    PROVE  /\ "operation" \in DOMAIN r /\ r.operation = q.operation
           /\ SelectedQuery(r) <=> SelectedQuery(q)
           /\ Kinded(q) => Kinded(r)
<1>1. "operation" \in DOMAIN r /\ r.operation = q.operation
    BY DEF Carries, Decisive
<1>2. Relation(r) = Relation(q)
  <2>1. "type_relation" \in DOMAIN r <=> "type_relation" \in DOMAIN q
      BY DEF Carries, Decisive
  <2>2. "type_relation" \in DOMAIN q => r["type_relation"] = q["type_relation"]
      BY DEF Carries, Decisive
  <2> QED BY <2>1, <2>2 DEF Relation, Get
<1>3. ("kind" \in DOMAIN r <=> "kind" \in DOMAIN q) /\ ("kind" \in DOMAIN q => r.kind = q.kind)
    BY DEF Carries, Decisive
<1> QED BY <1>1, <1>2, <1>3 DEF Kinded, SelectedQuery, OperandQuery

\* What the service lets through seeks methods or fields.
LEMMA AcceptedKinds ==
    ASSUME NEW q, Accepted(q), "operation" \in DOMAIN q
    PROVE  Kinded(q)
<1>1. SearchMembers(q)
    BY DEF Accepted
<1> QED BY <1>1 DEF SearchMembers, Kinded, Given

-----------------------------------------------------------------------------
(***************************************************************************)
(* The queries that the tools send on.                                     *)
(***************************************************************************)

DexReaders == {"session", "one_shot"}

FileReaders == {"archive", "inspect", "artifact"}
OtherReaders == {"compare", "secret", "cli"}

\* A query whose answer can be paged: it seeks methods or fields, groups only what is
\* cut to the response, and has a format only in a session.
Sendable(to, q) ==
    /\ to \in DexReaders \cup FileReaders \cup OtherReaders
    /\ "operation" \in DOMAIN q /\ Kinded(Plain(q))
    /\ InGroups(q) => SelectedQuery(Plain(q))
    /\ to \notin DexReaders => Plain(q) = q /\ ~SelectedQuery(q)

\* A session's query has the format only if it groups.
LEMMA SessionSendable ==
    ASSUME NEW q, "operation" \in DOMAIN q, SessionAccepted(q)
    PROVE  Sendable("session", SessionQuery(q))
<1>1. PICK w : w = Plain(q)
    OBVIOUS
<1>2. Accepted(w) /\ FormatAccepted(q)
    BY <1>1 DEF SessionAccepted, Plain
<1>3. /\ Carries(q, w, Decisive) /\ "reference_format" \notin DOMAIN w
    BY <1>1, PlainCarries
<1>4. "operation" \in DOMAIN w /\ Kinded(w) /\ (SelectedQuery(w) <=> SelectedQuery(q))
    BY <1>2, <1>3, CarriesOn, AcceptedKinds
<1>5. PICK n : n = Normal(w)
    OBVIOUS
<1>6. Carries(w, n, Paging)
    BY <1>5, NormalCarries
<1>7. Carries(w, n, Decisive) /\ "reference_format" \notin DOMAIN n
    BY <1>3, <1>6 DEF Carries, Paging, Decisive
<1>8. PICK r : r = SessionQuery(q)
    OBVIOUS
<1>9. r = IF InGroups(q) THEN Set(Set(n, "reference_format", "grouped"), "cursor", Given(q, "cursor")) ELSE n
    BY <1>1, <1>5, <1>8 DEF SessionQuery, Plain
<1>10. Carries(n, r, Decisive) /\ (~InGroups(q) => r = n)
  <2>1. \A s, key, value : key \notin Decisive => Carries(s, Set(s, key, value), Decisive)
    <3> TAKE s, key, value
    <3> HAVE key \notin Decisive
    <3>1. PICK t : t = Set(s, key, value)
        OBVIOUS
    <3>2. DOMAIN t = DOMAIN s \cup {key} /\ \A k \in DOMAIN s : k # key => t[k] = s[k]
        BY <3>1 DEF Set
    <3>3. Carries(s, t, Decisive)
        BY <3>2 DEF Carries
    <3> QED BY <3>1, <3>3
  <2>2. "reference_format" \notin Decisive /\ "cursor" \notin Decisive
      BY DEF Decisive
  <2>3. \A s, t, u : Carries(s, t, Decisive) /\ Carries(t, u, Decisive) => Carries(s, u, Decisive)
      BY DEF Carries
  <2>4. \A s : Carries(s, s, Decisive)
      BY DEF Carries
  <2> QED BY <1>9, <2>1, <2>2, <2>3, <2>4
<1>11. Carries(w, r, Decisive)
    BY <1>7, <1>10 DEF Carries
<1>12. PICK p : p = Plain(r)
    OBVIOUS
<1>13. Carries(r, p, Decisive)
    BY <1>12, PlainCarries
<1>14. Carries(w, p, Decisive)
    BY <1>11, <1>13 DEF Carries
<1>15. Kinded(p) /\ (SelectedQuery(p) <=> SelectedQuery(q))
    BY <1>4, <1>14, CarriesOn
<1>16. "operation" \in DOMAIN r
    BY <1>4, <1>11, CarriesOn
<1>17. InGroups(r) => SelectedQuery(p)
  <2>1. CASE InGroups(q)
      BY <1>2, <1>15, <2>1 DEF FormatAccepted
  <2>2. CASE ~InGroups(q)
    <3>1. "reference_format" \notin DOMAIN r
        BY <1>7, <1>10, <2>2
    <3> QED BY <3>1 DEF InGroups, Get
  <2> QED BY <2>1, <2>2
<1> QED BY <1>8, <1>12, <1>15, <1>16, <1>17 DEF Sendable, DexReaders

\* asc_analyze_dex has no format.
LEMMA OnceSendable ==
    ASSUME NEW q, "operation" \in DOMAIN q, "reference_format" \notin DOMAIN q, Accepted(q)
    PROVE  Sendable("one_shot", Normal(q))
<1>1. PICK n : n = Normal(q)
    OBVIOUS
<1>2. Carries(q, n, Paging)
    BY <1>1, NormalCarries
<1>3. Carries(q, n, Decisive) /\ "reference_format" \notin DOMAIN n
    BY <1>2 DEF Carries, Paging, Decisive
<1>4. "operation" \in DOMAIN n /\ Kinded(n)
    BY <1>3, CarriesOn, AcceptedKinds
<1>5. PICK p : p = Plain(n)
    OBVIOUS
<1>6. Carries(n, p, Decisive)
    BY <1>5, PlainCarries
<1>7. Kinded(p)
    BY <1>4, <1>6, CarriesOn
<1>8. ~InGroups(n)
    BY <1>3 DEF InGroups, Get
<1> QED BY <1>1, <1>4, <1>5, <1>7, <1>8 DEF Sendable, DexReaders

FileOps ==
    {"signing_inventory", "artifact_inventory", "list_entries", "read_entry", "manifest_summary", "manifest_xml",
     "revision_diff", "secret_candidates", "getmanifest", "listclass", "getclass", "findrefs"}

\* A tool of files, an operation of its own, no format and no cursor.
Unkeyed(keys) == "operation" \notin keys /\ "reference_format" \notin keys /\ "cursor" \notin keys

Filing(tool) ==
    /\ tool.to \in FileReaders \cup OtherReaders /\ tool.op \in FileOps
    /\ Unkeyed(tool.takes) /\ Unkeyed(DOMAIN tool.sends)

\* A tool whose keys leave those out.
LEMMA FilingTool ==
    ASSUME NEW to \in FileReaders \cup OtherReaders, NEW op \in FileOps, NEW needs, NEW takes, NEW sends,
           Unkeyed(needs \cup takes), Unkeyed(DOMAIN sends)
    PROVE  Filing(Tool(to, op, needs, takes, sends))
    BY DEF Filing, Tool

\* Every tool of files is one.
LEMMA FilesFiling ==
    \A t \in DOMAIN FileTools : Filing(FileTools[t])
<1>1. /\ Unkeyed(DOMAIN FromStart) /\ Unkeyed(DOMAIN Nothing) /\ Unkeyed(DOMAIN ContentArguments)
    BY DEF FromStart, Nothing, ContentArguments, Unkeyed
<1>2. \A keys : Unkeyed(keys) => Unkeyed(DOMAIN Absent(keys))
    BY DEF Absent, Unkeyed
<1>3. \A f, g : Unkeyed(DOMAIN f) /\ Unkeyed(DOMAIN g) => Unkeyed(DOMAIN Joined(f, g))
    BY DEF Joined, Unkeyed
<1>a. "archive" \in FileReaders /\ "inspect" \in FileReaders /\ "artifact" \in FileReaders
    BY DEF FileReaders
<1>b. "compare" \in OtherReaders /\ "secret" \in OtherReaders /\ "cli" \in OtherReaders
    BY DEF OtherReaders
<1>c. /\ "signing_inventory" \in FileOps /\ "artifact_inventory" \in FileOps /\ "list_entries" \in FileOps
      /\ "read_entry" \in FileOps /\ "manifest_summary" \in FileOps /\ "manifest_xml" \in FileOps
      /\ "revision_diff" \in FileOps /\ "secret_candidates" \in FileOps /\ "getmanifest" \in FileOps
      /\ "listclass" \in FileOps /\ "getclass" \in FileOps /\ "findrefs" \in FileOps
    BY DEF FileOps
<1>4. \A t \in DOMAIN InspectionTools : Filing(InspectionTools[t])
    BY <1>1, <1>2, <1>3, <1>a, <1>b, <1>c, FilingTool DEF InspectionTools, Unkeyed
<1>5. \A t \in DOMAIN EntryTools : Filing(EntryTools[t])
    BY <1>1, <1>2, <1>3, <1>a, <1>b, <1>c, FilingTool DEF EntryTools, Unkeyed
<1>6. \A t \in DOMAIN ReviewTools : Filing(ReviewTools[t])
    BY <1>1, <1>2, <1>3, <1>a, <1>b, <1>c, FilingTool DEF ReviewTools, Unkeyed
<1>7. \A t \in DOMAIN CliTools : Filing(CliTools[t])
    BY <1>1, <1>2, <1>3, <1>a, <1>b, <1>c, FilingTool DEF CliTools, Unkeyed
<1>8. \A t \in DOMAIN ArtifactTools : Filing(ArtifactTools[t])
    BY <1>1, <1>2, <1>3, <1>a, <1>b, <1>c, FilingTool DEF ArtifactTools, Unkeyed
<1>9. ASSUME NEW f, NEW g, \A t \in DOMAIN f : Filing(f[t]), \A t \in DOMAIN g : Filing(g[t])
      PROVE  \A t \in DOMAIN Joined(f, g) : Filing(Joined(f, g)[t])
  <2> TAKE t \in DOMAIN Joined(f, g)
  <2>1. Joined(f, g)[t] = f[t] \/ t \notin DOMAIN f
      BY DEF Joined
  <2>2. t \in DOMAIN f \/ (t \in DOMAIN g /\ Joined(f, g)[t] = g[t])
      BY DEF Joined
  <2> QED BY <1>9, <2>1, <2>2
<1> QED BY <1>4, <1>5, <1>6, <1>7, <1>8, <1>9 DEF FileTools

\* What a handle adds to a query of files.
LEMMA CompletedFiling ==
    ASSUME NEW a, NEW to, NEW q, Unkeyed(DOMAIN q \ {"operation"}), "operation" \in DOMAIN q, q.operation \in FileOps,
           NEW r, r = Completed(a, to, q)
    PROVE  Unkeyed(DOMAIN r \ {"operation"}) /\ "operation" \in DOMAIN r /\ r.operation \in FileOps
<1> DEFINE Good(s) == /\ "operation" \in DOMAIN s /\ s.operation \in FileOps
                      /\ "reference_format" \notin DOMAIN s /\ "cursor" \notin DOMAIN s
<1>1. Good(q)
    BY DEF Unkeyed
<1>2. \A s, key, value : Good(s) /\ key \notin {"operation", "reference_format", "cursor"} => Good(Set(s, key, value))
  <2> SUFFICES ASSUME NEW s, NEW key, NEW value, Good(s), key \notin {"operation", "reference_format", "cursor"}
               PROVE  Good(Set(s, key, value))
      OBVIOUS
  <2>1. PICK t : t = Set(s, key, value)
      OBVIOUS
  <2>2. DOMAIN t = DOMAIN s \cup {key} /\ \A k \in DOMAIN s : k # key => t[k] = s[k]
      BY <2>1 DEF Set
  <2>3. Good(t)
      BY <2>2
  <2> QED BY <2>1, <2>3
<1>3. \A s : Good(s) => Good(Set(s, "operation", "list_entries"))
  <2> SUFFICES ASSUME NEW s, Good(s) PROVE Good(Set(s, "operation", "list_entries"))
      OBVIOUS
  <2>1. PICK t : t = Set(s, "operation", "list_entries")
      OBVIOUS
  <2>2. DOMAIN t = DOMAIN s /\ t.operation = "list_entries"
      BY <2>1 DEF Set
  <2>3. Good(t)
      BY <2>2 DEF FileOps
  <2> QED BY <2>1, <2>3
<1> HIDE DEF Good
<1>4. Good(r)
    BY <1>1, <1>2, <1>3 DEF Completed
<1> QED BY <1>4 DEF Good, Unkeyed

\* What the service sends on can be paged.
LEMMA SentSendable ==
    ASSUME NEW a, NEW c, Registered(c), Admitted(ToolOf(c).to, SentBy(a, c))
    PROVE  Sendable(ToolOf(c).to, Rewritten(ToolOf(c).to, SentBy(a, c)))
<1>1. PICK tool : tool = ToolOf(c)
    OBVIOUS
<1>2. PICK given : given = GivenTo(c)
    OBVIOUS
<1>3. PICK asked : asked = Asked(tool, given)
    OBVIOUS
<1>4. PICK to : to = tool.to
    OBVIOUS
<1>5. PICK sent : sent = SentBy(a, c)
    OBVIOUS
<1>6. sent = Completed(a, to, asked)
    BY <1>1, <1>2, <1>3, <1>4, <1>5 DEF SentBy, Sent
<1>7. /\ "operation" \in DOMAIN asked
      /\ \A k \in DOMAIN asked : k = "operation" \/ k \in DOMAIN given \/ k \in DOMAIN tool.sends
      /\ "operation" \notin DOMAIN given \cup DOMAIN tool.sends => asked.operation = tool.op
  <2>1. PICK first : first = Joined(given, tool.sends)
      OBVIOUS
  <2>2. PICK last : last = [operation |-> tool.op]
      OBVIOUS
  <2>3. DOMAIN first = DOMAIN given \cup DOMAIN tool.sends
      BY <2>1 DEF Joined
  <2>4. asked = Joined(first, last) /\ DOMAIN last = {"operation"} /\ last.operation = tool.op
      BY <1>3, <2>1, <2>2 DEF Asked
  <2>5. DOMAIN asked = DOMAIN first \cup {"operation"}
      BY <2>4 DEF Joined
  <2>6. "operation" \notin DOMAIN first => asked["operation"] = last["operation"]
      BY <2>4 DEF Joined
  <2> QED BY <2>3, <2>4, <2>5, <2>6
<1>8. Admitted(to, sent) /\ Callable(tool, c.given)
    BY <1>1, <1>4, <1>5 DEF Registered
<1>9. CASE to = "session"
  <2>1. sent = asked
      BY <1>6, <1>9 DEF Completed
  <2>2. Rewritten(to, sent) = SessionQuery(sent) /\ SessionAccepted(sent)
      BY <1>8, <1>9 DEF Rewritten, Admitted
  <2>3. Sendable(to, SessionQuery(sent))
      BY <1>7, <1>9, <2>1, <2>2, SessionSendable
  <2> QED BY <1>1, <1>4, <1>5, <2>2, <2>3
<1>10. "asc_analyze_dex" \notin DOMAIN FocusedTools /\ "asc_query_dex_session" \notin DOMAIN FocusedTools
       /\ "apk_list_classes" \in DOMAIN FocusedTools
    BY DEF FocusedTools, ClassTools, MethodTools, ReferenceTools, SearchTools, Joined
<1>11. ASSUME to # "session"
       PROVE  c.tool # "asc_query_dex_session" /\ c.tool \notin DOMAIN FocusedTools /\ given = c.given
  <2>1. c.tool # "asc_query_dex_session"
    <3>1. QuerySession(c.op).to = "session"
        BY DEF QuerySession, Tool
    <3>2. c.tool = "asc_query_dex_session" => tool = QuerySession(c.op)
        BY <1>1, <1>10 DEF ToolOf
    <3> QED BY <1>4, <1>11, <3>1, <3>2
  <2>2. c.tool \notin DOMAIN FocusedTools
    <3>1. c.tool \in DOMAIN FocusedTools => tool = FocusedTools[c.tool]
        BY <1>1, <1>10 DEF ToolOf
    <3> QED BY <1>4, <1>11, <3>1, FocusedSession
  <2> QED BY <1>2, <1>10, <2>1, <2>2 DEF GivenTo
<1>12. CASE to # "session" /\ c.tool = "asc_analyze_dex"
  <2>1. tool = AnalyzeDex(c.op)
      BY <1>1, <1>10, <1>12 DEF ToolOf
  <2>2. tool.to = "one_shot" /\ tool.takes = DOMAIN Defaults /\ tool.sends = Defaults
      BY <2>1 DEF AnalyzeDex, Tool
  <2>3. "reference_format" \notin DOMAIN Defaults
      BY DEF Defaults, Joined, Absent
  <2>4. "reference_format" \notin DOMAIN asked
      BY <1>7, <1>8, <1>11, <1>12, <2>2, <2>3 DEF Callable
  <2>5. to = "one_shot" /\ sent = asked
      BY <1>4, <1>6, <2>2 DEF Completed
  <2>6. Rewritten(to, sent) = Normal(sent) /\ Accepted(sent)
      BY <1>8, <2>5 DEF Rewritten, Admitted
  <2>7. Sendable(to, Normal(sent))
      BY <1>7, <2>4, <2>5, <2>6, OnceSendable
  <2> QED BY <1>1, <1>4, <1>5, <2>6, <2>7
<1>13. CASE to # "session" /\ c.tool # "asc_analyze_dex"
  <2>1. c.tool \in DOMAIN FileTools /\ tool = FileTools[c.tool]
      BY <1>1, <1>11, <1>13 DEF ToolOf, Generics, Registered
  <2>2. Filing(tool)
      BY <2>1, FilesFiling
  <2>3. "operation" \notin DOMAIN given \cup DOMAIN tool.sends
      BY <1>8, <1>11, <1>13, <2>2 DEF Callable, Filing, Unkeyed
  <2>4. asked.operation \in FileOps /\ Unkeyed(DOMAIN asked \ {"operation"})
      BY <1>7, <1>8, <1>11, <1>13, <2>2, <2>3 DEF Callable, Filing, Unkeyed
  <2>5. Unkeyed(DOMAIN sent \ {"operation"}) /\ "operation" \in DOMAIN sent /\ sent.operation \in FileOps
      BY <1>6, <1>7, <2>4, CompletedFiling
  <2>6. to \in FileReaders \cup OtherReaders /\ to \notin DexReaders
      BY <1>4, <2>2 DEF Filing, FileReaders, OtherReaders, DexReaders
  <2>7. PICK r : r = Rewritten(to, sent)
      OBVIOUS
  <2>8. r = sent \/ r = [sent EXCEPT !.class_prefix = Slash(sent.class_prefix)]
      BY <2>6, <2>7 DEF Rewritten, InspectionQuery, DexReaders
  <2>9. DOMAIN r = DOMAIN sent /\ r.operation = sent.operation
      BY <2>5, <2>8
  <2>10. Plain(r) = r
    <3>1. DOMAIN r \ {"reference_format", "cursor"} = DOMAIN r
        BY <2>5, <2>9 DEF Unkeyed
    <3>2. r = [k \in DOMAIN r |-> r[k]]
      <4>1. sent = [k \in DOMAIN sent |-> sent[k]]
        <5>1. PICK s, key, value : sent = Set(s, key, value) \/ sent = asked
            BY <1>6 DEF Completed
        <5>2. asked = [k \in DOMAIN asked |-> asked[k]]
            BY <1>3 DEF Asked, Joined
        <5>3. PICK t : t = Set(s, key, value)
            OBVIOUS
        <5>4. t = [k \in DOMAIN t |-> t[k]]
            BY <5>3 DEF Set
        <5> QED BY <5>1, <5>2, <5>3, <5>4
      <4> QED BY <2>8, <4>1
    <3> QED BY <3>1, <3>2 DEF Plain, Without
  <2>11. ~InGroups(r)
      BY <2>5, <2>9 DEF InGroups, Get, Unkeyed
  <2>12. r.operation # "search_members" /\ ~SelectedQuery(r)
      BY <2>5, <2>9 DEF FileOps, SelectedQuery, OperandQuery
  <2>13. Sendable(to, r)
      BY <2>5, <2>6, <2>9, <2>10, <2>11, <2>12 DEF Sendable, Kinded
  <2> QED BY <1>1, <1>4, <1>5, <2>7, <2>13
<1> QED BY <1>9, <1>12, <1>13

-----------------------------------------------------------------------------
(***************************************************************************)
(* The pages of a call are the parts of its listing.                       *)
(***************************************************************************)

\* Every page fails; or the listing is cut at certain points, and a page starts at one
\* and ends at another.
Failing(a, to, q, revision) ==
    \A full \in BOOLEAN, o \in Nat, n \in Limits :
        /\ Shaped(Answered(a, to, q, o, n, full, revision))
        /\ Answered(a, to, q, o, n, full, revision).status # "ok"

Dividing(a, to, q, revision, R, p, T) ==
    /\ R = WholeOf(a, to, q, revision) /\ IsSequence(R) /\ Points(p, T, R)
    /\ \A full \in BOOLEAN, o \in 0..T, n \in Limits :
        /\ Cut(Answered(a, to, q, o, n, full, revision), R, p, T, o)
        /\ SelectedQuery(Plain(q)) => Answered(a, to, q, o, n, full, revision).status = "ok"

Divides(a, to, q, revision) ==
    Failing(a, to, q, revision) \/ \E R, p, T : Dividing(a, to, q, revision, R, p, T)

\* The rows of a listing are its points.
LEMMA PartPoints ==
    ASSUME NEW R, IsSequence(R), NEW p, p = [i \in 0..Len(R) |-> i]
    PROVE  Points(p, Len(R), R)
<1>1. PICK n : n = Len(R)
    OBVIOUS
<1>2. /\ n \in Nat /\ p \in [0..n -> 0..n] /\ \A i \in 0..n : p[i] = i
  <2>1. n \in Nat
      BY <1>1, SequenceParts
  <2> QED BY <1>1, <2>1
<1> QED BY <1>1, <1>2 DEF Points

\* A part of a listing is cut at its rows.
LEMMA PartCuts ==
    ASSUME NEW R, IsSequence(R), NEW p, p = [i \in 0..Len(R) |-> i], NEW o \in 0..Len(R),
           NEW answer, PartOf(answer, R, o)
    PROVE  Cut(answer, R, p, Len(R), o)
<1>1. Len(R) \in Nat
    BY SequenceParts
<1>2. PICK n : n = Len(R)
    OBVIOUS
<1>3. /\ n \in Nat /\ p \in [0..n -> 0..n] /\ \A i \in 0..n : p[i] = i
    BY <1>1, <1>2
<1>4. Cut(answer, R, p, n, o)
  <2> SUFFICES ASSUME answer.status = "ok" PROVE \E end \in o..n : Reaches(answer, R, p, n, o, end)
      BY DEF Cut, PartOf
  <2>1. PICK end \in o..n : Through(answer, R, o, end)
      BY <1>2 DEF PartOf
  <2>2. o \in 0..n /\ end \in 0..n /\ end \in o..n
      BY <1>2, <1>3, <2>1
  <2>3. p[o] = o /\ p[end] = end
      BY <1>3, <2>2
  <2>4. Reaches(answer, R, p, n, o, end)
      BY <1>2, <2>1, <2>2, <2>3 DEF Reaches, Through
  <2> QED BY <2>2, <2>4
<1> QED BY <1>2, <1>4

\* The rows of one artifact, as a worker gets them.
LEMMA ArtifactReady ==
    ASSUME NEW a \in Artifacts
    PROVE  /\ Ready(a.dex) /\ IsSequence(a.lines)
           /\ ReadableFile(a.file) /\ ReadableFile(a.newer) /\ ReadableFile(a.compared)
<1>1. PICK input : input = a.dex.input
    OBVIOUS
<1>2. ReadableInput(input)
    BY <1>1, DataAssumption DEF DataAssumption
<1>3. \A i, j \in DOMAIN input : \A k \in DOMAIN input[i].classes, n \in DOMAIN input[j].classes :
        /\ NamedWell(input[i].classes[k]) /\ ValidMembers(input[i].classes[k])
        /\ input[i].classes[k].name = input[j].classes[n].name => i = j /\ k = n
    BY <1>1, NameAssumption DEF NameAssumption
<1>4. SoundInput(input)
    BY <1>2, <1>3 DEF SoundInput, ReadableInput, Sound
<1>5. Distinct(input)
    BY <1>3 DEF Distinct
<1>6. Numbers(input)
    BY <1>1, NameAssumption DEF NameAssumption, Numbers
<1> QED BY <1>1, <1>4, <1>5, <1>6, DataAssumption DEF DataAssumption, Ready

\* A page is no longer than the limit of pages.
LEMMA PageLimits ==
    ASSUME NEW n \in Limits
    PROVE  Least(n, PageSize) \in Limits
    BY PagesAssumption DEF PagesAssumption, Limits, Least

\* Lines of the tool.
LEMMA LinesDivided ==
    ASSUME NEW a \in Artifacts, NEW q, Sendable("cli", q), NEW revision
    PROVE  Divides(a, "cli", q, revision)
<1>1. PICK R : R = a.lines
    OBVIOUS
<1>2. IsSequence(R)
    BY <1>1, ArtifactReady
<1>3. PICK p : p = [i \in 0..Len(R) |-> i]
    OBVIOUS
<1>4. R = WholeOf(a, "cli", q, revision)
    BY <1>1 DEF WholeOf
<1>5. ~SelectedQuery(Plain(q))
    BY DEF Sendable, DexReaders
<1>6. \A o \in 0..Len(R), n \in Limits : PartOf(LinePage(R, o, Least(n, PageSize)), R, o)
    BY <1>2, PageLimits, LinePart
<1>7. \A full, o, n : Answered(a, "cli", q, o, n, full, revision) = LinePage(R, o, Least(n, PageSize))
    BY <1>1 DEF Answered
<1>8. \A full : \A o \in 0..Len(R), n \in Limits :
        Cut(Answered(a, "cli", q, o, n, full, revision), R, p, Len(R), o)
    BY <1>2, <1>3, <1>6, <1>7, PartCuts
<1>9. Points(p, Len(R), R)
    BY <1>2, <1>3, PartPoints
<1> QED BY <1>2, <1>4, <1>5, <1>8, <1>9 DEF Dividing, Divides

\* The rows of a file.
LEMMA FilesDivided ==
    ASSUME NEW a \in Artifacts, NEW to \in FileReaders, NEW q, Sendable(to, q), NEW revision
    PROVE  Divides(a, to, q, revision)
<1>1. PICK file, other : file = Inspected(a, to, revision) /\ other = a.compared
    OBVIOUS
<1>2. ReadableFile(file) /\ ReadableFile(other)
    BY <1>1, ArtifactReady DEF Inspected
<1>3. FileServed(file, other, q)
    BY <1>2, ArchiveServed
<1>4. ~SelectedQuery(Plain(q))
    BY DEF Sendable, FileReaders, DexReaders
<1>5. \A full, o, n :
        Answered(a, to, q, o, n, full, revision) = ArchiveAnswer(file, other, q, o, Least(n, PageSize))
    BY <1>1 DEF Answered, FileReaders
<1>6. CASE FileFails(file, other, q)
  <2>1. \A full \in BOOLEAN, o \in Nat, n \in Limits :
            /\ Shaped(Answered(a, to, q, o, n, full, revision))
            /\ Answered(a, to, q, o, n, full, revision).status # "ok"
      BY <1>5, <1>6, PageLimits DEF FileFails
  <2> QED BY <2>1 DEF Failing, Divides
<1>7. CASE FileParts(file, other, q, WholeOfFile(file, other, q))
  <2>1. PICK R : R = WholeOfFile(file, other, q)
      OBVIOUS
  <2>2. R = WholeOf(a, to, q, revision)
      BY <1>1, <2>1 DEF WholeOf, WholeOfFile, FileReaders
  <2>3. IsSequence(R) /\ \A o \in 0..Len(R), n \in Limits : PartOf(ArchiveAnswer(file, other, q, o, n), R, o)
      BY <1>7, <2>1 DEF FileParts
  <2>4. PICK p : p = [i \in 0..Len(R) |-> i]
      OBVIOUS
  <2>5. Points(p, Len(R), R)
      BY <2>3, <2>4, PartPoints
  <2>6. \A full : \A o \in 0..Len(R), n \in Limits :
            Cut(Answered(a, to, q, o, n, full, revision), R, p, Len(R), o)
    <3> TAKE full
    <3> TAKE o \in 0..Len(R), n \in Limits
    <3>1. PICK m \in Limits : m = Least(n, PageSize)
        BY PageLimits
    <3>2. PICK x : x = ArchiveAnswer(file, other, q, o, m)
        OBVIOUS
    <3>3. PartOf(x, R, o)
        BY <2>3, <3>1, <3>2
    <3>4. Cut(x, R, p, Len(R), o)
        BY <2>3, <2>4, <3>3, PartCuts
    <3> QED BY <1>5, <3>1, <3>2, <3>4
  <2> QED BY <1>4, <2>2, <2>3, <2>5, <2>6 DEF Dividing, Divides
<1> QED BY <1>3, <1>6, <1>7 DEF FileServed

\* A worker's pages, flat or grouped.
WorkerPage(dex, q, o, n, full, grouped) ==
    IF grouped THEN GroupedPage(dex, q, o, n, full) ELSE DexAnswer(dex, q, o, n, full)

WorkerFails(dex, q, grouped) ==
    \A full \in BOOLEAN, o \in Nat, n \in Limits :
        /\ Shaped(WorkerPage(dex, q, o, n, full, grouped))
        /\ WorkerPage(dex, q, o, n, full, grouped).status # "ok"

WorkerCuts(dex, q, grouped, R, p, T) ==
    /\ IsSequence(R) /\ Points(p, T, R)
    /\ \A full \in BOOLEAN, o \in 0..T, n \in Limits :
        /\ Cut(WorkerPage(dex, q, o, n, full, grouped), R, p, T, o)
        /\ SelectedQuery(q) => WorkerPage(dex, q, o, n, full, grouped).status = "ok"

\* Each is cut from the listing.
LEMMA WorkerDivided ==
    ASSUME NEW dex, Ready(dex), NEW q, Kinded(q), NEW grouped \in BOOLEAN, grouped => SelectedQuery(q),
           NEW R, R = WholeOfDex(dex, Selected(dex.input, q))
    PROVE  WorkerFails(dex, q, grouped) \/ \E p, T : WorkerCuts(dex, q, grouped, R, p, T)
<1>1. CASE DexFails(dex, q)
  <2>1. WorkerFails(dex, q, grouped)
      BY <1>1, GroupedFails DEF DexFails, WorkerPage, WorkerFails
  <2> QED BY <2>1
<1>2. CASE DexParts(dex, q, R)
  <2>1. IsSequence(R)
      BY <1>2 DEF DexParts
  <2>2. PICK p : p = [i \in 0..Len(R) |-> i]
      OBVIOUS
  <2>3. Points(p, Len(R), R)
      BY <2>1, <2>2, PartPoints
  <2>4. \A full \in BOOLEAN, o \in 0..Len(R), n \in Limits :
            /\ Cut(WorkerPage(dex, q, o, n, full, grouped), R, p, Len(R), o)
            /\ SelectedQuery(q) => WorkerPage(dex, q, o, n, full, grouped).status = "ok"
    <3> TAKE full \in BOOLEAN, o \in 0..Len(R), n \in Limits
    <3>1. PICK x : x = WorkerPage(dex, q, o, n, full, grouped)
        OBVIOUS
    <3>2. PartOf(x, R, o) /\ (SelectedQuery(q) => x.status = "ok")
      <4>1. CASE grouped
        <5>1. x = GroupedPage(dex, q, o, n, full)
            BY <3>1, <4>1 DEF WorkerPage
        <5> QED BY <1>2, <4>1, <5>1, GroupedPart
      <4>2. CASE ~grouped
        <5>1. x = DexAnswer(dex, q, o, n, full)
            BY <3>1, <4>2 DEF WorkerPage
        <5> QED BY <1>2, <5>1 DEF DexParts
      <4> QED BY <4>1, <4>2
    <3>3. Cut(x, R, p, Len(R), o)
        BY <2>1, <2>2, <3>2, PartCuts
    <3> QED BY <3>1, <3>2, <3>3
  <2>5. WorkerCuts(dex, q, grouped, R, p, Len(R))
      BY <2>1, <2>3, <2>4 DEF WorkerCuts
  <2> QED BY <2>5
<1>3. CASE \E p, T : DexCuts(dex, q, R, p, T)
  <2>1. PICK p, T : DexCuts(dex, q, R, p, T)
      BY <1>3
  <2>2. IsSequence(R) /\ Points(p, T, R) /\ ~SelectedQuery(q) /\ ~grouped
      BY <2>1 DEF DexCuts
  <2>3. \A full \in BOOLEAN, o \in 0..T, n \in Limits :
            Cut(WorkerPage(dex, q, o, n, full, grouped), R, p, T, o)
      BY <2>1, <2>2 DEF DexCuts, WorkerPage
  <2>4. WorkerCuts(dex, q, grouped, R, p, T)
      BY <2>2, <2>3 DEF WorkerCuts
  <2> QED BY <2>4
<1> QED BY <1>1, <1>2, <1>3, DexServed

\* The rows of prepared DEX files.
LEMMA DexDivided ==
    ASSUME NEW a \in Artifacts, NEW to \in DexReaders \cup {"compare", "secret"}, NEW q, Sendable(to, q), NEW revision
    PROVE  Divides(a, to, q, revision)
<1>1. PICK dex, plain : dex = a.dex /\ plain = Plain(q)
    OBVIOUS
<1>2. PICK R : R = WholeOfDex(dex, Selected(dex.input, plain))
    OBVIOUS
<1>3. Ready(dex) /\ Kinded(plain) /\ (InGroups(q) => SelectedQuery(plain))
    BY <1>1, ArtifactReady DEF Sendable
<1>4. R = WholeOf(a, to, q, revision)
    BY <1>1, <1>2 DEF WholeOf, DexReaders
<1>5. PICK grouped \in BOOLEAN : grouped = (to \in DexReaders /\ InGroups(q))
    OBVIOUS
<1>6. \A full, o, n :
        Answered(a, to, q, o, n, full, revision)
            = WorkerPage(dex, plain, o, Least(n, PageSize), IF to \in DexReaders THEN full ELSE FALSE, grouped)
  <2>1. CASE to \in DexReaders
      BY <1>1, <1>5, <2>1 DEF Answered, SessionAnswer, WorkerPage, Plain, DexReaders
  <2>2. CASE to \notin DexReaders
    <3>1. plain = q
        BY <1>1, <2>2 DEF Sendable
    <3> QED BY <1>1, <1>5, <2>2, <3>1 DEF Answered, WorkerPage, DexReaders
  <2> QED BY <2>1, <2>2
<1>7. CASE WorkerFails(dex, plain, grouped)
  <2>1. Failing(a, to, q, revision)
    <3> SUFFICES ASSUME NEW full \in BOOLEAN, NEW o \in Nat, NEW n \in Limits
                 PROVE  /\ Shaped(Answered(a, to, q, o, n, full, revision))
                        /\ Answered(a, to, q, o, n, full, revision).status # "ok"
        BY DEF Failing
    <3>1. PICK m \in Limits : m = Least(n, PageSize)
        BY PageLimits
    <3>2. PICK f \in BOOLEAN : f = IF to \in DexReaders THEN full ELSE FALSE
        OBVIOUS
    <3>3. PICK x : x = WorkerPage(dex, plain, o, m, f, grouped)
        OBVIOUS
    <3>4. Shaped(x) /\ x.status # "ok"
        BY <1>7, <3>1, <3>2, <3>3 DEF WorkerFails
    <3> QED BY <1>6, <3>1, <3>2, <3>3, <3>4
  <2> QED BY <2>1 DEF Divides
<1>8. CASE \E p, T : WorkerCuts(dex, plain, grouped, R, p, T)
  <2>1. PICK p, T : WorkerCuts(dex, plain, grouped, R, p, T)
      BY <1>8
  <2>2. \A full \in BOOLEAN, o \in 0..T, n \in Limits :
            /\ Cut(Answered(a, to, q, o, n, full, revision), R, p, T, o)
            /\ SelectedQuery(Plain(q)) => Answered(a, to, q, o, n, full, revision).status = "ok"
    <3> TAKE full \in BOOLEAN, o \in 0..T, n \in Limits
    <3>1. PICK m \in Limits : m = Least(n, PageSize)
        BY PageLimits
    <3>2. PICK f \in BOOLEAN : f = IF to \in DexReaders THEN full ELSE FALSE
        OBVIOUS
    <3>3. PICK x : x = WorkerPage(dex, plain, o, m, f, grouped)
        OBVIOUS
    <3>4. Cut(x, R, p, T, o) /\ (SelectedQuery(plain) => x.status = "ok")
        BY <2>1, <3>1, <3>2, <3>3 DEF WorkerCuts
    <3>5. Answered(a, to, q, o, n, full, revision) = x
        BY <1>6, <3>1, <3>2, <3>3
    <3> QED BY <1>1, <3>4, <3>5
  <2>3. IsSequence(R) /\ Points(p, T, R)
      BY <2>1 DEF WorkerCuts
  <2> QED BY <1>4, <2>2, <2>3 DEF Dividing, Divides
<1>9. grouped => SelectedQuery(plain)
    BY <1>3, <1>5
<1> QED BY <1>2, <1>3, <1>7, <1>8, <1>9, WorkerDivided

\* Every call that is let through.
LEMMA Divided ==
    ASSUME NEW a \in Artifacts, NEW to, NEW q, Sendable(to, q), NEW revision
    PROVE  Divides(a, to, q, revision)
    BY LinesDivided, FilesDivided, DexDivided DEF Sendable, FileReaders, OtherReaders, DexReaders

-----------------------------------------------------------------------------
(***************************************************************************)
(* A client that follows the continuations.                                *)
(***************************************************************************)

Reader == ToolOf(call).to

\* Some pages have come: up to a point of one listing.
Reading ==
    /\ page.status = "ok" /\ page.at \in Nat /\ page.at < offset
    /\ page.revision = disk \/ OfDisk(call)
    /\ \E R, p, T : /\ Dividing(artifact, Reader, query, page.revision, R, p, T)
                    /\ offset \in 0..T /\ got = SubSeq(R, 1, p[offset])

\* No page has come.
Unread == offset = 0 /\ got = <<>> /\ page = None

\* The last page has come, or a page that failed.
Over ==
    /\ page.at \in 0..offset
    /\ ~graph.ended =>
        /\ page.status = "ok" => got = Undivided /\ IsSequence(Undivided)
        /\ page.at > 0 /\ SelectedQuery(Plain(query)) => page.status = "ok"

\* What the pages that a call has received are, at each stage of it.
PagesInv ==
    /\ offset \in Nat
    /\ stage # "idle" => call.limit \in Limits
    /\ stage \in {"idle", "asked", "walking"} => Unread
    /\ stage = "serving" =>
        /\ Sendable(Reader, query)
        /\ IF offset = 0 THEN Unread ELSE Reading /\ ~Walks(query)
    /\ stage = "done" => Over

\* A page that is served moves on to another point, or is the last.
Turned(x, R, p, T, o, held) ==
    \E end \in o..T :
        /\ held \o x.items = SubSeq(R, 1, p[end])
        /\ IF x.next = None THEN held \o x.items = R ELSE x.next = end /\ o < end

\* Every page that is cut from the listing does.
LEMMA PageTurns ==
    ASSUME NEW R, IsSequence(R), NEW p, NEW T, Points(p, T, R), NEW o \in 0..T, NEW x, Cut(x, R, p, T, o),
           x.status = "ok", NEW held, held = SubSeq(R, 1, p[o])
    PROVE  Turned(x, R, p, T, o, held)
<1>1. PICK end \in o..T : Reaches(x, R, p, T, o, end)
    BY DEF Cut
<1>2. T \in Nat /\ end \in 0..T /\ p[o] \in 0..Len(R) /\ p[end] \in p[o]..Len(R) /\ p[T] = Len(R)
    BY <1>1 DEF Points, Reaches
<1>3. Len(R) \in Nat /\ R \in Seq(ToSet(R))
    BY SequenceParts DEF IsSequence
<1>4. PICK b \in 0..Len(R) : b = p[o]
    BY <1>2
<1>5. PICK c \in b..Len(R) : c = p[end]
    BY <1>2, <1>4
<1>6. SubSeq(R, 0 + 1, b) \o SubSeq(R, b + 1, c) = SubSeq(R, 0 + 1, c)
  <2>1. 0 \in 0..Len(R) /\ b \in 0..Len(R)
      BY <1>3
  <2> QED BY <2>1, SlicesJoin
<1>7. held \o x.items = SubSeq(R, 1, c)
  <2>1. PICK y, z : y = p[o] /\ z = p[end]
      OBVIOUS
  <2>2. x.items = SubSeq(R, y + 1, z)
      BY <1>1, <2>1 DEF Reaches
  <2>3. y = b /\ z = c
      BY <1>4, <1>5, <2>1
  <2>4. x.items = SubSeq(R, b + 1, c)
      BY <2>2, <2>3
  <2>5. held = SubSeq(R, 0 + 1, b)
      BY <1>4
  <2>6. held \o x.items = SubSeq(R, 0 + 1, c)
      BY <1>6, <2>4, <2>5
  <2>7. 0 + 1 = 1
      OBVIOUS
  <2>8. SubSeq(R, 0 + 1, c) = SubSeq(R, 1, c)
      BY <2>7, ZenonT(30)
  <2> QED BY <2>6, <2>8
<1>8. SubSeq(R, 1, Len(R)) = R
    BY <1>3
<1>9. x.next = None => held \o x.items = R
    BY <1>1, <1>2, <1>5, <1>7, <1>8 DEF Reaches
<1>10. x.next # None => x.next = end /\ o < end
    BY <1>1 DEF Reaches
<1> QED BY <1>5, <1>7, <1>9, <1>10 DEF Turned

\* What has come is a start of the listing.
LEMMA StartReceived ==
    ASSUME NEW R, IsSequence(R), NEW n \in 0..Len(R), NEW held, held = SubSeq(R, 1, n)
    PROVE  held = First(R, Len(held))
<1>1. Len(R) \in Nat /\ n \in Nat /\ n <= Len(R)
    BY SequenceParts
<1>2. Len(held) = n
  <2>1. 0 \in 0..Len(R) /\ n \in 0..Len(R)
      BY <1>1
  <2>2. Len(SubSeq(R, 0 + 1, n)) = n - 0
      BY <2>1, SliceIs
  <2> QED BY <1>1, <2>2
<1>3. First(R, n) = SubSeq(R, 0 + 1, Least(n, Len(R)))
    BY <1>1, FirstSlice
<1>4. Least(n, Len(R)) = n
    BY <1>1 DEF Least
<1> QED BY <1>2, <1>3, <1>4

\* The invariant is what the property states.
LEMMA PagesExact ==
    ASSUME PagesInv, stage \in Stages
    PROVE  ListingExact
<1>1. CASE stage \in {"idle", "asked", "walking"}
    BY <1>1 DEF PagesInv, Unread, ListingExact
<1>2. CASE stage = "serving" /\ offset = 0
    BY <1>2 DEF PagesInv, Unread, ListingExact
<1>3. CASE stage = "serving" /\ offset # 0
  <2>1. Reading /\ offset \in Nat
      BY <1>3 DEF PagesInv
  <2>2. PICK R, p, T : /\ Dividing(artifact, Reader, query, page.revision, R, p, T)
                       /\ offset \in 0..T /\ got = SubSeq(R, 1, p[offset])
      BY <2>1 DEF Reading
  <2>3. R = Undivided /\ IsSequence(R) /\ Points(p, T, R)
      BY <2>2 DEF Dividing, Undivided, Reader
  <2>4. p[offset] \in 0..Len(R)
      BY <2>2, <2>3 DEF Points
  <2>5. got = First(Undivided, Len(got))
      BY <2>2, <2>3, <2>4, StartReceived
  <2>6. page.at \in 0..offset /\ offset > page.at
      BY <2>1 DEF Reading
  <2> QED BY <1>3, <2>1, <2>5, <2>6 DEF ListingExact, Received
<1>4. CASE stage = "done"
  <2>1. Over /\ offset \in Nat
      BY <1>4 DEF PagesInv
  <2>2. ASSUME ~graph.ended, page.status = "ok" PROVE Received(Undivided)
    <3>1. PICK R : R = Undivided
        OBVIOUS
    <3>2. got = R /\ IsSequence(R)
        BY <2>1, <2>2, <3>1 DEF Over
    <3>3. Len(R) \in Nat /\ SubSeq(R, 1, Len(R)) = R
        BY <3>2, SequenceParts DEF IsSequence
    <3>4. Len(R) \in 0..Len(R)
        BY <3>3
    <3>5. R = First(R, Len(R))
        BY <3>2, <3>3, <3>4, StartReceived
    <3> QED BY <3>1, <3>2, <3>5 DEF Received
  <2> QED BY <1>4, <2>1, <2>2 DEF ListingExact, Over
<1> QED BY <1>1, <1>2, <1>3, <1>4 DEF Stages

\* Whatever is asked of a file, the answer has the shape of a page.
LEMMA ArchiveShaped ==
    ASSUME NEW file, NEW other, NEW q, NEW o, NEW n
    PROVE  Shaped(ArchiveAnswer(file, other, q, o, n))
<1>1. \A code : Shaped(Failure(code))
    BY DEF Failure, Shaped
<1>2. \A rows, total : Shaped(Answer(rows, total))
    BY DEF Answer, Shaped
<1>3. \A rows : Shaped(CountedPage(Listed(rows, o, n), o))
  <2> TAKE rows
  <2>1. PICK x : x = Listed(rows, o, n)
      OBVIOUS
  <2>2. PICK items, total : items = Window(rows, o, n) /\ total = Len(rows)
      OBVIOUS
  <2>3. x = [status |-> "ok", items |-> items, total |-> total, next |-> None]
      BY <2>1, <2>2 DEF Listed, Answer
  <2>4. PICK next : next = IF o + Len(items) < total THEN o + Len(items) ELSE None
      OBVIOUS
  <2>5. CountedPage(x, o) = [x EXCEPT !.next = next]
      BY <2>3, <2>4 DEF CountedPage
  <2>6. PICK y : y = [x EXCEPT !.next = next]
      OBVIOUS
  <2>7. y = [status |-> "ok", items |-> items, total |-> total, next |-> next]
      BY <2>3, <2>6
  <2>8. Shaped(y)
      BY <2>7 DEF Shaped
  <2> QED BY <2>1, <2>5, <2>6, <2>8
<1>4. \A rows : Shaped(ContentPage(rows, o, n))
    BY <1>3 DEF ContentPage
<1>5. Shaped(ListEntries(file, q, o, n))
    BY <1>1, <1>3 DEF ListEntries
<1>6. \A e : Shaped(Content(e, q, o, n))
    BY <1>1, <1>4 DEF Content
<1>7. Shaped(ReadEntry(file, q, o, n))
    BY <1>1, <1>6 DEF ReadEntry
<1>8. Shaped(Inventory(file, other, q, o, n))
    BY <1>1, <1>3 DEF Inventory
<1>9. \A e : Shaped(Manifest(e, q, o, n))
    BY <1>1, <1>3 DEF Manifest
<1>10. Shaped(ReadManifest(file, q, o, n))
    BY <1>1, <1>9 DEF ReadManifest
<1> QED BY <1>1, <1>2, <1>5, <1>7, <1>8, <1>10 DEF ArchiveAnswer, ArchiveOps

\* What WalksInv says of a call, before and after a step.
Known ==
    /\ artifact \in Artifacts /\ durable \in Durables(artifact) \cup {"stored"} /\ stage \in Stages
    /\ stage # "idle" => Registered(call)

\* Nothing has come yet at the start, and after the last page is forgotten.
LEMMA InitPages == Init => PagesInv
    BY DEF Init, PagesInv, Unread

\* An answer that failed ends a call of which no page has come.
LEMMA FailedOver ==
    ASSUME offset = 0, UNCHANGED offset, NEW code, code # "ok", page' = Reply(Failure(code))
    PROVE  Over'
<1>1. page'.status # "ok" /\ page'.at = 0
    BY FailedPart DEF Reply
<1> QED BY <1>1 DEF Over

\* A walk begins, or the call ends.
LEMMA BeginPages ==
    ASSUME Unread, call.limit \in Limits, NEW source, NEW frontier, Begin(source, frontier),
           UNCHANGED <<call, offset, got>>
    PROVE  PagesInv'
<1>1. CASE stage' = "walking" /\ UNCHANGED page
    BY <1>1 DEF PagesInv, Unread
<1>2. CASE page' = Reply(Failure("method_not_found")) /\ stage' = "done"
  <2>1. Over'
      BY <1>2, FailedOver DEF Unread
  <2> QED BY <1>2, <2>1 DEF PagesInv, Unread
<1> QED BY <1>1, <1>2 DEF Begin

\* A page is answered.
LEMMA ServePages ==
    ASSUME Known, PagesInv, Serve
    PROVE  PagesInv'
<1>1. PICK has, answer :
        /\ answer = Answered(artifact, Reader, query, offset, call.limit, has = "full", disk)
        /\ page' = Reply([answer EXCEPT !.status = IF Outdated THEN "changed" ELSE @])
        /\ got' = IF page'.status = "ok" THEN got \o answer.items ELSE got
        /\ IF page'.status = "ok" /\ answer.next # None
           THEN offset' = answer.next /\ stage' = "serving"
           ELSE stage' = "done" /\ UNCHANGED offset
    BY DEF Serve, Reader
<1>2. /\ stage = "serving" /\ ~Walks(query) /\ UNCHANGED <<artifact, disk, call, query, graph>>
    BY DEF Serve
<1>3. /\ offset \in Nat /\ call.limit \in Limits /\ Sendable(Reader, query)
      /\ IF offset = 0 THEN Unread ELSE Reading
    BY <1>2 DEF PagesInv
<1>4. PICK full \in BOOLEAN : full = (has = "full")
    OBVIOUS
<1>5. PICK s, t, n, m : s = answer.status /\ t = answer.items /\ n = answer.total /\ m = answer.next
    OBVIOUS
<1>6. PICK w : w = IF Outdated THEN "changed" ELSE s
    OBVIOUS
<1>7. ASSUME Shaped(answer)
      PROVE  page' = [status |-> w, items |-> t, total |-> n, next |-> m, at |-> offset, revision |-> disk]
  <2>1. answer = [status |-> s, items |-> t, total |-> n, next |-> m]
      BY <1>5, <1>7 DEF Shaped
  <2>2. [answer EXCEPT !.status = IF Outdated THEN "changed" ELSE @] = [answer EXCEPT !.status = w]
      BY <1>5, <1>6
  <2>3. PICK x : x = [answer EXCEPT !.status = w]
      OBVIOUS
  <2>4. x = [status |-> w, items |-> t, total |-> n, next |-> m]
      BY <2>1, <2>3
  <2>5. page' = Reply(x)
      BY <1>1, <2>2, <2>3
  <2> QED BY <2>4, <2>5 DEF Reply
<1>8. /\ Reader' = Reader /\ call'.limit \in Limits /\ OfDisk(call)' = OfDisk(call)
    BY <1>2, <1>3 DEF Reader
<1>9. CASE w # "ok" /\ Shaped(answer) /\ (offset > 0 => ~SelectedQuery(Plain(query)))
  <2>1. page'.status # "ok" /\ page'.at = offset
      BY <1>7, <1>9
  <2>2. stage' = "done" /\ UNCHANGED offset
      BY <1>1, <2>1
  <2>3. Over'
      BY <1>2, <1>3, <1>9, <2>1, <2>2 DEF Over
  <2> QED BY <1>3, <1>8, <2>2, <2>3 DEF PagesInv
<1>10. CASE Outdated /\ Shaped(answer)
  <2>1. w = "changed"
      BY <1>6, <1>10
  <2>2. Reader \in FileReaders /\ Reader \notin DexReaders
      BY <1>10 DEF Outdated, OfDisk, Reader, FileReaders, DexReaders
  <2>3. ~SelectedQuery(Plain(query))
      BY <1>3, <2>2 DEF Sendable
  <2> QED BY <1>9, <1>10, <2>1, <2>3
<1>11. CASE Failing(artifact, Reader, query, disk) /\ offset = 0
  <2>1. Shaped(answer) /\ s # "ok"
      BY <1>1, <1>3, <1>4, <1>5, <1>11 DEF Failing
  <2>2. w # "ok"
      BY <1>6, <2>1
  <2> QED BY <1>9, <1>11, <2>1, <2>2
<1>12. ASSUME NEW R, NEW p, NEW T, Dividing(artifact, Reader, query, disk, R, p, T), offset \in 0..T,
              got = SubSeq(R, 1, p[offset])
       PROVE  PagesInv'
  <2>1. /\ R = WholeOf(artifact, Reader, query, disk) /\ IsSequence(R) /\ Points(p, T, R)
        /\ Cut(answer, R, p, T, offset) /\ (SelectedQuery(Plain(query)) => s = "ok")
      BY <1>1, <1>3, <1>4, <1>5, <1>12 DEF Dividing
  <2>2. Shaped(answer)
      BY <2>1 DEF Cut
  <2>3. CASE w # "ok"
    <3>1. CASE Outdated
        BY <1>10, <2>2, <3>1
    <3>2. CASE ~Outdated
        BY <1>6, <1>9, <2>1, <2>2, <2>3, <3>2
    <3> QED BY <3>1, <3>2
  <2>4. CASE w = "ok"
    <3>1. s = "ok" /\ page'.status = "ok" /\ page'.at = offset /\ page'.revision = disk
        BY <1>6, <1>7, <2>2, <2>4
    <3>2. Turned(answer, R, p, T, offset, got)
        BY <1>5, <1>12, <2>1, <3>1, PageTurns
    <3>3. PICK end \in offset..T :
            /\ got \o answer.items = SubSeq(R, 1, p[end])
            /\ IF answer.next = None THEN got \o answer.items = R ELSE answer.next = end /\ offset < end
        BY <3>2 DEF Turned
    <3>4. got' = got \o answer.items
        BY <1>1, <3>1
    <3>5. T \in Nat /\ end \in 0..T /\ end \in Nat
        BY <1>3, <2>1, <3>3 DEF Points
    <3>6. CASE answer.next = None
      <4>1. got' = R /\ stage' = "done" /\ UNCHANGED offset
          BY <1>1, <3>1, <3>3, <3>4, <3>6
      <4>2. Undivided' = R
          BY <1>2, <1>8, <2>1, <3>1 DEF Undivided, Reader
      <4>3. Over'
          BY <1>3, <2>1, <3>1, <4>1, <4>2 DEF Over
      <4> QED BY <1>3, <1>8, <4>1, <4>3 DEF PagesInv
    <3>7. CASE answer.next # None
      <4>1. got' = SubSeq(R, 1, p[end]) /\ stage' = "serving" /\ offset' = end /\ offset < end
          BY <1>1, <3>1, <3>3, <3>4, <3>7
      <4>2. Dividing(artifact', Reader', query', page'.revision, R, p, T)
          BY <1>2, <1>8, <1>12, <3>1
      <4>3. Reading'
          BY <1>2, <1>3, <3>1, <3>5, <4>1, <4>2 DEF Reading
      <4>4. Sendable(Reader', query')
          BY <1>2, <1>3, <1>8
      <4>5. ~Walks(query')
          BY <1>2
      <4>6. offset' \in Nat /\ offset' # 0
          BY <1>3, <3>5, <4>1
      <4> QED BY <1>8, <4>1, <4>3, <4>4, <4>5, <4>6 DEF PagesInv
    <3> QED BY <3>6, <3>7
  <2> QED BY <2>3, <2>4
<1>13. CASE offset = 0
  <2>1. Divides(artifact, Reader, query, disk)
      BY <1>3, Divided DEF Known
  <2>2. CASE \E R, p, T : Dividing(artifact, Reader, query, disk, R, p, T)
    <3>1. PICK R, p, T : Dividing(artifact, Reader, query, disk, R, p, T)
        BY <2>2
    <3>2. R \in Seq(ToSet(R)) /\ T \in Nat /\ p[0] = 0
        BY <3>1 DEF Dividing, IsSequence, Points
    <3>3. SubSeq(R, 1, 0) = <<>>
        BY <3>2
    <3>4. offset \in 0..T /\ got = SubSeq(R, 1, p[offset])
        BY <1>3, <1>13, <3>2, <3>3 DEF Unread
    <3> QED BY <1>12, <3>1, <3>4
  <2> QED BY <1>11, <1>13, <2>1, <2>2 DEF Divides
<1>14. CASE offset # 0
  <2>1. Reading
      BY <1>3, <1>14
  <2>2. PICK R, p, T : /\ Dividing(artifact, Reader, query, page.revision, R, p, T)
                       /\ offset \in 0..T /\ got = SubSeq(R, 1, p[offset])
      BY <2>1 DEF Reading
  <2>3. CASE page.revision = disk
      BY <1>12, <2>2, <2>3
  <2>4. CASE page.revision # disk
    <3>1. Outdated
        BY <1>3, <1>14, <2>1, <2>4 DEF Outdated, Reading
    <3>2. Shaped(answer)
      <4>1. Reader \in {"archive", "inspect"}
          BY <3>1 DEF Outdated, OfDisk, Reader
      <4> QED BY <1>1, <4>1, ArchiveShaped DEF Answered
    <3> QED BY <1>10, <3>1, <3>2
  <2> QED BY <2>3, <2>4
<1> QED BY <1>13, <1>14

\* What others do to the index and the durable cache changes nothing of it.
LEMMA SamePages ==
    ASSUME PagesInv, UNCHANGED <<artifact, disk, stage, call, query, offset, got, page, graph>>
    PROVE  PagesInv'
<1>1. /\ artifact' = artifact /\ disk' = disk /\ stage' = stage /\ call' = call /\ query' = query
      /\ offset' = offset /\ got' = got /\ page' = page /\ graph' = graph
    OBVIOUS
<1>2. Reader' = Reader /\ OfDisk(call)' = OfDisk(call) /\ Undivided' = Undivided
    BY <1>1 DEF Reader, OfDisk, Undivided
<1>3. Reading => Reading'
    BY <1>1, <1>2 DEF Reading
<1>4. Over => Over'
    BY <1>1, <1>2 DEF Over
<1> QED BY <1>1, <1>2, <1>3, <1>4 DEF PagesInv, Unread

\* Every step keeps the invariant; a walk that concludes ends its graph.
LEMMA NextPages ==
    ASSUME Known, PagesInv, Conclude => graph'.ended, [Next]_vars
    PROVE  PagesInv'
<1> USE DEF Stages
<1>1. CASE Ask
  <2>1. PICK c \in Asks(artifact, durable) : call' = c
      BY <1>1 DEF Ask
  <2>2. c.limit \in Limits
      BY <2>1, ToolAssumption DEF Known, ToolAssumption, Limits
  <2> QED BY <1>1, <2>1, <2>2 DEF Ask, PagesInv, Unread
<1>2. CASE Refuse
  <2>1. stage = "asked" /\ stage' = "done" /\ page' = Reply(Failure("invalid_query")) /\ UNCHANGED <<call, offset>>
      BY <1>2 DEF Refuse
  <2>2. Over'
      BY <2>1, FailedOver DEF PagesInv, Unread
  <2> QED BY <2>1, <2>2 DEF PagesInv
<1>3. CASE Accept
  <2>1. /\ stage = "asked" /\ stage' = "serving" /\ UNCHANGED <<artifact, call, offset, got, page>>
        /\ query' = Rewritten(Reader, SentBy(artifact, call)) /\ Admitted(Reader, SentBy(artifact, call))
      BY <1>3 DEF Accept, session, Reader
  <2>2. Sendable(Reader, query')
      BY <2>1, SentSendable DEF Known, Reader
  <2>3. Reader' = Reader
      BY <2>1 DEF Reader
  <2> QED BY <2>1, <2>2, <2>3 DEF PagesInv, Unread
<1>4. CASE Serve
    BY <1>4, ServePages
<1>5. CASE Unresolvable
  <2>1. PICK code : code = IF Answerable(query) THEN Resolution(Input, query) ELSE "key_error"
      OBVIOUS
  <2>2. /\ stage = "serving" /\ stage' = "done" /\ page' = Reply(Failure(code)) /\ UNCHANGED <<call, offset>>
        /\ Walks(query) /\ code # "ok"
      BY <1>5, <2>1 DEF Unresolvable
  <2>3. Unread
      BY <2>2 DEF PagesInv
  <2>4. Over'
      BY <2>2, <2>3, FailedOver DEF Unread
  <2> QED BY <2>2, <2>4 DEF PagesInv
<1>6. CASE WalkByScans
  <2>1. PICK frontier : Begin("frontier", frontier)
      BY <1>6 DEF WalkByScans
  <2>2. stage = "serving" /\ Walks(query) /\ UNCHANGED <<call, offset, got>>
      BY <1>6 DEF WalkByScans, Resolvable
  <2>3. Unread /\ call.limit \in Limits
      BY <2>2 DEF PagesInv
  <2> QED BY <2>1, <2>2, <2>3, BeginPages
<1>7. CASE WalkByIndex
  <2>1. Begin("index", {}) /\ stage = "serving" /\ Walks(query) /\ UNCHANGED <<call, offset, got>>
      BY <1>7 DEF WalkByIndex, Resolvable
  <2>2. Unread /\ call.limit \in Limits
      BY <2>1 DEF PagesInv
  <2> QED BY <2>1, <2>2, BeginPages
<1>8. CASE Step
    BY <1>8 DEF Step, PagesInv, Unread
<1>9. CASE TooDense
  <2>1. Begin("index", {}) /\ stage = "walking" /\ UNCHANGED <<call, offset, got>>
      BY <1>9 DEF TooDense
  <2>2. Unread /\ call.limit \in Limits
      BY <2>1 DEF PagesInv
  <2> QED BY <2>1, <2>2, BeginPages
<1>10. CASE Conclude
  <2>1. /\ stage = "walking" /\ stage' = "done" /\ page' = Reply(Answer(<<>>, 0)) /\ UNCHANGED <<call, offset>>
        /\ graph'.ended
      BY <1>10 DEF Conclude, Walked
  <2>2. page'.at = offset /\ offset = 0
      BY <2>1 DEF Reply, PagesInv, Unread
  <2>3. Over'
      BY <2>1, <2>2 DEF Over
  <2> QED BY <2>1, <2>2, <2>3 DEF PagesInv
<1>11. CASE BuildElsewhere
  <2>1. UNCHANGED <<artifact, disk, stage, call, query, offset, got, page, graph>>
      BY <1>11 DEF BuildElsewhere
  <2> QED BY <2>1, SamePages
<1>12. CASE PublishElsewhere
  <2>1. UNCHANGED <<artifact, disk, stage, call, query, offset, got, page, graph>>
      BY <1>12 DEF PublishElsewhere
  <2> QED BY <2>1, SamePages
<1>13. CASE Replace
  <2>1. /\ stage = "serving" /\ OfDisk(call)
        /\ UNCHANGED <<artifact, stage, call, query, offset, got, page>>
      BY <1>13 DEF Replace
  <2>2. Reader' = Reader /\ OfDisk(call)'
      BY <2>1 DEF Reader
  <2>3. Reading => Reading'
      BY <2>1, <2>2 DEF Reading
  <2> QED BY <2>1, <2>2, <2>3 DEF PagesInv, Unread
<1>14. CASE Finish
    BY <1>14 DEF Finish, PagesInv, Unread
<1>15. CASE UNCHANGED vars
  <2>1. UNCHANGED <<artifact, disk, stage, call, query, offset, got, page, graph>>
      BY <1>15 DEF vars
  <2> QED BY <2>1, SamePages
<1> QED BY <1>1, <1>2, <1>3, <1>4, <1>5, <1>6, <1>7, <1>8, <1>9, <1>10, <1>11, <1>12, <1>13, <1>14,
           <1>15 DEF Next

\* A walk that concludes is an answer.
LEMMA WalkingCloses ==
    ASSUME WalksInv, Conclude
    PROVE  graph'.ended
<1>1. stage = "walking" /\ graph' = Diagnose(Input, graph)
    BY DEF Conclude, Walked
<1>2. Legible(Input) /\ Ranged(query) /\ Walking(graph, Input, query)
    BY <1>1, InputLegible DEF WalksInv
<1>3. PICK root, k : Between(graph, Balls(Input, query, root), Input, query, root, k)
    BY <1>2 DEF Walking
<1>4. Setting(Balls(Input, query, root), Input, query, root)
    BY <1>2, BallsSetting
<1>5. PICK t : t = Diagnose(Input, graph)
    OBVIOUS
<1>6. t.ended
    BY <1>3, <1>4, <1>5, DiagnoseKeeps
<1> QED BY <1>1, <1>5, <1>6

\* The inductive invariant of a call's pages: those that have come reach up to a point
\* of one listing, and the last one ends it.
THEOREM PagesInvariant == Spec => []PagesInv
<1>1. Init => PagesInv
    BY InitPages
<1>2. WalksInv /\ PagesInv /\ [Next]_vars => PagesInv'
  <2> SUFFICES ASSUME WalksInv, PagesInv, [Next]_vars PROVE PagesInv'
      OBVIOUS
  <2>1. Known
      BY DEF WalksInv, Known
  <2>2. Conclude => graph'.ended
      BY WalkingCloses
  <2> QED BY <2>1, <2>2, NextPages
<1> QED BY <1>1, <1>2, WalksInvariant, PTL DEF Spec

\* A client that follows the continuations receives the listing: every page ends after
\* it started, what has come is a start of the undivided listing, and all of it when
\* the last page says so, whatever the limits are, whoever answers each page, and
\* whatever others do to the index, the durable cache and the file between two pages.
THEOREM ListingsExact == Spec => []ListingExact
<1>1. WalksInv /\ PagesInv => ListingExact
    BY PagesExact DEF WalksInv
<1> QED BY <1>1, WalksInvariant, PagesInvariant, PTL
=============================================================================
