------------------------------ MODULE Requests ------------------------------
(***************************************************************************)
(* One client's call of a tool, from its arguments to its last page:       *)
(* server.py and focused_tools.py turn the arguments into a query,         *)
(* service.py checks and rewrites it, a worker answers a page at a time,   *)
(* and the client follows the continuation that each page names.  While it *)
(* does, other clients of the session build an index, or fill the durable  *)
(* cache, and the file on disk is replaced.                                *)
(***************************************************************************)
EXTENDS Handlers, Archive, Tools

CONSTANTS
    Artifacts,   \* the inputs: records of DEX files, archives and printed lines
    Asks(_, _),  \* the calls made of an artifact, given the durable cache: records of a tool, an operation, arguments, a limit
    Durables(_)  \* the states of the durable cache at the start, for an artifact: "off", "empty", "stored"

\* A program is a list of instructions, none of which comes twice: a site names its
\* file, its method and its place, and the reader refuses a file that repeats one.
ASSUME ProgramAssumption ==
    \A a \in Artifacts :
        LET sites == Sites(a.dex.input) IN sites \in Seq(ToSet(sites)) /\ NoRepeats(sites)

\* What a reader takes from a DEX file, a source or an archive are lists.
Readable(class) ==
    /\ IsSequence(class.fields) /\ IsSequence(class.methods)
    /\ IsSequence(class.interfaces) /\ IsSequence(class.annotations)
    /\ \A i \in DOMAIN class.methods :
        /\ IsSequence(class.methods[i].catches)
        /\ class.methods[i].code # None => IsSequence(class.methods[i].code)

ReadableInput(input) ==
    /\ IsSequence(input)
    /\ \A i \in DOMAIN input :
        /\ IsSequence(input[i].strings) /\ IsSequence(input[i].classes)
        /\ \A j \in DOMAIN input[i].strings : IsSequence(Candidates[input[i].strings[j]])
        /\ \A j \in DOMAIN input[i].classes : Readable(input[i].classes[j])

\* The links of a source are in the order of the places where they start.
ReadableSource(source) ==
    /\ IsSequence(source.java) /\ IsSequence(source.smali)
    /\ source.lines \in Seq(Nat) /\ source.links \in Seq(Nat)
    /\ \A i, j \in DOMAIN source.links : i < j => source.links[i] <= source.links[j]

ReadableFile(file) ==
    /\ IsSequence(file.entries)
    /\ \A i \in DOMAIN file.entries :
        LET e == file.entries[i] IN
        /\ e.bytes # None => IsSequence(e.bytes)
        /\ e.xml # None => IsSequence(e.xml.lines) /\ IsSequence(e.xml.components)
        /\ e.inner # None => IsSequence(e.inner)

\* None is no number, and no class.
ASSUME DataAssumption ==
    /\ None \notin Nat
    /\ \A d \in DOMAIN Member : IsSequence(Member[d].types)
    /\ \A a \in Artifacts :
        /\ ReadableInput(a.dex.input) /\ ReadableInput(a.dex.other)
        /\ IsSequence(a.dex.found) /\ IsSequence(a.lines)
        /\ None \notin Owners(a.dex.input)
        /\ \A c \in Owners(a.dex.input) : ReadableSource(Source[c])
        /\ ReadableFile(a.file) /\ ReadableFile(a.newer) /\ ReadableFile(a.compared)

\* A declared member names its class and its kind.  Within a class, the order of full
\* descriptors is that of the names with their "(" and then of the prototypes; no two
\* members have one place in it.
NamedWell(class) ==
    /\ class.name \notin DOMAIN Member
    /\ \A d \in ToSet(class.fields) : d \in DOMAIN Member /\ Member[d].kind = "field"
    /\ \A d \in MethodsOf(class) : d \in DOMAIN Member /\ Member[d].kind = "method"
    /\ \A d \in ToSet(class.fields) \cup MethodsOf(class) : Member[d].owner = class.name
    /\ \A d, e \in MethodsOf(class) :
        Units[d] < Units[e] <=>
            Precedes(<<Opened[Member[d].name], Units[Member[d].proto]>>,
                     <<Opened[Member[e].name], Units[Member[e].proto]>>)

\* No two texts have one place in the order of texts.  An index is built of files that
\* declare each name once: definitions.name is UNIQUE.
ASSUME NameAssumption ==
    /\ \A t, u \in DOMAIN Units : Units[t] \in Nat /\ (Units[t] = Units[u] => t = u)
    /\ DOMAIN Member \subseteq DOMAIN Units
    /\ \A a \in Artifacts : Owners(a.dex.input) \subseteq DOMAIN Units
    /\ \A a \in Artifacts : \A i, j \in DOMAIN a.dex.input :
        LET one == a.dex.input[i].classes  other == a.dex.input[j].classes IN
        \A k \in DOMAIN one, n \in DOMAIN other :
            /\ NamedWell(one[k]) /\ ValidMembers(one[k])
            /\ one[k].name = other[n].name => i = j /\ k = n

Generics == {"asc_analyze_dex", "asc_query_dex_session"}

\* Only tools that the server has registered are called.
ASSUME ToolAssumption ==
    \A a \in Artifacts :
        /\ Durables(a) \subseteq {"off", "empty", "stored"}
        /\ \A stored \in Durables(a) \cup {"stored"} : \A c \in Asks(a, stored) :
            c # None /\ c.limit \in Nat \ {0} /\ c.tool \in Generics \cup DOMAIN FocusedTools \cup DOMAIN FileTools

VARIABLES
    artifact,  \* the input
    index,     \* the index files of the session: "none", "calls", "full"
    durable,   \* the durable cache
    disk,      \* which revision of the file is on disk: "old", "new"
    stage,     \* "idle", "asked", "serving", "walking", "done"
    call,      \* the call, or None
    query,     \* the query that the service has made of it, or None
    offset,    \* where the next page starts
    got,       \* the rows of the pages so far
    page,      \* the last answer, or None
    graph      \* the walk of a call graph

vars == <<artifact, index, durable, disk, stage, call, query, offset, got, page, graph>>
session == <<artifact, index, durable, disk>>

Stages == {"idle", "asked", "serving", "walking", "done"}

-----------------------------------------------------------------------------

\* The tool of a call: a focused one, one of files, or a generic one.
ToolOf(c) ==
    CASE c.tool = "asc_analyze_dex" -> AnalyzeDex(c.op)
      [] c.tool = "asc_query_dex_session" -> QuerySession(c.op)
      [] c.tool \in DOMAIN FocusedTools -> FocusedTools[c.tool]
      [] OTHER -> FileTools[c.tool]

\* sessions.query_artifact and compare add what the handle and the sessions know.
Completed(a, to, q) ==
    CASE to = "artifact" /\ q.operation = "artifact_inventory" ->
            IF a.file.kind = "dex" THEN Set(Set(q, "module_selection", a.selection), "operation", "list_entries")
            ELSE Set(Set(q, "module_selection", a.selection), "module", a.selection)
      [] to = "artifact" /\ q.operation # "artifact_inventory" -> Set(q, "module_selection", a.selection)
      [] to = "compare" -> Set(q, "other_prepared_root", TRUE)
      [] OTHER -> q

Sent(a, tool, given) == Completed(a, tool.to, Asked(tool, given))

\* apk_list_classes lists a package whose name has dots.
GivenTo(c) ==
    IF c.tool = "apk_list_classes" /\ Some(c.given, "prefix")
    THEN [c.given EXCEPT !.prefix = Slash(@)] ELSE c.given

SentBy(a, c) == Sent(a, ToolOf(c), GivenTo(c))

\* What the service lets through, and the query that it sends on.
Admitted(to, q) ==
    CASE to = "session" -> SessionAccepted(q)
      [] to = "one_shot" -> Accepted(q)
      [] to = "compare" -> ComparisonAccepted(q)
      [] to = "secret" -> SecretAccepted(q)
      [] to = "inspect" -> InspectionAccepted(q)
      [] to = "cli" -> CliAccepted(q)
      [] OTHER -> TRUE

Rewritten(to, q) ==
    CASE to = "session" -> SessionQuery(q)
      [] to = "one_shot" -> Normal(q)
      [] to = "inspect" -> InspectionQuery(q)
      [] OTHER -> q

\* A handle has a snapshot; the other tools read the file as it is on disk.
Inspected(a, to, revision) == IF to = "artifact" \/ revision = "old" THEN a.file ELSE a.newer

\* The pages of a worker: of prepared DEX files, of a file, or of printed lines.
Answered(a, to, q, at, limit, full, revision) ==
    CASE to \in {"session", "one_shot"} -> SessionAnswer(a.dex, q, at, limit, full)
      [] to \in {"compare", "secret"} -> DexAnswer(a.dex, q, at, Least(limit, PageSize), FALSE)
      [] to = "cli" -> LinePage(a.lines, at, Least(limit, PageSize))
      [] OTHER -> ArchiveAnswer(Inspected(a, to, revision), a.compared, q, at, Least(limit, PageSize))

\* A handle has a snapshot, and the tool's lines are cached: no other reader does.
OfDisk(c) == ToolOf(c).to \in {"archive", "inspect"}

Walks(q) == q.operation = "get_call_graph"

\* An answer, with where it starts and the revision that it was read from.
Reply(answer) ==
    [status |-> answer.status, items |-> answer.items, total |-> answer.total, next |-> answer.next,
     at |-> offset, revision |-> disk]

\* Both kinds of DEX calls use the durable cache; only a session keeps an index.
OfDex(c) == ToolOf(c).to \in {"session", "one_shot"}
Held == IF ToolOf(call).to = "session" THEN index ELSE "none"
Keeps(i) == index' = IF ToolOf(call).to = "session" THEN i ELSE index

\* The index that a query other than a walk may use: its own, or a restored one.
Restored(q) ==
    IF durable = "stored" /\ OfDex(call) /\ (Indexable(q) \/ NeedsIndex(q)) THEN "full" ELSE Held

-----------------------------------------------------------------------------

Init ==
    /\ artifact \in Artifacts
    /\ index = "none" /\ durable \in Durables(artifact) /\ disk = "old"
    /\ stage = "idle" /\ call = None /\ query = None
    /\ offset = 0 /\ got = <<>> /\ page = None /\ graph = NoGraph

\* A client calls a tool with arguments that its schema lets through.
Ask ==
    /\ stage = "idle"
    /\ \E c \in Asks(artifact, durable) :
        /\ Callable(ToolOf(c), c.given)
        /\ call' = c
    /\ stage' = "asked"
    /\ UNCHANGED <<session, query, offset, got, page, graph>>

\* The service refuses the arguments.
Refuse ==
    /\ stage = "asked"
    /\ ~Admitted(ToolOf(call).to, SentBy(artifact, call))
    /\ page' = Reply(Failure("invalid_query"))
    /\ stage' = "done"
    /\ UNCHANGED <<session, call, query, offset, got, graph>>

\* The service rewrites the query; the first page starts at the start.
Accept ==
    /\ stage = "asked"
    /\ Admitted(ToolOf(call).to, SentBy(artifact, call))
    /\ query' = Rewritten(ToolOf(call).to, SentBy(artifact, call))
    /\ stage' = "serving"
    /\ UNCHANGED <<session, call, offset, got, page, graph>>

Builds(q) == OfDex(call) /\ NeedsIndex(q)
Outdated == OfDisk(call) /\ offset > 0 /\ page.revision # disk

\* A worker answers a page.  A client that reads the file itself compares the
\* revisions that its pages name.  build_xref_index and find_type_refs leave a full
\* index behind, and publish it.
Serve ==
    /\ stage = "serving"
    /\ ~Walks(query)
    /\ \E has \in {IF Builds(query) THEN "full" ELSE Restored(query)} :
       \E answer \in {Answered(artifact, ToolOf(call).to, query, offset, call.limit, has = "full", disk)} :
        /\ page' = Reply([answer EXCEPT !.status = IF Outdated THEN "changed" ELSE @])
        /\ Keeps(has)
        /\ durable' = IF Builds(query) /\ durable = "empty" THEN "stored" ELSE durable
        /\ got' = IF page'.status = "ok" THEN got \o answer.items ELSE got
        /\ IF page'.status = "ok" /\ answer.next # None
           THEN offset' = answer.next /\ stage' = "serving"
           ELSE stage' = "done" /\ UNCHANGED offset
    /\ UNCHANGED <<artifact, disk, call, query, graph>>

-----------------------------------------------------------------------------
(* get_call_graph: query_index, then the walk; it holds the session's index lock. *)

Input == artifact.dex.input
Root == Selected(Input, query)

\* An index that is there, or a durable cache, is preferred to scans of frontiers.
ByFrontier == Held = "none" /\ durable = "off"

\* Without a full index, the calls alone are indexed.
Indexed == IF Held = "full" THEN "full" ELSE "calls"

Begin(source, frontier) ==
    IF Rooted(Input, Root.method_descriptor)
    THEN graph' = Start(Root.method_descriptor, source, frontier) /\ stage' = "walking" /\ UNCHANGED page
    ELSE page' = Reply(Failure("method_not_found")) /\ stage' = "done" /\ UNCHANGED graph

\* A name that does not resolve ends the call before any scan.
Unresolvable ==
    /\ stage = "serving" /\ Walks(query)
    /\ ~Answerable(query) \/ (Named(query) /\ Resolution(Input, query) # "ok")
    /\ page' = Reply(Failure(IF Answerable(query) THEN Resolution(Input, query) ELSE "key_error"))
    /\ stage' = "done"
    /\ UNCHANGED <<session, call, query, offset, got, graph>>

Resolvable ==
    /\ stage = "serving" /\ Walks(query)
    /\ Answerable(query) /\ (Named(query) => Resolution(Input, query) = "ok")

\* The first scan looks for the root alone, its callers whatever is asked.
WalkByScans ==
    /\ Resolvable /\ ByFrontier
    /\ LET frontier == Frontier(Input, NoGraph, <<Root.method_descriptor>>, query, TRUE) IN
        frontier # None /\ Begin("frontier", frontier)
    /\ UNCHANGED <<session, call, query, offset, got>>

\* The index is there, is restored or is built, and is published when it is built.
WalkByIndex ==
    /\ Resolvable
    /\ ByFrontier => Frontier(Input, NoGraph, <<Root.method_descriptor>>, query, TRUE) = None
    /\ Begin("index", {})
    /\ Keeps(Indexed)
    /\ UNCHANGED <<artifact, durable, disk, call, query, offset, got>>

\* One method leaves the queue.  A frontier that will not fit sends the whole query
\* to an index: nothing of the scans is kept.
NextFrontier == Frontier(Input, graph, Level(graph), query, FALSE)

Step ==
    /\ stage = "walking" /\ graph.queue # <<>> /\ ~graph.stopped
    /\ graph.source = "frontier" => NextFrontier # None
    /\ graph' = Expand(Input,
                       IF graph.source = "index" THEN graph ELSE [graph EXCEPT !.frontier = NextFrontier],
                       query)
    /\ UNCHANGED <<session, stage, call, query, offset, got, page>>

Walked == stage = "walking" /\ (graph.queue = <<>> \/ graph.stopped)

TooDense ==
    /\ stage = "walking" /\ graph.source = "frontier"
    /\ IF Walked THEN ~Diagnosable(Input, graph, query) ELSE NextFrontier = None
    /\ Begin("index", {})
    /\ Keeps(Indexed)
    /\ UNCHANGED <<artifact, durable, disk, call, query, offset, got>>

\* The sites without a target complete the answer.
Conclude ==
    /\ Walked
    /\ Diagnosable(Input, graph, query)
    /\ graph' = Diagnose(Input, graph)
    /\ page' = Reply(Answer(<<>>, 0))
    /\ stage' = "done"
    /\ UNCHANGED <<session, call, query, offset, got>>

-----------------------------------------------------------------------------
(* What happens between two pages. *)

\* Another client builds the full index of the session, or its calls alone; a full
\* one replaces them.  Both hold the index lock, as a walk does.
BuildElsewhere ==
    /\ stage = "serving" /\ index # "full"
    /\ \/ index' = "full" /\ durable' = IF durable = "empty" THEN "stored" ELSE durable
       \/ index = "none" /\ index' = "calls" /\ UNCHANGED durable
    /\ UNCHANGED <<artifact, disk, stage, call, query, offset, got, page, graph>>

\* Another session publishes an index of the same files.
PublishElsewhere ==
    /\ stage = "serving" /\ durable = "empty"
    /\ durable' = "stored"
    /\ UNCHANGED <<artifact, index, disk, stage, call, query, offset, got, page, graph>>

\* The file on disk is replaced.
Replace ==
    /\ stage = "serving" /\ OfDisk(call) /\ disk = "old"
    /\ disk' = "new"
    /\ UNCHANGED <<artifact, index, durable, stage, call, query, offset, got, page, graph>>

\* The client has its answer.
Finish ==
    /\ stage = "done"
    /\ stage' = "idle"
    /\ call' = None /\ query' = None /\ offset' = 0 /\ got' = <<>> /\ page' = None /\ graph' = NoGraph
    /\ UNCHANGED session

Next ==
    \/ Ask \/ Refuse \/ Accept \/ Serve
    \/ Unresolvable \/ WalkByScans \/ WalkByIndex \/ Step \/ TooDense \/ Conclude
    \/ BuildElsewhere \/ PublishElsewhere \/ Replace \/ Finish

Spec == Init /\ [][Next]_vars

-----------------------------------------------------------------------------

\* The rows of a page that nothing cuts: it is as long as the listing, and is spooled.
Entire(Page(_)) == Page(Page(1).total + SpoolFrom).items

\* The listing that a call pages through, undivided, from a scan.
Plain(q) == Without(q, {"reference_format", "cursor"})

WholeOfDex(dex, q) ==
    CASE q.operation = "find_refs" -> dex.found
      [] q.operation = "get_class_source" -> Source[q.class_name].java
      [] q.operation = "get_method_source" -> Source[q.class_name].smali
      [] OTHER -> Entire(LAMBDA n : Routed(dex, q, 0, n, FALSE))

WholeOf(a, to, q, revision) ==
    CASE to = "cli" -> a.lines
      [] to \in {"artifact", "archive", "inspect"} ->
            Entire(LAMBDA n : ArchiveAnswer(Inspected(a, to, revision), a.compared, q, 0, n))
      [] OTHER -> WholeOfDex(a.dex, Selected(a.dex.input, Plain(q)))

Undivided == WholeOf(artifact, ToolOf(call).to, query, page.revision)

\* So far its first rows have come, in the end all of them.
Received(rows) ==
    /\ got = First(rows, Len(got))
    /\ stage = "done" => got = rows

\* Calls that mean the same: a focused tool is the generic one with its defaults,
\* and a class may be named in any way that the service accepts.
Generic(c) ==
    LET tool == ToolOf(c) IN
    IF c.tool \notin DOMAIN FocusedTools THEN c
    ELSE [c EXCEPT !.tool = "asc_query_dex_session", !.op = tool.op, !.given = Joined(GivenTo(c), tool.sends)]

Spelled(c) ==
    IF /\ Given(c.given, "class_name") \in DOMAIN Canonical
       /\ ~On(c.given, "fuzzy_class")
       /\ OfDex(c)
    THEN [c EXCEPT !.given = [@ EXCEPT !.class_name = Canonical[@]]] ELSE c

\* What becomes of a call without an index: its first page, or what a walk is about.
OutcomeOf(c, to, sent) ==
    LET q == Rewritten(to, sent) IN
    IF ~Admitted(to, sent) THEN Failure("invalid_query")
    ELSE IF ~Walks(q) THEN Answered(artifact, to, q, 0, c.limit, FALSE, page.revision)
    ELSE IF ~Answerable(q) THEN Failure("key_error")
    ELSE IF Named(q) /\ Resolution(Input, q) # "ok" THEN Failure(Resolution(Input, q))
    ELSE [k \in {"method_descriptor", "direction", "depth", "max_nodes", "max_edges"} |-> Selected(Input, q)[k]]

Outcome(c) == OutcomeOf(c, ToolOf(c).to, SentBy(artifact, c))

\* They agree, and agree with the page that was answered.
Agreed(outcomes) ==
    /\ Cardinality(outcomes) = 1
    /\ query # None /\ ~Walks(query) =>
        outcomes = {[status |-> page.status, items |-> page.items, total |-> page.total, next |-> page.next]}

\* The methods within a distance of the root, and the sites at a method.
Incident(m) == {s \in ToSet(Calls(Input)) : \E c \in ToSet(Columns(query.direction)) : End(s, c) = m}

Neighbours(m) ==
    UNION {{Other(s, c) : s \in {t \in ToSet(Calls(Input)) : End(t, c) = m}} :
            c \in ToSet(Columns(query.direction))}

Reach(root, depth) ==
    LET near[k \in 0..depth] ==
            IF k = 0 THEN {root} ELSE near[k - 1] \cup UNION {Neighbours(m) : m \in near[k - 1]}
    IN  near

-----------------------------------------------------------------------------

\* The state of a call has its shape: what is served has a query that names its
\* operation, and a walk holds every method once (call_graph.py keeps them in a dict
\* and a deque).
TypeOK ==
    /\ artifact \in Artifacts
    /\ index \in {"none", "calls", "full"} /\ durable \in {"off", "empty", "stored"}
    /\ disk \in {"old", "new"} /\ stage \in Stages
    /\ call = None <=> stage = "idle"
    /\ stage \in {"serving", "walking"} => "operation" \in DOMAIN query
    /\ graph.reasons \subseteq {"depth", "max_nodes", "max_edges", "output_bytes"}
    /\ NoRepeats(graph.queue) /\ ToSet(graph.queue) \subseteq Found(graph)
    /\ Cardinality(Found(graph)) = Len(graph.nodes)

\* A caller who follows the continuations gets every row of the listing once and in
\* order, whatever page the tool or the response cuts it into, and although an index
\* that appears between two pages answers the later ones: reference_page, page_result,
\* grouped_references and query_index agree on what an offset counts.
ListingExact ==
    /\ offset \in Nat /\ (page # None => page.at \in 0..offset)
    /\ page # None /\ ~graph.ended =>
        /\ page.status = "ok" => Received(Undivided)
        /\ stage = "serving" => offset > page.at
        /\ stage = "done" /\ page.at > 0 /\ SelectedQuery(Plain(query)) => page.status = "ok"

\* What the service accepts the workers can answer: every operation has a handler, no
\* key that a handler reads is missing, the class of an exact member is there; and
\* tools that mean the same get the same first page, with and without an index.
RequestsServed ==
    page # None /\ page.at = 0 =>
        /\ page.status \notin {"key_error", "unknown_operation"}
        /\ page.status = "class_name_required" => query.operation = "get_class_source"
        /\ Agreed({Outcome(c) : c \in {call, Generic(call), Spelled(call)}})

\* A call graph says what it left out: one that names no reason is closed, one that is
\* complete within its depth holds exactly the sites of the methods nearer than that,
\* a method that is called expanded has all its sites, distances are shortest, and
\* budgets are kept, although scans keep one site more than the budget and no more.
GraphTruthful ==
    graph.ended =>
        LET near == Reach(graph.nodes[1].name, query.depth)
            taken == ToSet(graph.edges)
        IN  /\ \A i \in DOMAIN graph.nodes :
                LET n == graph.nodes[i] IN
                /\ n.name \in near[n.depth] /\ (n.depth > 0 => n.name \notin near[n.depth - 1])
                /\ n.status = "expanded" => Incident(n.name) \subseteq taken
                /\ n.status = "not_expanded" => ~Complete(graph)
            /\ NoRepeats(graph.edges)
            /\ \A s \in taken : {s.caller, s.arg} \subseteq Found(graph)
            /\ Len(graph.nodes) <= query.max_nodes /\ Len(graph.edges) <= query.max_edges
            /\ Used(graph) <= GraphRoom
            /\ Complete(graph) =>
                /\ Found(graph) = near[query.depth]
                /\ taken = UNION {Incident(m) : m \in near[query.depth - 1]}
            /\ graph.reasons = {} => \A m \in Found(graph) : Incident(m) \subseteq taken
=============================================================================
