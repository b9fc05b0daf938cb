------------------------------ MODULE Handlers ------------------------------
(***************************************************************************)
(* How a worker answers a query (dex_worker.py from query_prepared on,     *)
(* xref_index.query_index, native_structure.resolve_method): which handler *)
(* serves an operation, from a scan or from an index, the keys it relies   *)
(* on, and the page it sends back.  Class and method sources and the       *)
(* search of the droidasc tool are lines that the tool prints.             *)
(***************************************************************************)
EXTENDS Listings, CallGraph, Queries

ReferenceOps ==
    {"find_method_refs", "get_method_calls", "find_field_refs", "search_refs", "find_string_refs"}
DiscoveryOps == {"search_members", "search_strings", "search_classes"}
StructureOps ==
    {"get_class_outline", "get_class_hierarchy", "get_string_constants", "search_method_bodies",
     "disassemble_method"}
IndexOps == {"build_xref_index", "find_type_refs", "get_call_graph"}
OwnerOps == {"get_class_source_metadata", "get_method_source", "list_classes", "get_class_source"}

\* The keys that the handler of a query subscripts; a missing one is a KeyError.
Subscripted(q) ==
    (IF Named(q) THEN {"class_name"} ELSE {})
    \cup CASE q.operation = "find_type_refs" -> {"type_descriptor"}
           [] q.operation = "find_string_refs" -> {"value"}
           [] q.operation = "search_members" -> {"kind"}
           [] q.operation = "get_class_source" -> {"class_name"}
           [] q.operation = "get_call_graph" -> {"direction", "depth", "max_nodes", "max_edges"}
           [] q.operation = "find_refs" -> {"kind", "value", "class_name", "fuzzy_class"}
           [] q.operation = "revision_diff" -> {"kind", "change", "other_prepared_root"}
           [] q.operation = "secret_candidates" -> {"pattern"}
           [] OTHER -> {}

\* Those of an exact method or field, which a method name may stand for.
SubscriptedMember(q) ==
    CASE q.operation \in {"find_method_refs", "get_method_calls", "get_call_graph"} -> {"method_descriptor"}
      [] q.operation = "get_method_source" /\ Get(q, "source_format", "auto") # "java" ->
            {"method_descriptor"}
      [] q.operation = "find_field_refs" -> {"field_descriptor"}
      [] OTHER -> {}

\* Every key is there, and the one of a member is not None.
Answerable(q) ==
    /\ Subscripted(q) \subseteq DOMAIN q
    /\ \A k \in SubscriptedMember(q) : Named(q) \/ Some(q, k)

\* resolve_method: a method of a class, by its name and perhaps its prototype.
MethodsNamed(input, q) ==
    {d \in MethodsOf(ClassNamed(input, q.class_name)) :
        /\ Member[d].name = q.method_name
        /\ Given(q, "target_descriptor") # None => Member[d].proto = q.target_descriptor}

Resolution(input, q) ==
    IF q.class_name \notin Owners(input) THEN "class_not_found"
    ELSE CASE Cardinality(MethodsNamed(input, q)) = 0 -> "method_not_found"
           [] Cardinality(MethodsNamed(input, q)) > 1 -> "ambiguous_method"
           [] OTHER -> "ok"

\* The query that the handlers get: with the method that a name stands for.
Selected(input, q) ==
    IF Named(q) THEN Set(q, "method_descriptor", CHOOSE d \in MethodsNamed(input, q) : TRUE) ELSE q

\* The operations that an index that is there already answers.
Indexable(q) ==
    \/ q.operation \in {"find_method_refs", "get_method_calls", "find_field_refs"}
    \/ /\ q.operation = "search_members"
       /\ Get(q, "case_sensitive", TRUE)
       /\ Get(q, "member_match", "descriptor") = "descriptor"

\* Those that need a full index, and build one; get_call_graph is walked apart.
NeedsIndex(q) == q.operation \in {"build_xref_index", "find_type_refs"} /\ ~OperandQuery(q)

-----------------------------------------------------------------------------

MethodSource(input, q, offset, limit) ==
    IF ~Some(q, "class_name") THEN Failure("class_name_required")
    ELSE IF q.class_name \notin Owners(input) THEN Failure("class_not_found")
    ELSE IF Get(q, "source_format", "auto") = "java" THEN Failure("backend_unavailable")
    ELSE IF ~Declared(input, q.method_descriptor) THEN Failure("method_not_found")
    ELSE LinePage(Source[q.class_name].smali, offset, limit)

OfOwner(input, q, offset, limit) ==
    IF q.operation = "list_classes" THEN PageResult(ClassPage(input, q, offset, limit), offset, limit)
    ELSE IF q.operation = "get_method_source" THEN MethodSource(input, q, offset, limit)
    ELSE IF q.operation = "get_class_source" /\ ~Some(q, "class_name") THEN Failure("class_name_required")
    ELSE IF Given(q, "class_name") \notin Owners(input) THEN Failure("class_not_found")
    ELSE IF q.operation = "get_class_source" THEN LinePage(Source[q.class_name].java, offset, limit)
    ELSE SourceMetadata(q, offset, limit)

\* _query_prepared: the first handler that is responsible, in the order of the code.
Routed(dex, q, offset, limit, full) ==
    LET input == dex.input
        paged(answer) == PageResult(answer, offset, limit)
    IN  IF OperandQuery(q) THEN paged(TypeOperands(input, q, offset, limit))
        ELSE IF q.operation = "find_string_refs" THEN paged(Strings(input, q, offset, limit))
        ELSE IF (full /\ Indexable(q)) \/ (NeedsIndex(q) /\ q.operation = "find_type_refs")
        THEN ByIndex(input, q, offset, limit)
        ELSE CASE q.operation \in ReferenceOps -> paged(References(input, q, offset, limit))
          [] q.operation \in DiscoveryOps -> paged(Discovery(input, q, offset, limit))
          [] q.operation \in StructureOps \cup {"list_methods"} -> paged(Structure(input, q, offset, limit))
          [] q.operation = "revision_diff" -> paged(Difference(input, dex.other, q, offset, limit))
          [] q.operation = "secret_candidates" -> paged(Secrets(input, q, offset, limit))
          [] q.operation \in OwnerOps -> OfOwner(input, q, offset, limit)
          [] q.operation \in {"build_xref_index", "info"} -> Answer(<<>>, 0)
          [] q.operation = "get_manifest" -> Failure("no_manifest")
          [] q.operation = "find_refs" -> LinePage(dex.found, offset, limit)
          [] OTHER -> Failure("unknown_operation")

\* query_prepared and main: a reference page is cut to the response, any other page
\* that exceeds it is refused.
Fitted(q, answer, offset) ==
    IF SelectedQuery(q) THEN ReferencePage(answer, offset)
    ELSE IF Len(answer.items) > Room THEN Failure("response_limit")
    ELSE answer

DexAnswer(dex, q, offset, limit, full) ==
    IF ~Answerable(q) THEN Failure("key_error")
    ELSE IF Named(q) /\ Resolution(dex.input, q) # "ok" THEN Failure(Resolution(dex.input, q))
    ELSE Fitted(q, Routed(dex, Selected(dex.input, q), offset, limit, full), offset)

\* grouped_references: the next chunk of a page that holds some rows; the answer,
\* once the page is full, the listing ends or the chunk fails.
NextChunk(dex, q, page, limit, full) ==
    LET ends(chunk, taken, end) ==
            IF taken = <<>> /\ end < chunk.total THEN Failure("response_limit")
            ELSE [status |-> "ok", items |-> taken, total |-> chunk.total,
                  next |-> IF end < chunk.total THEN end ELSE None]
        extend(chunk, taken, end) ==
            IF end < chunk.total /\ end = page.position + Len(chunk.items)
            THEN [page EXCEPT !.position = end, !.held = taken]
            ELSE [page EXCEPT !.answer = ends(chunk, taken, end), !.ended = TRUE]
        collect(chunk, taken) == extend(chunk, taken, page.position + Len(taken) - Len(page.held))
        read(chunk) ==
            IF chunk.status # "ok" THEN [page EXCEPT !.answer = chunk, !.ended = TRUE]
            ELSE collect(chunk, Collect(page.held, chunk.items, limit))
    IN  read(DexAnswer(dex, q, page.position, PageSize, full))

\* Chunks of reference pages until a page of groups is full; it holds Room rows at
\* most, and each chunk but the last adds one.
GroupedPage(dex, q, offset, limit, full) ==
    LET start == [position |-> offset, held |-> <<>>, answer |-> None, ended |-> FALSE]
        read(page) == IF page.ended THEN page ELSE NextChunk(dex, q, page, limit, full)
        page[n \in 0..(Room + 1)] == IF n = 0 THEN start ELSE read(page[n - 1])
    IN  page[Room + 1].answer

\* The page that a session answers with.
SessionAnswer(dex, q, offset, limit, full) ==
    LET plain == Without(q, {"reference_format", "cursor"})
        most == Least(limit, PageSize)
    IN  IF InGroups(q) THEN GroupedPage(dex, plain, offset, most, full)
        ELSE DexAnswer(dex, plain, offset, most, full)
=============================================================================
