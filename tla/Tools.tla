------------------------------- MODULE Tools -------------------------------
(***************************************************************************)
(* The tools of the server (server.py, focused_tools.py): what a caller    *)
(* may give, what a tool adds, and the query that the service receives.    *)
(* A query is a function whose domain holds the keys that are present: a   *)
(* handler that reads an absent one fails.  Only arguments that decide     *)
(* something are kept, under the names they have in the query.  The limit  *)
(* of a page is left to the client of the composition.                     *)
(***************************************************************************)
EXTENDS Query

\* Part of the signature of a tool: the part of the service it calls, the
\* operation, the keys a caller may or must give, and the other keys it sends.
Tool(to, op, needs, takes, sends) ==
    [to |-> to, op |-> op, needs |-> needs, takes |-> needs \cup takes, sends |-> sends]

Nothing == [k \in {} |-> None]
Absent(keys) == [k \in keys |-> None]

-----------------------------------------------------------------------------

Operations ==
    {"info", "list_classes", "get_class_source", "find_refs", "get_manifest", "list_methods",
     "get_method_source", "find_method_refs", "get_method_calls", "get_call_graph",
     "find_field_refs", "find_string_refs", "search_refs", "find_type_refs", "build_xref_index",
     "search_members", "search_strings", "search_classes", "get_class_outline",
     "get_class_hierarchy", "get_string_constants", "search_method_bodies", "disassemble_method",
     "get_class_source_metadata"}

\* What asc_analyze_dex and asc_query_dex_session send whatever is asked.
Defaults ==
    Joined(Absent({"prefix", "class_name", "method_descriptor", "method_name", "field_descriptor",
                   "type_descriptor", "value", "target_descriptor"}),
           [field_access |-> "all", type_relation |-> "all", type_match |-> "exact",
            source_format |-> "auto", debug_info |-> FALSE, kind |-> "string",
            case_sensitive |-> TRUE, member_match |-> "descriptor", fuzzy_class |-> FALSE,
            offset |-> 0, direction |-> "both", depth |-> 2, max_nodes |-> 200, max_edges |-> 500])

AnalyzeDex(op) == Tool("one_shot", op, {}, DOMAIN Defaults, Defaults)

Formats == [reference_format |-> "flat", cursor |-> None]

QuerySession(op) ==
    Tool("session", op, {}, DOMAIN Defaults \cup DOMAIN Formats, Joined(Defaults, Formats))

-----------------------------------------------------------------------------

\* focused_tools.run: what every focused tool sends.
Focused(op, needs, takes, sends) ==
    Tool("session", op, needs, takes \cup {"offset"},
         Joined(Joined(sends, Absent(takes \ DOMAIN sends)), [offset |-> 0]))

Unpaged(op) == [Focused(op, {}, {}, Nothing) EXCEPT !.takes = {}]

Exact == {"class_name", "method_name", "target_descriptor", "method_descriptor"}

\* Lists and sources of classes; "query" turns apk_list_classes into a search.
ClassTools ==
    [apk_get_dex_info     |-> Unpaged("info"),
     apk_list_classes     |-> Focused("list_classes", {}, {"prefix"}, Nothing),
     apk_list_classes_query |->
        Focused("search_classes", {"value"}, {"prefix", "case_sensitive"}, [case_sensitive |-> FALSE]),
     apk_get_class_source |-> Focused("get_class_source", {"class_name"}, {}, Nothing),
     apk_find_references  |-> Focused("find_refs", {"value"}, {"kind", "class_name", "fuzzy_class"},
                                      [kind |-> "string", fuzzy_class |-> FALSE]),
     apk_get_dex_manifest |-> Focused("get_manifest", {}, {}, Nothing),
     apk_list_methods     |-> Focused("list_methods", {"class_name"}, {}, Nothing)]

MethodTools ==
    [apk_get_method_source |-> Focused("get_method_source", {}, Exact \cup {"source_format", "debug_info"},
                                       [source_format |-> "auto", debug_info |-> FALSE]),
     apk_find_method_references |-> Focused("find_method_refs", {}, Exact \cup DOMAIN Formats, Formats),
     apk_get_method_calls  |-> Focused("get_method_calls", {}, Exact \cup DOMAIN Formats, Formats),
     apk_get_call_graph    |->
        [Focused("get_call_graph", {}, Exact \cup {"direction", "depth", "max_nodes", "max_edges"},
                 [direction |-> "both", depth |-> 2, max_nodes |-> 200, max_edges |-> 500])
            EXCEPT !.takes = @ \ {"offset"}]]

ReferenceTools ==
    [apk_find_field_references |->
        Focused("find_field_refs", {"field_descriptor"}, {"field_access"} \cup DOMAIN Formats,
                Joined(Formats, [field_access |-> "all"])),
     apk_find_string_references |->
        Focused("find_string_refs", {"value"}, {"case_sensitive"} \cup DOMAIN Formats,
                Joined(Formats, [case_sensitive |-> TRUE])),
     apk_search_references |->
        Focused("search_refs", {"kind"},
                {"value", "class_name", "fuzzy_class", "member_match", "target_descriptor",
                 "case_sensitive", "field_access"} \cup DOMAIN Formats,
                Joined(Formats, [fuzzy_class |-> FALSE, member_match |-> "descriptor",
                                 case_sensitive |-> TRUE, field_access |-> "all"])),
     apk_find_type_references |->
        Focused("find_type_refs", {"type_descriptor"}, {"type_relation"}, [type_relation |-> "all"]),
     apk_find_type_instructions |->
        Focused("find_type_refs", {"type_descriptor"}, {"type_match"} \cup DOMAIN Formats,
                Joined(Formats, [type_relation |-> "operand", type_match |-> "substring"])),
     apk_build_xref_index |-> Unpaged("build_xref_index")]

SearchTools ==
    [apk_search_members |->
        Focused("search_members", {"kind", "value"}, {"class_name", "member_match", "case_sensitive"},
                [member_match |-> "name", case_sensitive |-> FALSE]),
     apk_search_strings |-> Focused("search_strings", {"value"}, {"case_sensitive"}, [case_sensitive |-> FALSE]),
     apk_get_class_outline |-> Focused("get_class_outline", {"class_name"}, {}, Nothing),
     apk_get_class_hierarchy |-> Focused("get_class_hierarchy", {"class_name"}, {}, Nothing),
     apk_get_string_constants |-> Focused("get_string_constants", {"class_name"}, {}, Nothing),
     apk_search_method_bodies |->
        Focused("search_method_bodies", {"value"}, {"class_name", "case_sensitive"}, [case_sensitive |-> FALSE]),
     apk_disassemble_method |-> Focused("disassemble_method", {}, Exact, Nothing),
     apk_get_class_source_metadata |-> Focused("get_class_source_metadata", {"class_name"}, {}, Nothing)]

FocusedTools ==
    Joined(Joined(ClassTools, MethodTools), Joined(ReferenceTools, SearchTools))

-----------------------------------------------------------------------------

\* The tools of files: answered from an archive, by the CLI, or by a review.
FromStart == [offset |-> 0]
ContentArguments == [byte_offset |-> 0, decode_xml |-> TRUE]

InspectionTools ==
    [asc_signing_inventory |-> Tool("archive", "signing_inventory", {}, {}, Nothing),
     asc_inspect_artifact |->
        Tool("inspect", "artifact_inventory", {},
             {"module", "offset", "compare_to", "class_query", "class_prefix", "include_summary"},
             Joined(Absent({"module", "compare_to", "class_query", "class_prefix"}),
                    [offset |-> 0, include_summary |-> FALSE]))]

EntryTools ==
    [asc_list_apk_entries |->
        Tool("archive", "list_entries", {}, {"kind", "prefix", "offset"}, Joined(FromStart, Absent({"kind", "prefix"}))),
     asc_read_apk_entry |->
        Tool("archive", "read_entry", {"entry_path"}, DOMAIN ContentArguments, ContentArguments),
     asc_manifest_summary |-> Tool("archive", "manifest_summary", {}, {"offset"}, FromStart)]

ReviewTools ==
    [asc_diff_dex_sessions |->
        Tool("compare", "revision_diff", {}, {"kind", "change", "offset"},
             [offset |-> 0, kind |-> "all", change |-> "all"]),
     asc_secret_candidates |->
        Tool("secret", "secret_candidates", {}, {"pattern", "include_values", "offset"},
             [offset |-> 0, pattern |-> "all", include_values |-> FALSE])]

CliTools ==
    [asc_get_manifest |-> Tool("cli", "getmanifest", {}, {"offset"}, FromStart),
     asc_list_classes |-> Tool("cli", "listclass", {}, {"prefix", "offset"}, Joined(FromStart, Absent({"prefix"}))),
     asc_get_class_source |-> Tool("cli", "getclass", {"class_name"}, {"offset"}, FromStart),
     asc_find_refs |->
        Tool("cli", "findrefs", {"kind"}, {"value", "class_name", "fuzzy_class", "offset"},
             Joined(Absent({"value", "class_name"}), [offset |-> 0, fuzzy_class |-> FALSE]))]

\* The same, of a handle that load_artifact has returned.
ArtifactTools ==
    [apk_get_summary |->
        Tool("artifact", "artifact_inventory", {}, {"offset"}, [offset |-> 0, include_summary |-> TRUE]),
     apk_get_manifest |->
        Tool("artifact", "manifest_summary", {}, {"module", "offset"}, Joined(FromStart, Absent({"module"}))),
     apk_get_manifest_xml |->
        Tool("artifact", "manifest_xml", {}, {"module", "offset"}, Joined(FromStart, Absent({"module"}))),
     apk_list_entries |->
        Tool("artifact", "list_entries", {}, {"kind", "prefix", "offset"}, Joined(FromStart, Absent({"kind", "prefix"}))),
     apk_get_resource_content |->
        Tool("artifact", "read_entry", {"entry_path"}, DOMAIN ContentArguments, ContentArguments),
     apk_get_signing_info |-> Tool("artifact", "signing_inventory", {}, {}, Nothing)]

FileTools ==
    Joined(Joined(InspectionTools, EntryTools), Joined(ReviewTools, Joined(CliTools, ArtifactTools)))

\* The query that the service receives.
Asked(tool, given) == Joined(Joined(given, tool.sends), [operation |-> tool.op])

\* The arguments a schema lets through.
Callable(tool, given) ==
    tool.needs \subseteq DOMAIN given /\ DOMAIN given \subseteq tool.takes
=============================================================================
