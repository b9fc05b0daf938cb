------------------------------ MODULE Queries ------------------------------
(***************************************************************************)
(* What service.py makes of a query before any worker runs: the rules that *)
(* _normalize_dex_query checks for each operation, and what it rewrites.   *)
(* The patterns of names and descriptors are sets, and the rewriting of    *)
(* dotted names is a function, both constants: what a rule does with a     *)
(* text depends only on which of them it belongs to.                       *)
(***************************************************************************)
EXTENDS Query

CONSTANTS
    MemberNames,  \* exact member names
    MethodIds,    \* [full method descriptor -> its class]
    FieldIds,     \* [full field descriptor -> its class]
    TypeIds,      \* exact type descriptors
    Prototypes,   \* exact method prototypes
    Canonical,    \* [class name as given -> descriptor]; a blank one is not in it
    Slashed       \* [dotted text -> the same with slashes; a prefix, with its "L"]

Slash(text) == IF text \in DOMAIN Slashed THEN Slashed[text] ELSE text

ExactMethods ==
    {"get_method_source", "find_method_refs", "get_method_calls", "get_call_graph", "disassemble_method"}

Discoveries ==
    {"search_members", "search_strings", "search_classes", "search_method_bodies", "search_refs",
     "find_string_refs"}

OfExactClass ==
    {"get_class_outline", "get_class_hierarchy", "get_string_constants", "get_class_source_metadata"}

Named(q) == Given(q, "method_name") # None
Match(q) == Get(q, "member_match", "descriptor")
Relation(q) == Get(q, "type_relation", "all")

\* reference_page.operand_query and selected_query.
OperandQuery(q) == q.operation = "find_type_refs" /\ Relation(q) = "operand"
SelectedQuery(q) ==
    \/ q.operation \in {"find_method_refs", "find_field_refs", "get_method_calls", "search_refs",
                        "find_string_refs"}
    \/ OperandQuery(q)

-----------------------------------------------------------------------------

NamedMethod(q) == Named(q) =>
    /\ q.operation \in ExactMethods
    /\ q.method_name \in MemberNames
    /\ Some(q, "class_name") /\ ~On(q, "fuzzy_class")
    /\ Given(q, "method_descriptor") = None

MatchMode(q) ==
    /\ Match(q) \in {"descriptor", "name"}
                       \cup IF q.operation = "search_refs" THEN {"exact_name", "prototype"} ELSE {}
    /\ Match(q) # "descriptor" => q.operation \in {"search_members", "search_refs"}

SearchRefs(q) == q.operation = "search_refs" =>
    /\ Given(q, "kind") \in {"method", "field"}
    /\ SomeOf(q, {"value", "class_name"})
    /\ NoneOf(q, {"method_descriptor", "field_descriptor"})
    /\ q.kind = "field" => Match(q) # "prototype"

Target(q) == Given(q, "target_descriptor") # None =>
    /\ q.operation = "search_refs" \/ Named(q)
    /\ q.target_descriptor \in IF Named(q) \/ q.kind = "method" THEN Prototypes ELSE TypeIds

Case(q) == Get(q, "case_sensitive", TRUE) \/ q.operation \in Discoveries

ExactClass(q) == q.operation \in OfExactClass =>
    /\ Some(q, "class_name") /\ ~On(q, "fuzzy_class")
    /\ NoneOf(q, {"method_descriptor", "value"})

Literal(q) == q.operation \in {"search_classes", "search_method_bodies"} =>
    /\ Some(q, "value")
    /\ ~Some(q, "method_descriptor") /\ ~On(q, "fuzzy_class")

Graph(q) == q.operation = "get_call_graph" =>
    /\ Get(q, "depth", 2) \in 1..5
    /\ Get(q, "max_nodes", 200) \in 1..500
    /\ Get(q, "max_edges", 500) \in 1..1000
    /\ Get(q, "direction", "both") \in {"incoming", "outgoing", "both"}
    /\ Get(q, "offset", 0) = 0 /\ ~On(q, "fuzzy_class")

SearchStrings(q) == q.operation = "search_strings" =>
    /\ Some(q, "value")
    /\ NoneOf(q, {"class_name", "method_descriptor"}) /\ ~On(q, "fuzzy_class")

FindStrings(q) == q.operation = "find_string_refs" =>
    /\ Some(q, "value")
    /\ NoneOf(q, {"class_name", "method_descriptor", "field_descriptor", "type_descriptor", "prefix"})
    /\ ~On(q, "fuzzy_class")
    /\ Get(q, "kind", "string") = "string"

SearchMembers(q) == q.operation = "search_members" =>
    /\ Given(q, "kind") \in {"method", "field"}
    /\ ~Some(q, "method_descriptor") /\ ~On(q, "fuzzy_class")

\* A dotted class name asked for exactly is turned into a descriptor.
TypeText(q) ==
    LET text == q.type_descriptor  plain == Slash(text) IN
    IF ~OperandQuery(q) THEN text
    ELSE IF Get(q, "type_match", "exact") = "exact" /\ plain # text /\ plain \notin TypeIds
         THEN Canonical[text] ELSE plain

TypeRefs(q) ==
    /\ Get(q, "type_match", "exact") \in {"exact", "substring"}
    /\ Get(q, "type_match", "exact") = "substring" => OperandQuery(q)
    /\ Relation(q) \in {"all", "instruction", "declaration", "annotation", "operand"}
    /\ IF q.operation = "find_type_refs"
       THEN /\ Some(q, "type_descriptor")
            /\ Get(q, "type_match", "exact") = "exact" => TypeText(q) \in TypeIds
            /\ OperandQuery(q) => NoneOf(q, {"value", "prefix"})
            /\ NoneOf(q, {"method_descriptor", "class_name"}) /\ ~On(q, "fuzzy_class")
       ELSE ~Some(q, "type_descriptor") /\ Relation(q) = "all"

\* A class that is given beside a member must be the one the member names.
SameClass(q, owner) ==
    Some(q, "class_name") => q.class_name \in DOMAIN Canonical /\ Canonical[q.class_name] = owner

FieldRefs(q) ==
    /\ Get(q, "field_access", "all") \in {"all", "read", "write"}
    /\ IF q.operation = "find_field_refs"
       THEN /\ Given(q, "field_descriptor") \in DOMAIN FieldIds
            /\ SameClass(q, FieldIds[q.field_descriptor])
            /\ ~Some(q, "method_descriptor") /\ ~On(q, "fuzzy_class")
       ELSE /\ ~Some(q, "field_descriptor")
            /\ \/ Get(q, "field_access", "all") = "all"
               \/ q.operation = "search_refs" /\ Given(q, "kind") = "field"

ExactMethod(q) == q.operation \in ExactMethods /\ ~Named(q) =>
    /\ Given(q, "method_descriptor") \in DOMAIN MethodIds
    /\ SameClass(q, MethodIds[q.method_descriptor])

SourceFormat(q) ==
    /\ Get(q, "source_format", "auto") \in {"auto", "java", "smali"}
    /\ On(q, "debug_info") => q.operation = "get_method_source" /\ Given(q, "source_format") = "smali"

\* The last step turns a class name into a descriptor, but for a fuzzy one.
Renamed(q) ==
    /\ Some(q, "class_name")
    /\ q.operation \in {"get_class_source", "list_methods", "get_method_source"} \/ ~On(q, "fuzzy_class")

ClassName(q) == Renamed(q) => q.class_name \in DOMAIN Canonical

\* find_refs names a class as the value of a hierarchy search.
ReferenceValue(q) ==
    q.operation = "find_refs" /\ Given(q, "kind") \in {"extends", "impl"}
        /\ Given(q, "value") \notin {None, "--gui"} => q.value \in DOMAIN Canonical

\* _normalize_dex_query: the queries that it lets through.
Accepted(q) ==
    /\ NamedMethod(q) /\ MatchMode(q) /\ SearchRefs(q) /\ Target(q) /\ Case(q)
    /\ ExactClass(q) /\ Literal(q) /\ Graph(q) /\ SearchStrings(q) /\ FindStrings(q)
    /\ SearchMembers(q) /\ TypeRefs(q) /\ FieldRefs(q) /\ ExactMethod(q) /\ SourceFormat(q)
    /\ ReferenceValue(q) /\ ClassName(q)

-----------------------------------------------------------------------------

Prefix(q) ==
    IF q.operation = "search_classes" /\ Some(q, "prefix")
    THEN [q EXCEPT !.prefix = Slash(q.prefix)] ELSE q

Budgets(q) ==
    IF q.operation = "get_call_graph"
    THEN [depth |-> 2, max_nodes |-> 200, max_edges |-> 500, direction |-> "both"] \* setdefault
    ELSE [k \in {} |-> None]

Type(q) ==
    IF q.operation = "find_type_refs" THEN [q EXCEPT !.type_descriptor = TypeText(q)] ELSE q

\* The class that a query is about, as the workers get it.
Class(q) ==
    IF q.operation = "find_field_refs" THEN Set(q, "class_name", FieldIds[q.field_descriptor])
    ELSE IF q.operation \in ExactMethods /\ ~Named(q)
    THEN Set(q, "class_name", MethodIds[q.method_descriptor])
    ELSE IF q.operation = "search_refs" /\ Some(q, "class_name") /\ On(q, "fuzzy_class")
    THEN Set(q, "class_name", Slash(q.class_name))
    ELSE IF Renamed(q) THEN Set(q, "class_name", Canonical[q.class_name])
    ELSE q

Value(q) ==
    IF q.operation = "find_refs"
    THEN Set(q, "value", IF Given(q, "kind") \in {"extends", "impl"} /\ Given(q, "value") \notin {None, "--gui"}
                         THEN Canonical[q.value] ELSE Given(q, "value"))
    ELSE q

\* Mutant: the class of an exact member is not put into the query.
WithoutClass(q) ==
    LET r == Value(Type(Prefix(q)))  d == Budgets(r) IN
    [k \in DOMAIN r \cup DOMAIN d |-> IF k \in DOMAIN r THEN r[k] ELSE d[k]]

\* _normalize_dex_query: the query that is sent on.
Normal(q) ==
    LET r == Value(Class(Type(Prefix(q))))  d == Budgets(r) IN
    [k \in DOMAIN r \cup DOMAIN d |-> IF k \in DOMAIN r THEN r[k] ELSE d[k]]

InGroups(q) == Get(q, "reference_format", "flat") = "grouped"

\* query_dex_session: a grouped answer continues by a cursor, from offset 0.
FormatAccepted(q) ==
    /\ Get(q, "reference_format", "flat") \in {"flat", "grouped"}
    /\ Given(q, "cursor") # None => InGroups(q)
    /\ InGroups(q) => SelectedQuery(q) /\ Get(q, "offset", 0) = 0

SessionAccepted(q) ==
    LET plain == Without(q, {"reference_format", "cursor"}) IN
    Accepted(plain) /\ FormatAccepted(q)

SessionQuery(q) ==
    LET plain == Normal(Without(q, {"reference_format", "cursor"})) IN
    IF InGroups(q)
    THEN Set(Set(plain, "reference_format", "grouped"), "cursor", Given(q, "cursor"))
    ELSE plain

-----------------------------------------------------------------------------

\* diff_dex_sessions, secret_candidates and inspect_artifact.
ComparisonAccepted(q) ==
    q.kind \in {"all", "class", "method", "field"} /\ q.change \in {"all", "added", "removed"}

Patterns == {"all", "aws_access_key_id", "github_classic_token", "google_api_key",
             "private_key_marker", "credential_assignment", "jwt_like"}

SecretAccepted(q) == q.pattern \in Patterns /\ q.include_values \in BOOLEAN

InspectionAccepted(q) ==
    Some(q, "compare_to") => Given(q, "class_query") = None /\ Given(q, "class_prefix") = None

InspectionQuery(q) ==
    IF Some(q, "class_prefix") THEN [q EXCEPT !.class_prefix = Slash(q.class_prefix)] ELSE q

\* The CLI's operations: service.get_class_source and find_refs, runner.find_refs.
CliAccepted(q) ==
    CASE q.operation = "getclass" -> q.class_name \in DOMAIN Canonical
      [] q.operation = "findrefs" ->
            /\ q.kind \in {"method", "field"} /\ q.class_name # None /\ ~q.fuzzy_class
                    => q.class_name \in DOMAIN Canonical
            /\ q.kind \in {"extends", "impl"} => q.class_name = None /\ ~q.fuzzy_class
            /\ q.kind \in {"extends", "impl"} /\ Some(q, "value") => q.value \in DOMAIN Canonical
            /\ q.value # "--gui"
            /\ Some(q, "value") \/ (q.kind \in {"method", "field"} /\ Some(q, "class_name"))
      [] OTHER -> TRUE
=============================================================================
