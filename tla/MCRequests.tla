----------------------------- MODULE MCRequests -----------------------------
(* Instances of Requests: one small program, a program with a cycle of calls,
   and files of each kind, with the calls that tell their handlers apart. *)
EXTENDS Requests

Rank(texts) == [t \in ToSet(texts) |-> CHOOSE i \in DOMAIN texts : texts[i] = t]

A == "La;"   B == "Lq/Z;"   X == "Lx;"
A0 == "La;->a()V"   A1 == "La;->a(I)V"   AD == "La;->a$()V"   AF == "La;->f:I"
BB == "Lq/Z;->b()V"  B2 == "Lq/Z;->b2()V"  XX == "Lx;->x()V"

M(kind, owner, name, proto, types) ==
    [kind |-> kind, owner |-> owner, name |-> name, proto |-> proto, types |-> types]

Members ==
    (A0 :> M("method", A, "a", "()V", <<"V">>)) @@ (A1 :> M("method", A, "a", "(I)V", <<"V", "I">>))
    @@ (AD :> M("method", A, "a$", "()V", <<"V">>)) @@ (AF :> M("field", A, "f", "I", <<"I">>))
    @@ (BB :> M("method", B, "b", "()V", <<"V">>)) @@ (B2 :> M("method", B, "b2", "()V", <<"V">>)) @@ (XX :> M("method", X, "x", "()V", <<"V">>))

\* "$" comes before "(", so a$() before a() as descriptors and as opened names.
UnitsOf == Rank(<<"()V", "(I)V", "I", A, AD, A0, A1, AF, B, BB, B2, X, XX, "V", "a", "a$", "b", "b2",
                  "base/d", "base/m", "c1", "c2", "f", "feat/m", "j", "m", "n.txt", "n2.txt", "r", "s", "t", "x">>)
OpenedOf == Rank(<<"a$", "a", "b", "b2", "x">>)

WithinOf ==
    {<<t, t>> : t \in DOMAIN UnitsOf} \cup {<<"a", t>> : t \in {"a$", A, A0, A1, AD, AF}}
    \cup {<<"L", t>> : t \in {A, B, X, A0, A1, AD, AF, BB, XX}}
StartsOf == {<<"La", A>>, <<"Lq", B>>, <<"Lq/", B>>, <<"base", "base/d">>, <<"base", "base/m">>}
LowerOf == "S" :> "s"

I(op, arg) == [op |-> op, arg |-> arg]
Method(id, code) == [id |-> id, code |-> code, catches |-> <<>>]

ClassA ==
    [name |-> A, super |-> B, interfaces |-> <<X>>, annotations |-> <<X>>, fields |-> <<AF>>,
     methods |-> <<Method(A1, <<I("invoke", XX), I("write", AF)>>),
                   Method(A0, <<I("invoke", XX), I("string", "s"), I("read", AF), I("type", B)>>),
                   Method(AD, <<I("invoke", XX), I("invoke", A0), I("string", "S"), I("read", AF)>>)>>]
ClassB ==
    [name |-> B, super |-> X, interfaces |-> <<>>, annotations |-> <<>>, fields |-> <<>>,
     methods |-> <<Method(BB, <<I("invoke", A0), I("polymorphic", XX), I("custom", "s"), I("type", B)>>)>>]

Small == <<[entry |-> "c1", strings |-> <<"S", "s", "t">>, classes |-> <<ClassA>>],
           [entry |-> "c2", strings |-> <<"s">>, classes |-> <<ClassB>>]>>

\* Calls in a circle, a call of itself, two calls of one method, a dense caller.
Cyclic ==
    <<[entry |-> "c1", strings |-> <<>>, classes |->
        <<[ClassA EXCEPT !.methods =
            <<Method(A0, <<I("invoke", A1), I("invoke", A1), I("invoke", A0)>>),
              Method(A1, <<I("invoke", BB), I("custom", "s")>>), Method(AD, None)>>],
          [ClassB EXCEPT !.methods =
            <<Method(BB, <<I("invoke", A0), I("invoke", XX), I("invoke", AD)>>)>>]>>]>>

\* The revision that Small is compared with.
Later == <<[entry |-> "c1", strings |-> <<>>, classes |->
            <<[ClassA EXCEPT !.fields = <<>>, !.methods = SubSeq(@, 1, 2)]>>],
           [entry |-> "c2", strings |-> <<>>, classes |->
            <<[ClassB EXCEPT !.methods = <<Method(BB, None), Method(B2, None)>>]>>]>>

Entry(name, kind, module, bytes, document, xml, class, inner) ==
    [name |-> name, kind |-> kind, module |-> module, bytes |-> bytes, encrypted |-> FALSE,
     document |-> document, xml |-> xml, class |-> class, inner |-> inner]
Plainly(name, kind, module, bytes) == Entry(name, kind, module, bytes, FALSE, None, None, None)
Xml(lines, components) == [lines |-> lines, components |-> components]
Activity(name) == [kind |-> "activity", name |-> name]

Bundle ==
    [kind |-> "aab", entries |->
        <<Plainly("base/d", "dex", "base", <<1, 2, 3, 4>>),
          Entry("base/m", "manifest", "base", <<1, 2>>, TRUE, Xml(<<5, 6, 7>>, <<Activity("a"), Activity("b")>>), None, None),
          Entry("feat/m", "manifest", "feat", <<1, 2>>, TRUE, None, None, None),
          [Plainly("n.txt", "asset", None, <<1>>) EXCEPT !.encrypted = TRUE],
          Plainly("r", "resource", None, None)>>]

Package ==
    [kind |-> "apk", entries |->
        <<Plainly("n.txt", "other", None, <<1, 2, 3, 4, 5>>),
          Entry("m", "manifest", None, <<1, 2>>, TRUE, Xml(<<5, 6>>, <<Activity("a"), Activity("a")>>), None, None),
          Entry("j", "other", None, <<1>>, FALSE, None, None, <<A, B>>),
          Entry("n2.txt", "other", None, <<1>>, FALSE, None, X, None),
          Plainly("c1", "dex", None, <<1, 2>>)>>]

Repeated == [Package EXCEPT !.entries = @ \o <<Plainly("m", "other", None, <<1>>)>>]
RawDex == [kind |-> "dex", entries |-> <<Plainly("c1", "dex", None, <<1, 2, 3>>)>>]

Nowhere == [kind |-> "apk", entries |-> <<>>]

Program(input) ==
    [dex |-> [input |-> input, other |-> Later, found |-> <<1, 2, 3>>],
     file |-> Nowhere, newer |-> Nowhere, compared |-> Nowhere, selection |-> None, lines |-> <<1, 2, 3>>]

FileOf(file, newer, selection) ==
    [Program(Small) EXCEPT !.file = file, !.newer = newer, !.compared = Package, !.selection = selection]

Programs == {Program(Small)}
GraphPrograms == {Program(Cyclic)}
Files ==
    {FileOf(Bundle, Package, None), FileOf(Bundle, Bundle, AllModules), FileOf(Bundle, Repeated, {"feat"}),
     FileOf(Package, Bundle, None), FileOf(Repeated, Package, None), FileOf(RawDex, Package, None)}

ArtifactsOf == Programs \cup GraphPrograms \cup Files

ASSUME \A a \in ArtifactsOf : \A i \in DOMAIN a.dex.input : Valid(a.dex.input[i])

-----------------------------------------------------------------------------

C(tool, op, given, limit) == [tool |-> tool, op |-> op, given |-> given, limit |-> limit]

\* The values that an argument is given.
Values ==
    [prefix |-> {"La", "q.", Empty}, class_name |-> {A, "q.Z", "bad"}, value |-> {"a", "S"},
     kind |-> {"method", "field", "string"}, fuzzy_class |-> {TRUE}, case_sensitive |-> {TRUE, FALSE},
     member_match |-> {"name", "descriptor", "exact_name", "prototype"},
     method_descriptor |-> {A0, BB, "bad"}, method_name |-> {"a", "b"}, target_descriptor |-> {"(I)V"},
     field_descriptor |-> {AF}, field_access |-> {"read", "write"}, type_descriptor |-> {"q.Z", B, "I"},
     type_relation |-> {"declaration", "annotation", "instruction", "operand"}, type_match |-> {"substring"},
     source_format |-> {"smali", "java"}, debug_info |-> {TRUE}, direction |-> {"outgoing"},
     depth |-> {0, 1}, max_nodes |-> {1}, max_edges |-> {1}, reference_format |-> {"grouped"},
     cursor |-> {1}]

RECURSIVE Products(_)
Products(keys) ==
    IF keys = {} THEN {Nothing}
    ELSE LET k == CHOOSE k \in keys : TRUE IN
         {Set(g, k, v) : g \in Products(keys \ {k}), v \in Values[k]}

\* The arguments that a tool needs, and at most one other.
CallsOf(tool) ==
    UNION {Products(tool.needs \cup optional) :
            optional \in {{}} \cup {{k} : k \in (tool.takes \ tool.needs) \cap DOMAIN Values}}

Focusedly ==
    UNION {{C(t, None, g, 2) : g \in CallsOf(FocusedTools[t])} : t \in DOMAIN FocusedTools}

Generically ==
    UNION {{C("asc_analyze_dex", op, g, 2) : g \in CallsOf(AnalyzeDex(op))} : op \in Operations}
    \cup UNION {{C("asc_query_dex_session", op, g, 2) : g \in CallsOf(QuerySession(op))} : op \in Operations}

Args(keys, values) == [k \in ToSet(keys) |-> values[CHOOSE i \in DOMAIN keys : keys[i] = k]]

\* Calls of long listings, in pages of each size.
Q(op, keys, values) == {C("asc_query_dex_session", op, Args(keys, values), n) : n \in {1, 3}}
Grouped(op, keys, values) ==
    {C("asc_query_dex_session", op, Args(keys \o <<"reference_format">>, values \o <<"grouped">>), n) : n \in {1, 2}}

Long ==
    Q("find_method_refs", <<"method_descriptor">>, <<XX>>)
    \cup Q("find_field_refs", <<"field_descriptor">>, <<AF>>)
    \cup Q("search_refs", <<"kind", "class_name">>, <<"method", "Lx;">>)
    \cup Q("search_members", <<"kind", "value">>, <<"method", "a">>)
    \cup Q("find_string_refs", <<"value", "case_sensitive">>, <<"s", FALSE>>)
    \cup Q("find_type_refs", <<"type_descriptor", "type_relation">>, <<B, "operand">>)
    \cup Q("find_type_refs", <<"type_descriptor">>, <<"I">>)
    \cup Q("search_strings", <<"value", "case_sensitive">>, <<"s", FALSE>>)
    \cup Q("disassemble_method", <<"method_descriptor">>, <<A0>>)
    \cup Q("get_class_outline", <<"class_name">>, <<A>>)
    \cup Grouped("find_method_refs", <<"method_descriptor">>, <<XX>>)
    \cup Grouped("find_field_refs", <<"field_descriptor">>, <<AF>>)
    \cup Grouped("get_method_calls", <<"method_descriptor">>, <<AD>>)
    \cup Grouped("search_refs", <<"kind", "value">>, <<"method", "a">>)

WalkCalls ==
    {C(t, IF t = "asc_analyze_dex" THEN "get_call_graph" ELSE None,
       [method_descriptor |-> m, direction |-> d, depth |-> k, max_nodes |-> n, max_edges |-> e], 2) :
        t \in {"apk_get_call_graph", "asc_analyze_dex"}, m \in {A0, B2, AD}, d \in {"both", "outgoing", "incoming"},
        k \in 1..3, n \in {2, 3, 5}, e \in {1, 3, 7}}

Optional(key, values) == {Nothing} \cup {[k \in {key} |-> v] : v \in values}

\* Methods that are named: one, several, none, of a class that is not there.
NamedCalls(op) ==
    {C("asc_query_dex_session", op,
       ("class_name" :> c) @@ ("method_name" :> m) @@ t, 2) :
        c \in {A, "q.Z", X}, m \in {"a", "a$", "b"}, t \in Optional("target_descriptor", {"(I)V"})}

Filed ==
    {C(t, None, g, n) :
        t \in {"asc_list_apk_entries", "apk_list_entries"}, n \in {1, 2},
        g \in Optional("prefix", {"base"}) \cup Optional("kind", {"dex", "none"})}
    \cup {C(t, None, [entry_path |-> e] @@ g, 2) :
            t \in {"asc_read_apk_entry", "apk_get_resource_content"},
            e \in {"base/d", "base/m", "n.txt", "r", "none"}, g \in Optional("decode_xml", {FALSE})}
    \cup {C(t, None, g, 1) : t \in {"apk_get_manifest", "apk_get_manifest_xml"},
                             g \in Optional("module", {"base", "feat"})}
    \cup {C(t, None, Nothing, n) : n \in {1, 3},
            t \in {"apk_get_summary", "apk_get_signing_info", "asc_signing_inventory", "asc_manifest_summary",
                   "asc_inspect_artifact"}}
    \cup {C("asc_inspect_artifact", None, g, 1) :
            g \in Optional("compare_to", {TRUE}) \cup Optional("class_query", {"La;"}) \cup Optional("class_prefix", {"Lq", "La"})
                  \cup {[compare_to |-> TRUE, class_query |-> "a"]}
                  \cup Optional("module", {AllModules, {"base", "feat"}, {"none", "feat"}})}

Reviewed ==
    {C("asc_diff_dex_sessions", None, g, n) : g \in Optional("kind", {"class", "none"}) \cup Optional("change", {"added"}), n \in {1, 3}}
    \cup {C("asc_secret_candidates", None, g, 1) : g \in Optional("pattern", {"jwt_like", "none"})}
    \cup {C("asc_list_classes", None, Nothing, n) : n \in {1, 3}}
    \cup {C("asc_get_manifest", None, Nothing, 2)}
    \cup {C("asc_get_class_source", None, [class_name |-> c], 2) : c \in {A, "bad"}}
    \cup {C("asc_find_refs", None, [kind |-> k] @@ g, 2) : k \in {"method", "extends"},
            g \in Optional("value", {A}) \cup Optional("class_name", {A, "bad"})}

AsksOf(a, stored) ==
    IF a.file # Nowhere THEN Filed
    ELSE IF a \in GraphPrograms THEN WalkCalls \cup NamedCalls("get_call_graph")
    ELSE Long \cup IF stored = "off" THEN Focusedly \cup Generically \cup Reviewed
                   \cup NamedCalls("find_method_refs") \cup NamedCalls("disassemble_method")
                   \cup NamedCalls("get_method_source") ELSE {}

\* Constants of the services and of the data.
MemberNamesOf == {"a", "a$", "b", "f"}
MethodIdsOf == [m \in {A0, A1, AD, BB, B2, XX} |-> Members[m].owner]
FieldIdsOf == [f \in {AF} |-> A]
TypeIdsOf == {A, B, X, "I"}
PrototypesOf == {"()V", "(I)V"}
CanonicalOf == [c \in {A, B, X} |-> c] @@ ("q.Z" :> B)
SlashedOf == ("q.Z" :> "q/Z") @@ ("q." :> "Lq/")
DottedOf == (A :> "a") @@ (B :> "q.Z")
CandidatesOf == ("S" :> <<"jwt_like">>) @@ ("s" :> <<"jwt_like", "google_api_key">>) @@ ("t" :> <<>>)
SourceOf == [c \in {A, B} |-> [lines |-> <<3, 2, 4>>, links |-> <<0, 2, 4, 8>>, java |-> <<1, 2, 3>>, smali |-> <<1, 2, 3, 4, 5>>]]
DurablesOf(a) == IF a.file = Nowhere THEN {"off", "empty", "stored"} ELSE {"off"}
=============================================================================
