------------------------------ MODULE Listings ------------------------------
(***************************************************************************)
(* The rows that each handler of dex_worker finds (native_dex.py,          *)
(* native_strings.py, native_types.py, native_discovery.py,                *)
(* native_structure.py, native_index.py, xref_index.py, review.py,         *)
(* class_directory.py, source_metadata.py), and the page of them that it   *)
(* answers with.  A row keeps what tells two rows apart and what orders    *)
(* them; counters of a scan and constant texts of an answer are left out.  *)
(***************************************************************************)
EXTENDS Pages

CONSTANTS
    Dotted,      \* [class -> its name with dots]
    Candidates,  \* [string -> the candidate patterns found in it, in order]
    Source       \* [class -> [lines, links]]: lengths of source lines, starts of links

PageLimit(q) == Least(q.limit, PageSize)

\* A site as a row, with the file that declares its target.
Resolved(input, site) ==
    [caller |-> site.caller, target |-> site.arg, entry |-> site.entry, at |-> site.at,
     target_entry |-> EntryOf(input, site.arg)]

-----------------------------------------------------------------------------
(* Instruction references, by a scan: native_dex._references, native_strings, native_types. *)

AsksFields(q) ==
    IF q.operation = "search_refs" THEN q.kind = "field" ELSE q.operation = "find_field_refs"

\* The text of a member that search_refs compares.
Compared(q, d) ==
    CASE q.member_match \in {"name", "exact_name"} -> Member[d].name
      [] q.member_match = "prototype" -> Member[d].proto
      [] OTHER -> d

OwnerSelected(q, d) ==
    LET sensitive == Get(q, "case_sensitive", TRUE)
        owner == IF sensitive THEN Member[d].owner ELSE LowerCase(Member[d].owner)
        asked == IF sensitive THEN q.class_name ELSE LowerCase(q.class_name)
    IN  IF On(q, "fuzzy_class") THEN Holds(owner, asked) ELSE owner = asked

ValueSelected(q, d) ==
    LET sensitive == Get(q, "case_sensitive", TRUE) IN
    IF q.member_match = "exact_name"
    THEN IF sensitive THEN Compared(q, d) = q.value
         ELSE LowerCase(Compared(q, d)) = LowerCase(q.value)
    ELSE Matches(Compared(q, d), q.value, sensitive)

Targeted(q, d) ==
    IF q.operation # "search_refs"
    THEN d = q[IF AsksFields(q) THEN "field_descriptor" ELSE "method_descriptor"]
    ELSE /\ Some(q, "class_name") => OwnerSelected(q, d)
         /\ Some(q, "target_descriptor") => Member[d].proto = q.target_descriptor
         /\ Some(q, "value") => ValueSelected(q, d)

Accessed(q, op) == AsksFields(q) => Get(q, "field_access", "all") \in {"all", op}

Incoming(q, site) ==
    /\ site.op \in IF AsksFields(q) THEN FieldOps ELSE MethodOps
    /\ Targeted(q, site.arg)
    /\ Accessed(q, site.op)

References(input, q, offset, limit) ==
    LET outgoing == q.operation = "get_method_calls"
        wanted(site) == IF outgoing THEN site.caller = q.method_descriptor /\ site.op \in MethodOps
                        ELSE Incoming(q, site)
        rows == Where(Sites(input), wanted)
    IN  IF outgoing /\ ~Declared(input, q.method_descriptor) THEN Failure("method_not_found")
        ELSE Listed([i \in DOMAIN rows |-> Resolved(input, rows[i])], offset, limit)

Strings(input, q, offset, limit) ==
    LET wanted(site) == site.op = StringOp /\ Matches(site.arg, q.value, Get(q, "case_sensitive", TRUE))
        rows == Where(Sites(input), wanted)
    IN  Listed([i \in DOMAIN rows |-> Resolved(input, rows[i])], offset, limit)

TypeOperands(input, q, offset, limit) ==
    LET matched(d) == IF Get(q, "type_match", "exact") = "exact" THEN d = q.type_descriptor
                      ELSE Holds(d, q.type_descriptor)
        rows == Where(Sites(input), LAMBDA site : site.op = TypeOp /\ matched(site.arg))
    IN  Listed([i \in DOMAIN rows |-> Resolved(input, rows[i])], offset, limit)

-----------------------------------------------------------------------------
(* The same, from an index: native_index.records and xref_index._query. *)

Edge(kind, source, target, relation, entry, at) ==
    [kind |-> kind, caller |-> source, target |-> target, relation |-> relation, entry |-> entry, at |-> at]

\* native_index.types: nothing refers to the type "V".
TypeEdges(source, types, relation, entry, at) ==
    LET named == Where(types, LAMBDA t : t # "V")
    IN  [i \in DOMAIN named |-> Edge("type", source, named[i], relation, entry, at)]

\* The edges of one instruction: the member, then the types that it names; the
\* prototypes of polymorphic calls and of method types are left out.
InstructionEdges(site, callsOnly) ==
    LET types == IF site.arg \in DOMAIN Member
                 THEN <<Member[site.arg].owner>> \o Member[site.arg].types ELSE <<site.arg>>
        named == IF callsOnly THEN <<>>
                 ELSE TypeEdges(site.caller, types, "instruction", site.entry, site.at)
    IN  CASE site.op \in MethodOps ->
                <<Edge("method", site.caller, site.arg, "instruction", site.entry, site.at)>> \o named
          [] site.op \in FieldOps /\ ~callsOnly ->
                <<Edge("field", site.caller, site.arg, site.op, site.entry, site.at)>> \o named
          [] site.op = TypeOp -> named
          [] OTHER -> <<>>

MethodEdges(dex, m, callsOnly) ==
    (IF callsOnly THEN <<>>
     ELSE TypeEdges(m.id, Member[m.id].types, "declaration", dex.entry, None)
            \o TypeEdges(m.id, m.catches, "instruction", dex.entry, 0))
    \o Each(Instructions(dex, m), LAMBDA site : InstructionEdges(site, callsOnly))

ClassEdges(dex, c) ==
    TypeEdges(c.name, (IF c.super = None THEN <<>> ELSE <<c.super>>) \o c.interfaces,
              "declaration", dex.entry, None)
    \o TypeEdges(c.name, c.annotations, "annotation", dex.entry, None)
    \o Each(Fields(c), LAMBDA d : TypeEdges(d, Member[d].types, "declaration", dex.entry, None))

\* records: the edges of an index, in the order in which they get their ids.
Edges(input, callsOnly) ==
    Each(input, LAMBDA dex : Each(Classes(dex), LAMBDA c :
        (IF callsOnly THEN <<>> ELSE ClassEdges(dex, c))
        \o Each(IF callsOnly THEN OrderedMethods(c) ELSE Methods(c),
                LAMBDA m : MethodEdges(dex, m, callsOnly))))

\* The key of the query, the kind of its edges, and the relation it asks for.
KindOf(q) ==
    CASE q.operation = "find_field_refs" -> "field"
      [] q.operation = "find_type_refs" -> "type"
      [] OTHER -> "method"

AskedOf(q) == q[IF KindOf(q) = "field" THEN "field_descriptor"
                ELSE IF KindOf(q) = "type" THEN "type_descriptor" ELSE "method_descriptor"]

RelationOf(q) ==
    CASE KindOf(q) = "field" -> Get(q, "field_access", "all")
      [] KindOf(q) = "type" -> Get(q, "type_relation", "all")
      [] OTHER -> "all"

IndexRow(input, e) ==
    [caller |-> e.caller, target |-> e.target, entry |-> e.entry, at |-> e.at,
     target_entry |-> EntryOf(input, e.target)]

MembersByIndex(input, q, offset, limit) ==
    LET all == {d \in Definitions(input) : d.name \in DOMAIN Member}
        wanted == {d \in all : /\ (Member[d.name].kind = q.kind)
                               /\ Some(q, "value") => Holds(d.name, q.value)
                               /\ Some(q, "class_name") => Member[d.name].owner = q.class_name}
        rows == Ascending(wanted, LAMBDA d : Units[d.name])
    IN  CountedPage(Listed([i \in DOMAIN rows |-> [target |-> rows[i].name, entry |-> rows[i].entry]],
                           offset, limit), offset)

\* A full index is asked; offset + limit is the next offset, as in page_result.
ByIndex(input, q, offset, limit) ==
    LET outgoing == q.operation = "get_method_calls"
        wanted(e) == /\ e.kind = KindOf(q)
                     /\ (IF outgoing THEN e.caller ELSE e.target) = AskedOf(q)
                     /\ RelationOf(q) \in {"all", e.relation}
        rows == Where(Edges(input, FALSE), wanted)
    IN  IF q.operation = "search_members" THEN MembersByIndex(input, q, offset, limit)
        ELSE IF outgoing /\ ~Declared(input, AskedOf(q)) THEN Failure("method_not_found")
        ELSE PageResult(Listed([i \in DOMAIN rows |-> IndexRow(input, rows[i])], offset, limit),
                        offset, limit)

-----------------------------------------------------------------------------
(* Declarations: native_discovery, native_structure, class_directory. *)

StringRows(dex, q) ==
    LET hit == {i \in DOMAIN dex.strings :
                    Matches(dex.strings[i], q.value, Get(q, "case_sensitive", TRUE))}
        at == Ascending(hit, LAMBDA i : i)
    IN  [i \in DOMAIN at |-> [entry |-> dex.entry, at |-> at[i], target |-> dex.strings[at[i]]]]

ClassMatches(q, name) ==
    /\ Some(q, "class_name") => q.class_name = name
    /\ Some(q, "prefix") => Starts(name, q.prefix)
    /\ \E text \in {name, Dotted[name]} : Matches(text, q.value, Get(q, "case_sensitive", TRUE))

ClassRows(dex, q) ==
    LET hit == Where(Classes(dex), LAMBDA c : ClassMatches(q, c.name))
    IN  [i \in DOMAIN hit |-> [target |-> hit[i].name, entry |-> dex.entry]]

MemberRows(dex, q) ==
    LET text(d) == IF Get(q, "member_match", "descriptor") = "name" THEN Member[d].name ELSE d
        hit(d) == Some(q, "value") => Matches(text(d), q.value, Get(q, "case_sensitive", TRUE))
        asked == Where(Classes(dex), LAMBDA c : Some(q, "class_name") => q.class_name = c.name)
        rows == Where(Each(asked, LAMBDA c : IF q.kind = "field" THEN Fields(c) ELSE Ids(Methods(c))), hit)
    IN  [i \in DOMAIN rows |-> [target |-> rows[i], entry |-> dex.entry]]


Discovery(input, q, offset, limit) ==
    LET strings == q.operation = "search_strings"
        found(dex) == CASE strings -> StringRows(dex, q)
                        [] q.operation = "search_classes" -> ClassRows(dex, q)
                        [] OTHER -> MemberRows(dex, q)
        rows == Each(input, found)
        key == [r \in ToSet(rows) |-> IF strings THEN <<Units[r.entry], r.at>>
                                      ELSE <<Units[r.target], 0>>]
    IN  SortedPage(rows, offset, limit, key)

-----------------------------------------------------------------------------

Row(relation, target) == [relation |-> relation, target |-> target]
Rows(relation, targets) == [i \in DOMAIN targets |-> Row(relation, targets[i])]

\* The superclasses of a class, up to one that is not supplied or comes again.
Superclasses(input, name) ==
    LET more(line) ==
            LET last == line[Len(line)]
                parent == IF last \in Owners(input) THEN ClassNamed(input, last).super ELSE None
            IN  IF parent = None \/ parent \in ToSet(line) THEN line ELSE Append(line, parent)
        line[n \in 0..Cardinality(Owners(input))] == IF n = 0 THEN <<name>> ELSE more(line[n - 1])
    IN  Tail(line[Cardinality(Owners(input))])

ByUnits(names) == SortedBy(names, LAMBDA n : Units[n])

Hierarchy(input, q, offset, limit) ==
    LET owner == q.class_name
        names == Ascending(Owners(input), LAMBDA n : Units[n])
        below(n) == LET c == ClassNamed(input, n) IN
            (IF c.super = owner THEN <<Row("direct_subclass", n)>> ELSE <<>>)
            \o (IF owner \in ToSet(c.interfaces) THEN <<Row("direct_implementor", n)>> ELSE <<>>)
    IN  IF owner \notin Owners(input) THEN Failure("class_not_found")
        ELSE Listed(Rows("superclass", Superclasses(input, owner))
                        \o Rows("interface", ByUnits(ClassNamed(input, owner).interfaces))
                        \o Each(names, below), offset, limit)

\* The classes that a structural query visits: all, or the one it names.
Visited(dex, q) == Where(Classes(dex), LAMBDA c : Some(q, "class_name") => c.name = q.class_name)

Outline(input, q, offset, limit) ==
    LET rows(c) == (IF q.operation = "list_methods" THEN <<>>
                    ELSE Rows("interface", ByUnits(c.interfaces)) \o Rows("field", Fields(c)))
                   \o Rows("method", Ids(Methods(c)))
    IN  Listed(Each(input, LAMBDA dex : Each(Visited(dex, q), rows)), offset, limit)

\* The instructions of the methods asked for; those of get_string_constants, of
\* search_method_bodies and of disassemble_method.
Shown(q, site) ==
    CASE q.operation = "get_string_constants" -> site.op = StringOp
      [] q.operation = "search_method_bodies" ->
            Matches(site.arg, q.value, Get(q, "case_sensitive", FALSE))
      [] OTHER -> TRUE

AskedMethods(c, q) ==
    Where(Methods(c), LAMBDA m : Some(q, "method_descriptor") => m.id = q.method_descriptor)

Bodies(input, q, offset, limit) ==
    LET sites == Each(input, LAMBDA dex : Each(Visited(dex, q), LAMBDA c :
                    Each(AskedMethods(c, q), LAMBDA m : Instructions(dex, m))))
        shown == Where(sites, LAMBDA s : Shown(q, s))
        key == [s \in ToSet(shown) |-> <<Units[s.caller], s.at>>]
    IN  IF Some(q, "method_descriptor") /\ ~Declared(input, q.method_descriptor)
        THEN Failure("method_not_found")
        ELSE SortedPage(shown, offset, limit, key)

Structure(input, q, offset, limit) ==
    IF q.operation = "get_class_hierarchy" THEN Hierarchy(input, q, offset, limit)
    ELSE IF Some(q, "class_name") /\ q.class_name \notin Owners(input) THEN Failure("class_not_found")
    ELSE IF q.operation \in {"get_class_outline", "list_methods"} THEN Outline(input, q, offset, limit)
    ELSE Bodies(input, q, offset, limit)

\* ClassDirectory.page: the keys from the prefix to the first that is beyond it.
ClassPage(input, q, offset, limit) ==
    LET names == {n \in Owners(input) : Some(q, "prefix") => Starts(n, q.prefix)}
        rows == Ascending(names, LAMBDA n : Units[n])
    IN  Listed([i \in DOMAIN rows |-> [target |-> rows[i], entry |-> EntryOf(input, rows[i])]],
               offset, limit)

-----------------------------------------------------------------------------
(* Review of two preparations, and of the string pool: review.py. *)

DeclaredOf(dex, kind) ==
    Each(Classes(dex), LAMBDA c :
        (IF kind \in {"all", "class"} THEN <<c.name>> ELSE <<>>)
        \o (IF kind \in {"all", "field"} THEN Fields(c) ELSE <<>>)
        \o (IF kind \in {"all", "method"} THEN Ids(Methods(c)) ELSE <<>>))

DeclarationsOf(input, kind) == Each(input, LAMBDA dex : DeclaredOf(dex, kind))

Difference(old, new, q, offset, limit) ==
    LET before == DeclarationsOf(old, q.kind)
        after == DeclarationsOf(new, q.kind)
        state(n) == CASE n \notin ToSet(before) -> "added" [] n \notin ToSet(after) -> "removed"
                      [] OTHER -> "unchanged"
        shown == {n \in ToSet(before) \cup ToSet(after) :
                    state(n) # "unchanged" /\ q.change \in {"all", state(n)}}
        rows == Ascending(shown, LAMBDA n : Units[n])
    IN  IF ~(NoRepeats(before) /\ NoRepeats(after)) THEN Failure("inventory_or_scan_error")
        ELSE Listed([i \in DOMAIN rows |->
                        [target |-> rows[i], relation |-> state(rows[i]),
                         old |-> EntryOf(old, rows[i]), new |-> EntryOf(new, rows[i])]], offset, limit)

Secrets(input, q, offset, limit) ==
    LET rows(dex, i) == Where(Candidates[dex.strings[i]], LAMBDA p : q.pattern \in {"all", p})
        found(dex) == FlattenSeq([i \in DOMAIN dex.strings |->
                        [k \in DOMAIN rows(dex, i) |->
                            [entry |-> dex.entry, at |-> i, relation |-> rows(dex, i)[k], n |-> k]]])
    IN  Listed(Each(input, found), offset, limit)

-----------------------------------------------------------------------------

\* source_metadata: a page of source lines, with the links that start in it.
SourceMetadata(q, offset, limit) ==
    LET lines == Source[q.class_name].lines
        start == LengthOf(lines, offset)
        end == LengthOf(lines, offset + limit)
        shown == Where(Source[q.class_name].links, LAMBDA at : start <= at /\ at < end)
        more == offset + limit < Len(lines)
    IN  [status |-> "ok", items |-> shown, total |-> Len(lines),
         next |-> IF more THEN offset + limit ELSE None]
=============================================================================
