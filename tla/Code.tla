------------------------------- MODULE Code -------------------------------
(***************************************************************************)
(* What a worker reads from the DEX files of an input (native_dex.py,      *)
(* native_scan.py): classes, members and instructions, and the order in    *)
(* which every scan visits them.  An input is a sequence of files in the   *)
(* order of their names; a file is a record of its entry name, its string  *)
(* pool and its classes in the order of the file.  Offsets, operand widths *)
(* and encodings are abstracted: an instruction is an operation with the   *)
(* text that its operand stands for, at its place in the method.           *)
(***************************************************************************)
EXTENDS Query, Lists

CONSTANTS
    Member,      \* [descriptor -> [owner, name, proto, types]]: what its text says
    Units,       \* [text -> Nat]: the order of UTF-16 code units, of names, prototypes, descriptors
    Opened,      \* [name -> Nat]: the same order, of the name followed by "("
    Within,      \* the pairs <<part, text>> of a text and a part of it
    StartsWith,  \* the pairs <<start, text>> of a text and a start of it
    Lower        \* [text -> text]

\* str.__contains__, and str.startswith, of literals.
Holds(text, part) == <<part, text>> \in Within
Starts(text, prefix) == <<prefix, text>> \in StartsWith

LowerCase(text) == IF text \in DOMAIN Lower THEN Lower[text] ELSE text

Matches(text, part, sensitive) ==
    IF sensitive THEN Holds(text, part) ELSE Holds(LowerCase(text), LowerCase(part))

-----------------------------------------------------------------------------

MethodOps == {"invoke", "polymorphic"}
FieldOps == {"read", "write"}
DynamicOps == {"polymorphic", "custom"}
TypeOp == "type"
StringOp == "string"

\* The checks of the reader: a file that fails one is refused, never skipped.
Ids(methods) == [i \in DOMAIN methods |-> methods[i].id]
Names(classes) == [i \in DOMAIN classes |-> classes[i].name]

ValidMembers(class) == NoRepeats(class.fields) /\ NoRepeats(Ids(class.methods))
ValidClasses(dex) == NoRepeats(Names(dex.classes))
ValidCode(method) ==
    method.code # None =>
        \A i \in DOMAIN method.code :
            method.code[i].op \in MethodOps \cup FieldOps \cup DynamicOps \cup {TypeOp, StringOp, "other"}

Valid(dex) ==
    /\ ValidClasses(dex)
    /\ \A i \in DOMAIN dex.classes :
        /\ ValidMembers(dex.classes[i])
        /\ \A j \in DOMAIN dex.classes[i].methods : ValidCode(dex.classes[i].methods[j])

\* Dex.classes: in the order of UTF-16 names.
Classes(dex) == SortedBy(dex.classes, LAMBDA c : Units[c.name])

\* Dex.members: in the order of full descriptors.
Fields(class) == SortedBy(class.fields, LAMBDA d : Units[d])
Methods(class) == SortedBy(class.methods, LAMBDA m : Units[m.id])

\* Mutant: names are compared without the "(" that ends them.
OrderedByBareName(class) ==
    Sorted(class.methods, [m \in ToSet(class.methods) |->
        <<Units[Member[m.id].name], Units[Member[m.id].proto]>>])

\* Dex.ordered_methods: the same order, of which only overloads are decoded.
OrderedMethods(class) ==
    Sorted(class.methods, [m \in ToSet(class.methods) |->
        <<Opened[Member[m.id].name], Units[Member[m.id].proto]>>])

\* Dex.instructions and the scanners: every instruction of a code item, in order.
Instructions(dex, method) ==
    IF method.code = None THEN <<>>
    ELSE [i \in DOMAIN method.code |->
            [caller |-> method.id, entry |-> dex.entry, at |-> i,
             op |-> method.code[i].op, arg |-> method.code[i].arg]]

\* select_directory, and the loops of every scan: files by entry name, classes,
\* methods, instructions.
Sites(input) ==
    Each(input, LAMBDA dex : Each(Classes(dex), LAMBDA c :
        Each(OrderedMethods(c), LAMBDA m : Instructions(dex, m))))

\* The file that declares a member or a class (the definitions of a scan).
MethodsOf(class) == {class.methods[i].id : i \in DOMAIN class.methods}

Definitions(input) ==
    UNION {UNION {{[name |-> d, entry |-> input[i].entry] :
                    d \in {input[i].classes[j].name} \cup ToSet(input[i].classes[j].fields)
                            \cup MethodsOf(input[i].classes[j])} :
                  j \in DOMAIN input[i].classes} : i \in DOMAIN input}

Declared(input, name) == \E d \in Definitions(input) : d.name = name

EntryOf(input, name) ==
    IF Declared(input, name) THEN (CHOOSE d \in Definitions(input) : d.name = name).entry ELSE None

ClassNamed(input, name) ==
    CHOOSE c \in UNION {ToSet(input[i].classes) : i \in DOMAIN input} : c.name = name

\* class_inventory and ClassDirectory: the owners of all the files.
Owners(input) == UNION {ToSet(Names(input[i].classes)) : i \in DOMAIN input}
=============================================================================
