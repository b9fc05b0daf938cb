------------------------------ MODULE Archive ------------------------------
(***************************************************************************)
(* The worker that answers from the file itself (archive_worker.py,        *)
(* containers.py, raw_dex_entry.py, manifest.py).  Signing certificates    *)
(* and summaries, which are not paged, are left out.  A file is a record   *)
(* of its kind and its entries, a sequence in the order of the archive.    *)
(* An entry has a name, the kind that entry_kind gives it, the module of a *)
(* bundle or None, its bytes (None: a directory), whether it is encrypted, *)
(* whether its name is that of a document, what is in it (its text and the *)
(* components of a manifest; None: not well-formed), the class that it is, *)
(* and the classes that it holds if it is a JAR.                           *)
(***************************************************************************)
EXTENDS Pages

CONSTANTS
    AllModules,  \* the selection "*"
    Budget,      \* bytes that nested archives may expand to
    XmlRoom,     \* MAX_XML_BYTES
    MaxModules   \* modules that one selection may name

EntryKinds == {"manifest", "resource", "asset", "native", "dex", "metadata", "other"}

NamesOf(file) == {file.entries[i].name : i \in DOMAIN file.entries}
EntryNamed(file, name) == file.entries[CHOOSE i \in DOMAIN file.entries : file.entries[i].name = name]
SizeOf(e) == IF e.bytes = None THEN 0 ELSE Len(e.bytes)
ByName(entries) == SortedBy(entries, LAMBDA e : Units[e.name])

\* _entries: an inventory with one name twice is refused as a whole.
Inventoried(entries) == NoRepeats([i \in DOMAIN entries |-> entries[i].name])

-----------------------------------------------------------------------------
(* Modules of a bundle: containers.module_selection, selected_modules, manifest_module. *)

Modules(file) == {file.entries[i].module : i \in DOMAIN file.entries} \ {None}

\* A selection is None, all or a set of names (a single name stands for its set).
Selectable(file, module) == module = None \/ file.kind = "aab"

Chosen(file, module) ==
    IF module = AllModules THEN Modules(file) ELSE IF module = None THEN {"base"} ELSE module

ChosenFailure(file, module) ==
    IF ~Selectable(file, module) THEN "invalid_query"
    ELSE IF module = AllModules /\ Cardinality(Modules(file)) > MaxModules THEN "module_limit"
    ELSE IF module \notin {None, AllModules} /\ Cardinality(module) > 1 /\ ~module \subseteq Modules(file)
         THEN "module_not_found"
    ELSE None

\* The module whose manifest is read: the one asked for, or the only one selected.
ManifestModule(file, selection, requested) ==
    IF requested # None THEN requested ELSE CHOOSE m \in Chosen(file, selection) : TRUE

ManifestFailure(file, selection, requested) ==
    IF ChosenFailure(file, selection) # None THEN ChosenFailure(file, selection)
    ELSE IF requested # None /\ requested \notin Chosen(file, selection) THEN "module_not_selected"
    ELSE IF requested = None /\ Cardinality(Chosen(file, selection)) # 1 THEN "ambiguous_module"
    ELSE None

-----------------------------------------------------------------------------
(* artifact_inventory: containers.capabilities and inspect. *)

JarCost(file) ==
    FoldLeft(LAMBDA n, e : n + IF e.inner # None THEN SizeOf(e) ELSE 0, 0, file.entries)

\* The classes of the file and of the JARs in it, each under its provenance.
ClassesIn(file) ==
    Each(file.entries, LAMBDA e :
        (IF e.class # None THEN <<[name |-> e.name, class |-> e.class]>> ELSE <<>>)
        \o (IF e.inner = None THEN <<>>
            ELSE [i \in DOMAIN e.inner |-> [name |-> e.name, class |-> e.inner[i]]]))

DexIn(file, module) ==
    Where(file.entries, LAMBDA e :
        e.kind = "dex" /\ e.bytes # None /\ (file.kind = "aab" => e.module \in Chosen(file, module)))

CapabilityFailure(file, module) ==
    IF ChosenFailure(file, module) # None THEN ChosenFailure(file, module)
    ELSE IF JarCost(file) > Budget THEN "container_limit" ELSE None

ClassTexts(file) == {ClassesIn(file)[i].class : i \in DOMAIN ClassesIn(file)}

\* The rows of an inventory, or only the classes that a class query selects.
InventoryRows(file, q) ==
    LET asked == Given(q, "class_query") # None \/ Given(q, "class_prefix") # None
        all == Where(ClassesIn(file), LAMBDA c :
                /\ Some(q, "class_query") => Holds(LowerCase(c.class), LowerCase(q.class_query))
                /\ Some(q, "class_prefix") => Starts(c.class, q.class_prefix))
        dex == DexIn(file, Given(q, "module"))
        others == Where(file.entries, LAMBDA e : e.kind = "apk")
        plain == dex \o others
    IN  IF asked THEN SortedBy(all, LAMBDA r : Units[r.name])
        ELSE SortedBy(all \o [i \in DOMAIN plain |-> [name |-> plain[i].name, class |-> None]],
                      LAMBDA r : Units[r.name])

Inventory(file, other, q, offset, limit) ==
    LET module == Given(q, "module")
        old == ClassTexts(file)  new == ClassTexts(other)
        shown == Ascending((old \ new) \cup (new \ old), LAMBDA n : Units[n])
        changes == [i \in DOMAIN shown |->
                        [target |-> shown[i], relation |-> IF shown[i] \in new THEN "added" ELSE "removed"]]
    IN  IF CapabilityFailure(file, module) # None THEN Failure(CapabilityFailure(file, module))
        ELSE IF ~Some(q, "compare_to") THEN CountedPage(Listed(InventoryRows(file, q), offset, limit), offset)
        ELSE IF CapabilityFailure(other, module) # None THEN Failure(CapabilityFailure(other, module))
        ELSE CountedPage(Listed(changes, offset, limit), offset)

-----------------------------------------------------------------------------
(* The other operations: archive_worker._query and raw_dex_entry.query_entry. *)

ListEntries(file, q, offset, limit) ==
    LET rows == Where(ByName(file.entries), LAMBDA e :
            /\ e.bytes # None
            /\ Given(q, "kind") # None => e.kind = q.kind
            /\ Given(q, "prefix") # None => Starts(e.name, q.prefix))
    IN  IF Given(q, "kind") \notin EntryKinds \cup {None} THEN Failure("invalid_query")
        ELSE CountedPage(Listed([i \in DOMAIN rows |-> rows[i].name], offset, limit), offset)

\* _content: a document is decoded as a whole, other bytes are read from an offset.
ContentFailure(e, seeks) ==
    IF seeks THEN "invalid_entry"
    ELSE IF e.bytes = None THEN "entry_is_directory" ELSE "encrypted_entry"

Content(e, q, start, limit) ==
    LET document == e.document /\ Get(q, "decode_xml", TRUE) /\ SizeOf(e) <= XmlRoom IN
    IF e.bytes = None \/ e.encrypted THEN Failure(ContentFailure(e, start > 0 /\ ~document))
    ELSE ContentPage(IF document /\ e.xml # None THEN e.xml.lines ELSE e.bytes, start, limit)

\* manifest.summarize: an activity that is declared twice makes a manifest invalid.
Activities(components) == Where(components, LAMBDA c : c.kind = "activity")

Manifest(e, q, offset, limit) ==
    IF SizeOf(e) > XmlRoom THEN Failure("xml_limit")
    ELSE IF e.bytes = None THEN Failure("entry_is_directory")
    ELSE IF e.encrypted THEN Failure("encrypted_entry")
    ELSE IF e.xml = None THEN Failure("invalid_xml")
    ELSE IF q.operation = "manifest_xml" THEN CountedPage(Listed(e.xml.lines, offset, limit), offset)
    ELSE IF ~NoRepeats([i \in DOMAIN Activities(e.xml.components) |-> Activities(e.xml.components)[i].name])
         THEN Failure("invalid_manifest")
    ELSE CountedPage(Listed(e.xml.components, offset, limit), offset)

\* The entries that hold the manifest of the selected module.
Manifests(file, q) ==
    LET module == ManifestModule(file, Given(q, "module_selection"), Given(q, "module")) IN
    {i \in DOMAIN file.entries :
        file.entries[i].kind = "manifest" /\ (file.kind = "aab" => file.entries[i].module = module)}

ReadManifest(file, q, offset, limit) ==
    LET failure == IF file.kind = "aab"
                   THEN ManifestFailure(file, Given(q, "module_selection"), Given(q, "module"))
                   ELSE IF Given(q, "module") # None THEN "invalid_query" ELSE None
    IN  IF failure # None THEN Failure(failure)
        ELSE IF Manifests(file, q) = {} THEN Failure("entry_not_found")
        ELSE Manifest(file.entries[CHOOSE i \in Manifests(file, q) : TRUE], q, offset, limit)

ReadEntry(file, q, offset, limit) ==
    IF q.entry_path \notin NamesOf(file) THEN Failure("entry_not_found")
    ELSE Content(EntryNamed(file, q.entry_path), q, offset, limit)

ArchiveOps ==
    {"list_entries", "read_entry", "manifest_summary", "manifest_xml", "signing_inventory",
     "artifact_inventory"}

\* A file of the kind "dex" is its own only entry, and holds no documents.
ArchiveAnswer(file, other, q, offset, limit) ==
    IF q.operation \notin ArchiveOps THEN Failure("unknown_operation")
    ELSE IF ~Inventoried(file.entries) THEN Failure("duplicate_entry")
    ELSE IF file.kind = "dex" /\ q.operation \notin {"list_entries", "read_entry"}
    THEN Failure("unsupported_capability")
    ELSE CASE q.operation = "list_entries" -> ListEntries(file, q, offset, limit)
      [] q.operation = "read_entry" -> ReadEntry(file, q, offset, limit)
      [] q.operation = "artifact_inventory" -> Inventory(file, other, q, offset, limit)
      [] q.operation = "signing_inventory" -> Answer(<<>>, 0)
      [] OTHER -> ReadManifest(file, q, offset, limit)
=============================================================================
