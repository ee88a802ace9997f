------------------------------ MODULE Converter ------------------------------
(***************************************************************************)
(* The arxml2yaml.py pipeline: main() walks the input paths, hands each   *)
(* existing one to ARXMLParser.parse_file(), which extracts instance      *)
(* bindings and reconciles them into ServiceDefinition records            *)
(* (_find_service_instances, _combine_definitions, compute_service_id),   *)
(* and then runs the SlotAllocator module on the collected list.          *)
(*                                                                         *)
(* A document is abstracted to what changes the control flow: whether    *)
(* the path exists, whether ElementTree can parse it, whether its tags    *)
(* carry an XML namespace, whether one of its fields holds text that      *)
(* int() or .lower() rejects, and its instance bindings (the trailing     *)
(* name of the SERVICE-INTERFACE-REF and the INSTANCE-ID).  Interface     *)
(* declarations only contribute version and description to a record, so  *)
(* they are left out; the record name is the reference whether or not an  *)
(* interface of that name was found (lines 208-214).                      *)
(***************************************************************************)
EXTENDS Naturals, Sequences, TLC

CONSTANTS
  STATIC_SLOT_START, STATIC_SLOT_END,
  DYNAMIC_SLOT_START, DYNAMIC_SLOT_END,
  ASIL_SLOT_START, ASIL_SLOT_END,
  Names,          \* service interface names a reference can carry
  AsilNames,      \* those containing "control" or "safety", any case
  InstanceIds,    \* INSTANCE-ID values
  Absent,         \* an element that find() did not return
  ServiceIdOf(_), \* the FNV-1a hash of a name (ServiceDefinition.compute_service_id)
  Document,       \* the input documents considered
  MaxDocs,        \* bound on the number of input paths (model bound)
  MaxInstances    \* bound on the instance bindings of one document

ASSUME NamesAssumption ==
  /\ AsilNames \subseteq Names
  /\ "" \notin Names
  /\ Absent \notin InstanceIds
  /\ MaxDocs \in Nat /\ MaxInstances \in Nat

(* The placeholder name f"UnknownService_{len(result)}". *)
Placeholder(pos) == "UnknownService_" \o ToString(pos)

AllNames == Names \cup {Placeholder(p) : p \in 0 .. MaxInstances - 1}

ASSUME ServiceIdAssumption == \A n \in AllNames : ServiceIdOf(n) \in Nat

(* A binding as _find_service_instances sees it in a document without    *)
(* namespace: ref is the last '/'-segment of SERVICE-INTERFACE-REF, or "" *)
(* when there is none; iid is the parsed INSTANCE-ID or Absent.           *)
Binding == [ref : Names \cup {""}, iid : InstanceIds \cup {Absent}]

ASSUME DocumentAssumption ==
  \A doc \in Document :
    /\ doc.exists \in BOOLEAN /\ doc.wellformed \in BOOLEAN
    /\ doc.ns \in BOOLEAN /\ doc.bad \in BOOLEAN
    /\ doc.instances \in Seq(Binding)
    /\ Len(doc.instances) <= MaxInstances

-----------------------------------------------------------------------------
(* _find_service_instances: the tag test uses endswith() and so matches   *)
(* namespaced tags, but every elem.find('.//INSTANCE-ID', ...) and        *)
(* find('.//SERVICE-INTERFACE-REF', ...) uses an unprefixed path, which   *)
(* ElementTree matches only against tags without a namespace: in a       *)
(* namespaced document every binding comes out empty.                     *)
Extracted(doc) ==
  IF doc.ns THEN [k \in 1 .. Len(doc.instances) |-> [ref |-> "", iid |-> Absent]]
            ELSE doc.instances

(* A field the extraction converts fails: int() of a version or of an     *)
(* INSTANCE-ID such as "010", .lower() of an empty TYPE.  Only reached    *)
(* when find() returns the element, i.e. without namespace.               *)
RaisesOnExtract(doc) == doc.bad /\ ~doc.ns

(* Safety level inferred from the name (lines 224-227). *)
SafetyLevel(name) == IF name \in AsilNames THEN "ASIL-D" ELSE "QM"

(* Mutation variant: placeholders numbered from 1. *)
MakeRecordFromOne(b, pos) ==
  LET name == IF b.ref # "" THEN b.ref ELSE Placeholder(pos + 1) IN
  [name         |-> name,
   service_id   |-> ServiceIdOf(name),
   instance_id  |-> IF b.iid = Absent THEN pos ELSE b.iid,
   safety_level |-> SafetyLevel(name),
   category     |-> "dynamic"]

(* One iteration of _combine_definitions: pos is len(result), the number  *)
(* of records this document has produced so far.                          *)
MakeRecord(b, pos) ==
  LET name == IF b.ref # "" THEN b.ref ELSE Placeholder(pos) IN
  [name         |-> name,
   service_id   |-> ServiceIdOf(name),
   instance_id  |-> IF b.iid = Absent THEN pos ELSE b.iid,
   safety_level |-> SafetyLevel(name),
   category     |-> "dynamic"]

(* _combine_definitions over the bindings of one document. *)
CombineDefinitions(doc) ==
  LET bs == Extracted(doc) IN [k \in 1 .. Len(bs) |-> MakeRecord(bs[k], k - 1)]

(* The ServiceDefinition records a run can hold (lines 54-67): a name    *)
(* that is a reference or a placeholder of a position within the bound,  *)
(* its hash, an INSTANCE-ID or a default position, the two levels, and   *)
(* the category the reconciler leaves at its default.                    *)
ServiceRecord ==
  [name         : AllNames,
   service_id   : {ServiceIdOf(n) : n \in AllNames},
   instance_id  : InstanceIds \cup (0 .. MaxInstances - 1),
   safety_level : {"QM", "ASIL-D"},
   category     : {"dynamic"}]

-----------------------------------------------------------------------------
VARIABLES
  docs,             \* args.input, the paths in order
  d,                \* position of main()'s loop over the paths (1-based)
  parser_services,  \* ARXMLParser.services, kept across parse_file() calls
  all_services,     \* main()'s all_services
  reconciled,       \* history: the records reconciled per document, in order
  phase,            \* "parsing", "allocating", "no_services", "crashed"
  strategy, next_dynamic_slot, next_asil_slot, i,
  static_allocations, dynamic_allocations, asil_allocations, status

allocVars == <<strategy, next_dynamic_slot, next_asil_slot, i,
               static_allocations, dynamic_allocations, asil_allocations, status>>
parseVars == <<docs, d, parser_services, all_services, reconciled, phase>>
vars == <<parseVars, allocVars>>

Alloc == INSTANCE SlotAllocator WITH services <- all_services,
                                      Service <- ServiceRecord,
                                      MaxServices <- 0

(* The pool constants main() hands to SlotAllocator are those of the     *)
(* allocator module: ordered, disjoint and non-empty.                      *)
ASSUME PoolsAssumption == Alloc!PoolAssumption

DocLists == UNION {[1 .. n -> Document] : n \in 1 .. MaxDocs}

Init ==
  /\ docs \in DocLists
  /\ d = 1
  /\ parser_services = << >>
  /\ all_services = << >>
  /\ reconciled = << >>
  /\ phase = "parsing"
  /\ strategy \in Alloc!Strategies
  /\ Alloc!InitAllocator

Reading == phase = "parsing" /\ d <= Len(docs)

(* The path does not exist: report it and go on. *)
SkipMissing ==
  /\ Reading
  /\ ~docs[d].exists
  /\ d' = d + 1
  /\ UNCHANGED <<docs, parser_services, all_services, reconciled, phase, allocVars>>

(* ET.ParseError: parse_file() reports it and returns [] (services is     *)
(* left as it is).                                                         *)
SkipMalformed ==
  /\ Reading
  /\ docs[d].exists /\ ~docs[d].wellformed
  /\ d' = d + 1
  /\ UNCHANGED <<docs, parser_services, all_services, reconciled, phase, allocVars>>

(* ValueError or AttributeError during extraction: parse_file() catches   *)
(* only ParseError, so the exception ends the process; nothing is written.*)
ExtractionRaises ==
  /\ Reading
  /\ docs[d].exists /\ docs[d].wellformed
  /\ RaisesOnExtract(docs[d])
  /\ phase' = "crashed"
  /\ UNCHANGED <<docs, d, parser_services, all_services, reconciled, allocVars>>

(* Mutation variant: main() extends by the list as it was before the     *)
(* document was parsed.                                                    *)
ParseFileStale ==
  /\ Reading
  /\ docs[d].exists /\ docs[d].wellformed
  /\ ~RaisesOnExtract(docs[d])
  /\ LET recs == CombineDefinitions(docs[d]) IN
     /\ parser_services' = parser_services \o recs
     /\ all_services' = all_services \o parser_services
     /\ reconciled' = reconciled \o recs
  /\ d' = d + 1
  /\ UNCHANGED <<docs, phase, allocVars>>

(* parse_file() extends self.services by the document's records and      *)
(* returns self.services, the records of every document parsed so far,   *)
(* and main() extends all_services by that list.                          *)
ParseFile ==
  /\ Reading
  /\ docs[d].exists /\ docs[d].wellformed
  /\ ~RaisesOnExtract(docs[d])
  /\ LET recs == CombineDefinitions(docs[d]) IN
     /\ parser_services' = parser_services \o recs
     /\ all_services' = all_services \o parser_services'
     /\ reconciled' = reconciled \o recs
  /\ d' = d + 1
  /\ UNCHANGED <<docs, phase, allocVars>>

(* No service found in any input: main() returns 1 without writing. *)
NoServices ==
  /\ phase = "parsing" /\ d > Len(docs)
  /\ all_services = << >>
  /\ phase' = "no_services"
  /\ UNCHANGED <<docs, d, parser_services, all_services, reconciled, allocVars>>

(* main() builds the SlotAllocator and the YAMLGenerator and calls save(). *)
StartGeneration ==
  /\ phase = "parsing" /\ d > Len(docs)
  /\ all_services # << >>
  /\ phase' = "allocating"
  /\ UNCHANGED <<docs, d, parser_services, all_services, reconciled, allocVars>>

(* One step of YAMLGenerator.generate()/save() on all_services. *)
Generate ==
  /\ phase = "allocating"
  /\ \/ Alloc!AllocateAsil
     \/ Alloc!AsilExhausted
     \/ Alloc!AllocateStatic
     \/ Alloc!AllocateDynamic
     \/ Alloc!DynamicExhausted
     \/ Alloc!Save
  /\ UNCHANGED parseVars

Next ==
  \/ SkipMissing
  \/ SkipMalformed
  \/ ExtractionRaises
  \/ ParseFile
  \/ NoServices
  \/ StartGeneration
  \/ Generate

(* The process exits in "no_services", "crashed", or after save() or an  *)
(* exhaustion error.  Only safety is checked of it, so no fairness is    *)
(* assumed.                                                                *)
Spec == Init /\ [][Next]_vars

-----------------------------------------------------------------------------
TypeOK ==
  /\ docs \in DocLists
  /\ d \in 1 .. Len(docs) + 1
  /\ parser_services \in Seq(ServiceRecord)
  /\ all_services \in Seq(ServiceRecord)
  /\ reconciled \in Seq(ServiceRecord)
  /\ phase \in {"parsing", "allocating", "no_services", "crashed"}
  /\ Alloc!TypeOK

(* The documents parse_file() got through so far. *)
ParsedDocs ==
  {docs[k] : k \in {j \in 1 .. d - 1 : docs[j].exists /\ docs[j].wellformed}}

(* The output agrees with what was reconciled: the run gives up with "no   *)
(* services" only when no document produced a record, and a written file  *)
(* holds an entry for every record reconciled from every document, the    *)
(* last one included.                                                      *)
OutputReflectsReconciled ==
  /\ phase = "no_services" => reconciled = << >>
  /\ status = "saved" =>
       \A k \in 1 .. Len(reconciled) :
         \E b \in 1 .. 3 : \E j \in 1 .. Len(Alloc!buckets[b]) :
           Alloc!buckets[b][j].svc = reconciled[k]

(* Section 4.1: the record sets of the documents are concatenated, each   *)
(* record once: the list handed to the allocator is the concatenation of  *)
(* what _combine_definitions produced per document.                       *)
ConcatenatedOnce == all_services = reconciled

(* Section 4.2: a placeholder name is generated so that no two placeholder *)
(* names collide within one run.                                           *)
PlaceholderNamesUnique ==
  \A k1, k2 \in 1 .. Len(reconciled) :
    /\ k1 # k2
    /\ reconciled[k1].name \notin Names
    => reconciled[k1].name # reconciled[k2].name

(* Section 4.1: a binding whose SERVICE-INTERFACE-REF names an interface  *)
(* yields a record of that name, whatever namespace prefix the tags carry. *)
ReferencesResolved ==
  \A doc \in ParsedDocs : \A j \in 1 .. Len(doc.instances) :
    doc.instances[j].ref # "" =>
      \E k \in 1 .. Len(reconciled) : reconciled[k].name = doc.instances[j].ref

(* Sections 4.1 and 7: a document that cannot be read is reported and     *)
(* skipped; it never aborts the processing of the other documents.        *)
DocumentFailuresIsolated == phase # "crashed"


(* The abstract view of the pipeline: the list main() hands over, and    *)
(* the slots handed out from each pool as the slots of its bucket.        *)
ConvAbs == INSTANCE ConverterSpec
             WITH out <- all_services, Service <- ServiceRecord,
                  n <- i - 1,
                  static_slots <- Alloc!SlotsIn(static_allocations),
                  dynamic_slots <- Alloc!SlotsIn(dynamic_allocations),
                  asil_slots <- Alloc!SlotsIn(asil_allocations)

(* The pipeline keeps the promises of ConverterSpec: main() only ever     *)
(* extends all_services while reading inputs, gives up only on an empty  *)
(* list, and the generation run on the list it built serves it as        *)
(* AllocatorSpec says (fresh cursor slots, exhaustion only when full,    *)
(* saved only when complete), duplicated records included.               *)
ImplementsConverterSpec == ConvAbs!Spec

-----------------------------------------------------------------------------
(* The inductive strengthening of OutputReflectsReconciled, in parts. *)

(* ARXMLParser.services and the history of reconciled records agree: both *)
(* are extended by exactly the records of each parsed document.           *)
ParserHoldsReconciled == parser_services = reconciled

(* What was reconciled is the tail of all_services: main() last extended  *)
(* it by the parser's whole list.                                           *)
ReconciledIsSuffix ==
  /\ Len(reconciled) <= Len(all_services)
  /\ \A k \in 1 .. Len(reconciled) :
       all_services[Len(all_services) - Len(reconciled) + k] = reconciled[k]

(* Before generation starts the allocator has not taken a step, and the   *)
(* "no services" exit is taken on an empty list only.                      *)
AllocatorIdle ==
  /\ phase # "allocating" => i = 1 /\ status = "generating"
  /\ phase = "no_services" => all_services = << >>

(* Every service generate() has visited has an entry in some bucket. *)
VisitedEmitted ==
  \A m \in 1 .. i - 1 :
    \E b \in 1 .. 3 : \E j \in 1 .. Len(Alloc!buckets[b]) :
      Alloc!buckets[b][j].svc = all_services[m]

IInv ==
  /\ TypeOK
  /\ ParserHoldsReconciled
  /\ ReconciledIsSuffix
  /\ AllocatorIdle
  /\ Alloc!SavedAtEnd
  /\ VisitedEmitted

=============================================================================
