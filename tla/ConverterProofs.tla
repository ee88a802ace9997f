--------------------------- MODULE ConverterProofs ---------------------------
(***************************************************************************)
(* Proofs about the converter pipeline for every pool layout, every set   *)
(* of names and documents satisfying the assumptions of Converter: the    *)
(* type invariant, and that the output reflects what was reconciled,      *)
(* through the inductive invariant IInv.                                   *)
(***************************************************************************)
EXTENDS Converter, TLAPS

-----------------------------------------------------------------------------
(* Lemmas on the operators the steps are built from. *)

LEMMA PoolFacts ==
  /\ STATIC_SLOT_START \in Nat /\ STATIC_SLOT_END \in Nat
  /\ DYNAMIC_SLOT_START \in Nat /\ DYNAMIC_SLOT_END \in Nat
  /\ ASIL_SLOT_START \in Nat /\ ASIL_SLOT_END \in Nat
  /\ STATIC_SLOT_START <= STATIC_SLOT_END
  /\ DYNAMIC_SLOT_START <= DYNAMIC_SLOT_END
  /\ ASIL_SLOT_START <= ASIL_SLOT_END
BY PoolsAssumption DEF Alloc!PoolAssumption

LEMMA BoundsNat == MaxDocs \in Nat /\ MaxInstances \in Nat
BY NamesAssumption

(* A function on 1 .. n is a sequence. *)
LEMMA FunIsSeq ==
  ASSUME NEW S, NEW n \in Nat, NEW x \in [1 .. n -> S]
  PROVE  x \in Seq(S) /\ Len(x) = n
OBVIOUS

(* A sequence is the tail of any concatenation that ends with it. *)
LEMMA ConcatTail ==
  ASSUME NEW S, NEW a \in Seq(S), NEW p \in Seq(S)
  PROVE  /\ Len(p) <= Len(a \o p)
         /\ \A k \in 1 .. Len(p) : (a \o p)[Len(a \o p) - Len(p) + k] = p[k]
OBVIOUS

(* An element of a sequence, and its position counted from 0. *)
LEMMA SeqElem ==
  ASSUME NEW S, NEW bs \in Seq(S), NEW m \in Nat, Len(bs) <= m,
         NEW k \in 1 .. Len(bs)
  PROVE  bs[k] \in S /\ k - 1 \in 0 .. m - 1
OBVIOUS

(* The list of input paths is a non-empty sequence of documents. *)
LEMMA DocListsSeq ==
  ASSUME NEW x \in DocLists PROVE x \in Seq(Document) /\ Len(x) \in Nat
<1>1. PICK n \in 1 .. MaxDocs : x \in [1 .. n -> Document]
  BY DEF DocLists
<1>2. n \in Nat
  BY <1>1, BoundsNat
<1>. QED  BY <1>1, <1>2, FunIsSeq

(* A record built from a binding at a position within the bound is one of *)
(* the ServiceDefinition records.                                          *)
LEMMA MakeRecordType ==
  ASSUME NEW b \in Binding, NEW pos \in 0 .. MaxInstances - 1
  PROVE  MakeRecord(b, pos) \in ServiceRecord
<1>. DEFINE name == IF b.ref # "" THEN b.ref ELSE Placeholder(pos)
<1>1. name \in AllNames
  BY DEF Binding, AllNames
<1>2. ServiceIdOf(name) \in {ServiceIdOf(n) : n \in AllNames}
  BY <1>1
<1>3. (IF b.iid = Absent THEN pos ELSE b.iid) \in InstanceIds \cup (0 .. MaxInstances - 1)
  BY DEF Binding
<1>4. SafetyLevel(name) \in {"QM", "ASIL-D"}
  BY DEF SafetyLevel
<1>. QED  BY <1>1, <1>2, <1>3, <1>4 DEF MakeRecord, ServiceRecord

(* What _find_service_instances yields for a document: a list of bindings *)
(* no longer than the document's own.                                      *)
LEMMA ExtractedType ==
  ASSUME NEW doc \in Document
  PROVE  /\ Extracted(doc) \in Seq(Binding)
         /\ Len(Extracted(doc)) = Len(doc.instances)
<1>1. doc.instances \in Seq(Binding) /\ Len(doc.instances) <= MaxInstances
  BY DocumentAssumption
<1>2. [ref |-> "", iid |-> Absent] \in Binding
  BY DEF Binding
<1>3. CASE doc.ns
  <2>1. Len(doc.instances) \in Nat
    BY <1>1
  <2>2. [k \in 1 .. Len(doc.instances) |-> [ref |-> "", iid |-> Absent]]
          \in [1 .. Len(doc.instances) -> Binding]
    BY <1>2
  <2>. QED  BY <1>3, <2>1, <2>2, FunIsSeq DEF Extracted
<1>4. CASE ~doc.ns
  BY <1>1, <1>4 DEF Extracted
<1>. QED  BY <1>3, <1>4

(* _combine_definitions of a document yields ServiceDefinition records. *)
LEMMA CombineType ==
  ASSUME NEW doc \in Document
  PROVE  CombineDefinitions(doc) \in Seq(ServiceRecord)
<1>. DEFINE bs == Extracted(doc)
<1>1. bs \in Seq(Binding) /\ Len(bs) <= MaxInstances
  BY ExtractedType, DocumentAssumption
<1>2. ASSUME NEW k \in 1 .. Len(bs) PROVE MakeRecord(bs[k], k - 1) \in ServiceRecord
  <2>1. bs[k] \in Binding /\ k - 1 \in 0 .. MaxInstances - 1
    BY <1>1, BoundsNat, SeqElem
  <2>. QED  BY <2>1, MakeRecordType
<1>. QED  BY <1>1, <1>2 DEF CombineDefinitions


(* The service record generate() visits is a ServiceDefinition record    *)
(* with a natural hash.                                                    *)
LEMMA CurrentType ==
  ASSUME TypeOK, Alloc!Visiting
  PROVE  /\ Alloc!Current \in ServiceRecord
         /\ Alloc!Current.service_id \in Nat
<1>1. Alloc!Current \in ServiceRecord
  BY DEF TypeOK, Alloc!TypeOK, Alloc!Visiting, Alloc!Current
<1>2. \A r \in ServiceRecord : r.service_id \in Nat
  BY ServiceIdAssumption DEF ServiceRecord
<1>. QED  BY <1>1, <1>2

(* The allocator's emit step keeps every bucket a sequence of entries. *)
LEMMA EmitType ==
  ASSUME TypeOK, NEW svc \in ServiceRecord, NEW slot \in Nat, Alloc!Emit(svc, slot)
  PROVE  /\ static_allocations' \in Seq(Alloc!Entry)
         /\ dynamic_allocations' \in Seq(Alloc!Entry)
         /\ asil_allocations' \in Seq(Alloc!Entry)
<1>. DEFINE e == [slot |-> slot, svc |-> svc]
<1>1. e \in Alloc!Entry
  BY DEF Alloc!Entry
<1>2. /\ static_allocations \in Seq(Alloc!Entry)
      /\ dynamic_allocations \in Seq(Alloc!Entry)
      /\ asil_allocations \in Seq(Alloc!Entry)
  BY DEF TypeOK, Alloc!TypeOK
<1>3. /\ Append(static_allocations, e) \in Seq(Alloc!Entry)
      /\ Append(dynamic_allocations, e) \in Seq(Alloc!Entry)
      /\ Append(asil_allocations, e) \in Seq(Alloc!Entry)
  BY <1>1, <1>2
<1>. QED  BY <1>2, <1>3 DEF Alloc!Emit

-----------------------------------------------------------------------------
(* Type correctness. *)

LEMMA InitTypeOK == Init => TypeOK
<1>. SUFFICES ASSUME Init PROVE TypeOK
  OBVIOUS
<1>1. docs \in Seq(Document) /\ Len(docs) \in Nat
  BY DocListsSeq DEF Init
<1>2. Alloc!TypeOK
  BY PoolFacts DEF Init, Alloc!InitAllocator, Alloc!TypeOK, Alloc!Strategies
<1>. QED  BY <1>1, <1>2 DEF Init, TypeOK

(* One step of generate() or save() keeps the allocator well typed. *)
LEMMA GenerateTypeOK ==
  ASSUME TypeOK, Generate PROVE Alloc!TypeOK'
<1>. USE PoolFacts
<1>1. CASE Alloc!AllocateAsil
  <2>1. Alloc!Visiting /\ Alloc!Current \in ServiceRecord
    BY <1>1, CurrentType DEF Alloc!AllocateAsil
  <2>2. next_asil_slot \in Nat
    BY DEF TypeOK, Alloc!TypeOK
  <2>3. /\ static_allocations' \in Seq(Alloc!Entry)
        /\ dynamic_allocations' \in Seq(Alloc!Entry)
        /\ asil_allocations' \in Seq(Alloc!Entry)
    BY <1>1, <2>1, <2>2, EmitType DEF Alloc!AllocateAsil
  <2>. QED  BY <1>1, <2>2, <2>3 DEF Alloc!AllocateAsil, Alloc!Visiting,
                                    TypeOK, Alloc!TypeOK
<1>2. CASE Alloc!AsilExhausted \/ Alloc!DynamicExhausted \/ Alloc!Save
  BY <1>2 DEF Alloc!AsilExhausted, Alloc!DynamicExhausted, Alloc!Save,
              TypeOK, Alloc!TypeOK
<1>3. CASE Alloc!AllocateStatic
  <2>1. Alloc!Visiting /\ Alloc!Current \in ServiceRecord
        /\ Alloc!Current.service_id \in Nat
    BY <1>3, CurrentType DEF Alloc!AllocateStatic
  <2>2. Alloc!StaticSlot(Alloc!Current) \in Nat
    BY <2>1 DEF Alloc!StaticSlot
  <2>3. /\ static_allocations' \in Seq(Alloc!Entry)
        /\ dynamic_allocations' \in Seq(Alloc!Entry)
        /\ asil_allocations' \in Seq(Alloc!Entry)
    BY <1>3, <2>1, <2>2, EmitType DEF Alloc!AllocateStatic
  <2>. QED  BY <1>3, <2>3 DEF Alloc!AllocateStatic, Alloc!Visiting,
                              TypeOK, Alloc!TypeOK
<1>4. CASE Alloc!AllocateDynamic
  <2>1. Alloc!Visiting /\ Alloc!Current \in ServiceRecord
    BY <1>4, CurrentType DEF Alloc!AllocateDynamic
  <2>2. next_dynamic_slot \in Nat
    BY DEF TypeOK, Alloc!TypeOK
  <2>3. /\ static_allocations' \in Seq(Alloc!Entry)
        /\ dynamic_allocations' \in Seq(Alloc!Entry)
        /\ asil_allocations' \in Seq(Alloc!Entry)
    BY <1>4, <2>1, <2>2, EmitType DEF Alloc!AllocateDynamic
  <2>. QED  BY <1>4, <2>2, <2>3 DEF Alloc!AllocateDynamic, Alloc!Visiting,
                                    TypeOK, Alloc!TypeOK
<1>. QED  BY <1>1, <1>2, <1>3, <1>4 DEF Generate

(* parse_file() and main() extend their lists by well-typed records. *)
LEMMA ParseFileTypeOK ==
  ASSUME TypeOK, ParseFile PROVE TypeOK'
<1>1. docs \in Seq(Document) /\ d \in 1 .. Len(docs)
  BY DocListsSeq DEF ParseFile, Reading, TypeOK
<1>. DEFINE recs == CombineDefinitions(docs[d])
<1>2. recs \in Seq(ServiceRecord)
  BY <1>1, CombineType
<1>3. /\ parser_services' \in Seq(ServiceRecord)
      /\ reconciled' \in Seq(ServiceRecord)
      /\ all_services' \in Seq(ServiceRecord)
  BY <1>2 DEF ParseFile, TypeOK
<1>4. Len(all_services') >= Len(all_services)
  BY <1>3 DEF ParseFile, TypeOK
<1>5. d' \in 1 .. Len(docs') + 1
  BY <1>1 DEF ParseFile
<1>6. Alloc!TypeOK'
  BY <1>3, <1>4 DEF ParseFile, TypeOK, Alloc!TypeOK, allocVars
<1>. QED  BY <1>3, <1>5, <1>6 DEF ParseFile, TypeOK

LEMMA NextTypeOK == TypeOK /\ [Next]_vars => TypeOK'
<1>. SUFFICES ASSUME TypeOK, [Next]_vars PROVE TypeOK'
  OBVIOUS
<1>1. CASE SkipMissing \/ SkipMalformed
  <2>1. d' \in 1 .. Len(docs') + 1
    BY <1>1 DEF SkipMissing, SkipMalformed, Reading, TypeOK
  <2>2. Alloc!TypeOK'
    BY <1>1 DEF SkipMissing, SkipMalformed, TypeOK, Alloc!TypeOK, allocVars
  <2>. QED  BY <1>1, <2>1, <2>2 DEF SkipMissing, SkipMalformed, TypeOK
<1>2. CASE ExtractionRaises \/ NoServices \/ StartGeneration
  BY <1>2 DEF ExtractionRaises, NoServices, StartGeneration, TypeOK,
              Alloc!TypeOK, allocVars
<1>3. CASE ParseFile
  BY <1>3, ParseFileTypeOK
<1>4. CASE Generate
  BY <1>4, GenerateTypeOK DEF Generate, TypeOK, parseVars
<1>5. CASE UNCHANGED vars
  BY <1>5 DEF vars, parseVars, allocVars, TypeOK, Alloc!TypeOK
<1>. QED  BY <1>1, <1>2, <1>3, <1>4, <1>5 DEF Next

(* Every reachable state of the pipeline is well typed: the records are  *)
(* ServiceDefinition records and the allocator's cursors stay within one *)
(* past their pools.                                                       *)
THEOREM TypeCorrect == Spec => []TypeOK
BY InitTypeOK, NextTypeOK, PTL DEF Spec

-----------------------------------------------------------------------------
(* The output reflects what was reconciled, through IInv. *)

(* Some bucket of the output holds an entry for the record x. *)
InBuckets(x) ==
  \E b \in 1 .. 3 : \E j \in 1 .. Len(Alloc!buckets[b]) : Alloc!buckets[b][j].svc = x

(* The three buckets by name. *)
LEMMA InBucketsByName ==
  ASSUME NEW x
  PROVE  /\ InBuckets(x) <=>
              \/ \E j \in 1 .. Len(static_allocations) : static_allocations[j].svc = x
              \/ \E j \in 1 .. Len(dynamic_allocations) : dynamic_allocations[j].svc = x
              \/ \E j \in 1 .. Len(asil_allocations) : asil_allocations[j].svc = x
         /\ InBuckets(x)' <=>
              \/ \E j \in 1 .. Len(static_allocations') : static_allocations'[j].svc = x
              \/ \E j \in 1 .. Len(dynamic_allocations') : dynamic_allocations'[j].svc = x
              \/ \E j \in 1 .. Len(asil_allocations') : asil_allocations'[j].svc = x
<1>1. \A b \in 1 .. 3 : b = 1 \/ b = 2 \/ b = 3
  OBVIOUS
<1>. QED  BY <1>1 DEF InBuckets, Alloc!buckets

(* Appending to a sequence keeps what it held and adds the new element. *)
LEMMA AppendKeeps ==
  ASSUME NEW S, NEW q \in Seq(S), NEW e \in S, NEW x
  PROVE  /\ (\E j \in 1 .. Len(q) : q[j].svc = x)
              => \E j \in 1 .. Len(Append(q, e)) : Append(q, e)[j].svc = x
         /\ \E j \in 1 .. Len(Append(q, e)) : Append(q, e)[j].svc = e.svc
OBVIOUS

(* An emit step keeps every entry and adds one for the service emitted. *)
LEMMA EmitKeeps ==
  ASSUME TypeOK, NEW svc \in ServiceRecord, NEW slot \in Nat, Alloc!Emit(svc, slot)
  PROVE  /\ InBuckets(svc)'
         /\ \A x : InBuckets(x) => InBuckets(x)'
<1>. DEFINE e == [slot |-> slot, svc |-> svc]
<1>1. e \in Alloc!Entry /\ e.svc = svc
  BY DEF Alloc!Entry
<1>2. /\ static_allocations \in Seq(Alloc!Entry)
      /\ dynamic_allocations \in Seq(Alloc!Entry)
      /\ asil_allocations \in Seq(Alloc!Entry)
  BY DEF TypeOK, Alloc!TypeOK
<1>3. ASSUME NEW q \in Seq(Alloc!Entry), NEW x
      PROVE  /\ (\E j \in 1 .. Len(q) : q[j].svc = x)
                => \E j \in 1 .. Len(Append(q, e)) : Append(q, e)[j].svc = x
             /\ \E j \in 1 .. Len(Append(q, e)) : Append(q, e)[j].svc = svc
  BY <1>1, AppendKeeps
<1>4. CASE svc.safety_level = "ASIL-D"
  <2>1. asil_allocations' = Append(asil_allocations, e)
        /\ UNCHANGED <<static_allocations, dynamic_allocations>>
    BY <1>4 DEF Alloc!Emit
  <2>2. InBuckets(svc)'
    BY <1>2, <1>3, <2>1, InBucketsByName
  <2>3. ASSUME NEW x, InBuckets(x) PROVE InBuckets(x)'
    BY <1>2, <1>3, <2>1, <2>3, InBucketsByName
  <2>. QED  BY <2>2, <2>3
<1>5. CASE svc.safety_level # "ASIL-D" /\ (svc.category = "static" \/ slot <= STATIC_SLOT_END)
  <2>1. static_allocations' = Append(static_allocations, e)
        /\ UNCHANGED <<dynamic_allocations, asil_allocations>>
    BY <1>5 DEF Alloc!Emit
  <2>2. InBuckets(svc)'
    BY <1>2, <1>3, <2>1, InBucketsByName
  <2>3. ASSUME NEW x, InBuckets(x) PROVE InBuckets(x)'
    BY <1>2, <1>3, <2>1, <2>3, InBucketsByName
  <2>. QED  BY <2>2, <2>3
<1>6. CASE svc.safety_level # "ASIL-D" /\ ~(svc.category = "static" \/ slot <= STATIC_SLOT_END)
  <2>1. dynamic_allocations' = Append(dynamic_allocations, e)
        /\ UNCHANGED <<static_allocations, asil_allocations>>
    BY <1>6 DEF Alloc!Emit
  <2>2. InBuckets(svc)'
    BY <1>2, <1>3, <2>1, InBucketsByName
  <2>3. ASSUME NEW x, InBuckets(x) PROVE InBuckets(x)'
    BY <1>2, <1>3, <2>1, <2>3, InBucketsByName
  <2>. QED  BY <2>2, <2>3
<1>. QED  BY <1>4, <1>5, <1>6

LEMMA InitIInv == Init => IInv
<1>. SUFFICES ASSUME Init PROVE IInv
  OBVIOUS
<1>1. TypeOK
  BY InitTypeOK
<1>. QED  BY <1>1 DEF Init, Alloc!InitAllocator, IInv, ParserHoldsReconciled,
                     ReconciledIsSuffix, AllocatorIdle, Alloc!SavedAtEnd,
                     VisitedEmitted

(* A step of generate() that emits the visited service keeps the parts   *)
(* of IInv beyond the types.                                               *)
LEMMA EmitStepIInv ==
  ASSUME IInv, phase = "allocating", UNCHANGED parseVars,
         NEW c \in ServiceRecord, NEW sl \in Nat,
         Alloc!Visiting, c = Alloc!Current, Alloc!Emit(c, sl),
         i' = i + 1, UNCHANGED status
  PROVE  /\ AllocatorIdle'
         /\ Alloc!SavedAtEnd'
         /\ VisitedEmitted'
<1>1. /\ InBuckets(c)'
      /\ \A x : InBuckets(x) => InBuckets(x)'
  BY EmitKeeps DEF IInv
<1>2. i \in 1 .. Len(all_services) /\ status = "generating"
  BY DEF IInv, TypeOK, Alloc!TypeOK, Alloc!Visiting
<1>3. ASSUME NEW m \in 1 .. i
      PROVE  \E x : x = all_services'[m] /\ InBuckets(x)'
  <2>1. PICK x : x = all_services[m]
    OBVIOUS
  <2>2. CASE m < i
    <3>1. InBuckets(x)
      BY <1>2, <2>1, <2>2 DEF IInv, VisitedEmitted, InBuckets
    <3>. QED  BY <1>1, <2>1, <3>1 DEF parseVars
  <2>3. CASE m = i
    <3>1. x = c
      BY <2>1, <2>3 DEF Alloc!Current
    <3>. QED  BY <1>1, <2>1, <3>1 DEF parseVars
  <2>. QED  BY <1>2, <2>2, <2>3
<1>4. VisitedEmitted'
  <2>1. SUFFICES ASSUME NEW m \in 1 .. i' - 1
                 PROVE  \E b \in 1 .. 3 : \E j \in 1 .. Len(Alloc!buckets[b]') :
                          Alloc!buckets[b]'[j].svc = all_services'[m]
    BY DEF VisitedEmitted
  <2>2. m \in 1 .. i
    BY <1>2
  <2>3. PICK x : x = all_services'[m] /\ InBuckets(x)'
    BY <1>3, <2>2
  <2>. QED  BY <2>3 DEF InBuckets
<1>. QED  BY <1>2, <1>4 DEF AllocatorIdle, Alloc!SavedAtEnd, parseVars

(* One step of generate() or save() keeps IInv. *)
LEMMA GenerateIInv ==
  ASSUME IInv, Generate PROVE IInv'
<1>. USE PoolFacts
<1>1. TypeOK'
  BY NextTypeOK DEF IInv, Next
<1>2. ParserHoldsReconciled' /\ ReconciledIsSuffix'
  BY DEF Generate, parseVars, IInv, ParserHoldsReconciled, ReconciledIsSuffix
<1>3. phase = "allocating" /\ UNCHANGED parseVars
  BY DEF Generate
<1>4. SUFFICES AllocatorIdle' /\ Alloc!SavedAtEnd' /\ VisitedEmitted'
  BY <1>1, <1>2 DEF IInv
<1>5. CASE Alloc!AllocateAsil
  <2>1. Alloc!Visiting /\ Alloc!Current \in ServiceRecord
    BY <1>5, CurrentType DEF IInv, Alloc!AllocateAsil
  <2>2. PICK c \in ServiceRecord : c = Alloc!Current
    BY <2>1
  <2>3. PICK sl \in Nat : sl = next_asil_slot
    BY DEF IInv, TypeOK, Alloc!TypeOK
  <2>. QED  BY <1>3, <1>5, <2>1, <2>2, <2>3, EmitStepIInv DEF Alloc!AllocateAsil
<1>6. CASE Alloc!AllocateStatic
  <2>1. /\ Alloc!Visiting /\ Alloc!Current \in ServiceRecord
        /\ Alloc!Current.service_id \in Nat
    BY <1>6, CurrentType DEF IInv, Alloc!AllocateStatic
  <2>2. PICK c \in ServiceRecord : c = Alloc!Current
    BY <2>1
  <2>3. PICK sl \in Nat : sl = Alloc!StaticSlot(Alloc!Current)
    BY <2>1 DEF Alloc!StaticSlot
  <2>. QED  BY <1>3, <1>6, <2>1, <2>2, <2>3, EmitStepIInv DEF Alloc!AllocateStatic
<1>7. CASE Alloc!AllocateDynamic
  <2>1. Alloc!Visiting /\ Alloc!Current \in ServiceRecord
    BY <1>7, CurrentType DEF IInv, Alloc!AllocateDynamic
  <2>2. PICK c \in ServiceRecord : c = Alloc!Current
    BY <2>1
  <2>3. PICK sl \in Nat : sl = next_dynamic_slot
    BY DEF IInv, TypeOK, Alloc!TypeOK
  <2>. QED  BY <1>3, <1>7, <2>1, <2>2, <2>3, EmitStepIInv DEF Alloc!AllocateDynamic
<1>8. ASSUME Alloc!AsilExhausted \/ Alloc!DynamicExhausted \/ Alloc!Save
      PROVE  AllocatorIdle' /\ VisitedEmitted'
  <2>1. /\ UNCHANGED <<i, static_allocations, dynamic_allocations, asil_allocations>>
        /\ UNCHANGED <<all_services, phase>>
    BY <1>3, <1>8 DEF Alloc!AsilExhausted, Alloc!DynamicExhausted, Alloc!Save,
                      parseVars
  <2>2. AllocatorIdle'
    BY <1>3, <2>1 DEF AllocatorIdle
  <2>3. VisitedEmitted'
    BY <2>1 DEF IInv, VisitedEmitted, Alloc!buckets
  <2>. QED  BY <2>2, <2>3
<1>9. CASE Alloc!AsilExhausted \/ Alloc!DynamicExhausted
  <2>1. Alloc!SavedAtEnd'
    BY <1>9 DEF Alloc!AsilExhausted, Alloc!DynamicExhausted, Alloc!SavedAtEnd
  <2>. QED  BY <1>8, <1>9, <2>1
<1>10. CASE Alloc!Save
  <2>1. i \in 1 .. Len(all_services) + 1
    BY DEF IInv, TypeOK, Alloc!TypeOK
  <2>2. Alloc!SavedAtEnd'
    BY <1>10, <2>1 DEF Alloc!Save, Alloc!SavedAtEnd
  <2>. QED  BY <1>8, <1>10, <2>2
<1>. QED  BY <1>5, <1>6, <1>7, <1>9, <1>10 DEF Generate

(* parse_file() and main() extend the parser's list, the history and     *)
(* all_services so that the history stays the tail of all_services.       *)
LEMMA ParseFileIInv ==
  ASSUME IInv, ParseFile PROVE IInv'
<1>1. TypeOK'
  BY NextTypeOK DEF IInv, Next
<1>2. /\ docs \in Seq(Document) /\ d \in 1 .. Len(docs)
      /\ parser_services \in Seq(ServiceRecord)
      /\ all_services \in Seq(ServiceRecord)
      /\ parser_services = reconciled
      /\ phase = "parsing" /\ i = 1 /\ status = "generating"
  BY DocListsSeq DEF IInv, TypeOK, ParseFile, Reading, ParserHoldsReconciled,
                     AllocatorIdle
<1>. DEFINE recs == CombineDefinitions(docs[d])
<1>3. recs \in Seq(ServiceRecord)
  BY <1>2, CombineType
<1>4. /\ parser_services' = parser_services \o recs
      /\ reconciled' = parser_services'
      /\ all_services' = all_services \o parser_services'
  BY <1>2 DEF ParseFile
<1>5. ParserHoldsReconciled'
  BY <1>4 DEF ParserHoldsReconciled
<1>6. ReconciledIsSuffix'
  <2>1. parser_services' \in Seq(ServiceRecord)
    BY <1>2, <1>3, <1>4
  <2>2. /\ Len(parser_services') <= Len(all_services \o parser_services')
        /\ \A k \in 1 .. Len(parser_services') :
             (all_services \o parser_services')[Len(all_services \o parser_services')
                                                - Len(parser_services') + k]
               = parser_services'[k]
    BY <1>2, <2>1, ConcatTail
  <2>. QED  BY <1>4, <2>2 DEF ReconciledIsSuffix
<1>7. AllocatorIdle' /\ Alloc!SavedAtEnd' /\ VisitedEmitted'
  BY <1>2 DEF ParseFile, allocVars, AllocatorIdle, Alloc!SavedAtEnd, VisitedEmitted
<1>. QED  BY <1>1, <1>5, <1>6, <1>7 DEF IInv

LEMMA NextIInv == IInv /\ [Next]_vars => IInv'
<1>. SUFFICES ASSUME IInv, [Next]_vars PROVE IInv'
  OBVIOUS
<1>1. TypeOK'
  BY NextTypeOK DEF IInv
<1>2. CASE SkipMissing \/ SkipMalformed \/ ExtractionRaises \/ StartGeneration
  <2>1. /\ UNCHANGED <<parser_services, all_services, reconciled, allocVars>>
        /\ phase = "parsing" /\ phase' # "no_services"
    BY <1>2 DEF SkipMissing, SkipMalformed, ExtractionRaises, StartGeneration,
                Reading
  <2>2. /\ ParserHoldsReconciled' /\ ReconciledIsSuffix'
        /\ Alloc!SavedAtEnd'
    BY <2>1 DEF IInv, ParserHoldsReconciled, ReconciledIsSuffix, allocVars,
                Alloc!SavedAtEnd
  <2>3. AllocatorIdle' /\ VisitedEmitted'
    BY <2>1 DEF IInv, AllocatorIdle, VisitedEmitted, allocVars, Alloc!buckets
  <2>. QED  BY <1>1, <2>2, <2>3 DEF IInv
<1>3. CASE NoServices
  <2>1. /\ UNCHANGED <<parser_services, all_services, reconciled, allocVars>>
        /\ phase = "parsing" /\ phase' = "no_services" /\ all_services = << >>
    BY <1>3 DEF NoServices
  <2>2. /\ ParserHoldsReconciled' /\ ReconciledIsSuffix'
        /\ Alloc!SavedAtEnd'
    BY <2>1 DEF IInv, ParserHoldsReconciled, ReconciledIsSuffix, allocVars,
                Alloc!SavedAtEnd
  <2>3. AllocatorIdle' /\ VisitedEmitted'
    BY <2>1 DEF IInv, AllocatorIdle, VisitedEmitted, allocVars, Alloc!buckets
  <2>. QED  BY <1>1, <2>2, <2>3 DEF IInv
<1>4. CASE ParseFile
  BY <1>4, ParseFileIInv
<1>5. CASE Generate
  BY <1>5, GenerateIInv
<1>6. CASE UNCHANGED vars
  <2>1. UNCHANGED <<parser_services, all_services, reconciled, phase, allocVars>>
    BY <1>6 DEF vars, parseVars
  <2>2. /\ ParserHoldsReconciled' /\ ReconciledIsSuffix'
        /\ Alloc!SavedAtEnd'
    BY <2>1 DEF IInv, ParserHoldsReconciled, ReconciledIsSuffix, allocVars,
                Alloc!SavedAtEnd
  <2>3. AllocatorIdle' /\ VisitedEmitted'
    BY <2>1 DEF IInv, AllocatorIdle, VisitedEmitted, allocVars, Alloc!buckets
  <2>. QED  BY <1>1, <2>2, <2>3 DEF IInv
<1>. QED  BY <1>2, <1>3, <1>4, <1>5, <1>6 DEF Next

(* IInv gives the property: a "no services" exit has an empty history,   *)
(* and once saved every record of the history, a tail of all_services,   *)
(* has been visited and emitted.                                           *)
LEMMA IInvOutput == IInv => OutputReflectsReconciled
<1>. SUFFICES ASSUME IInv PROVE OutputReflectsReconciled
  OBVIOUS
<1>1. /\ all_services \in Seq(ServiceRecord) /\ reconciled \in Seq(ServiceRecord)
      /\ i \in 1 .. Len(all_services) + 1
  BY DEF IInv, TypeOK, Alloc!TypeOK
<1>2. phase = "no_services" => reconciled = << >>
  BY <1>1 DEF IInv, ReconciledIsSuffix, AllocatorIdle
<1>3. ASSUME status = "saved", NEW k \in 1 .. Len(reconciled)
      PROVE  \E b \in 1 .. 3 : \E j \in 1 .. Len(Alloc!buckets[b]) :
               Alloc!buckets[b][j].svc = reconciled[k]
  <2>. DEFINE m == Len(all_services) - Len(reconciled) + k
  <2>1. m \in 1 .. i - 1 /\ all_services[m] = reconciled[k]
    BY <1>1, <1>3 DEF IInv, ReconciledIsSuffix, Alloc!SavedAtEnd
  <2>. QED  BY <2>1 DEF IInv, VisitedEmitted
<1>. QED  BY <1>2, <1>3 DEF OutputReflectsReconciled

(* Whatever the documents and the pool layout, the run gives up with "no *)
(* services" only when no document produced a record, and a written      *)
(* file holds an entry for every record reconciled from every document.  *)
THEOREM OutputReflectsReconciledHolds == Spec => []OutputReflectsReconciled
<1>1. Init => IInv
  BY InitIInv
<1>2. IInv /\ [Next]_vars => IInv'
  BY NextIInv
<1>3. IInv => OutputReflectsReconciled
  BY IInvOutput
<1>. QED  BY <1>1, <1>2, <1>3, PTL DEF Spec

====
