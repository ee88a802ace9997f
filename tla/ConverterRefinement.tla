------------------------- MODULE ConverterRefinement -------------------------
(***************************************************************************)
(* Proof that the converter pipeline implements ConverterSpec under the   *)
(* mapping ConvAbs of Converter, for every pool layout, set of names and  *)
(* documents satisfying the assumptions of Converter.  Reading steps      *)
(* extend all_services; the generation steps are those of the allocator  *)
(* instance Alloc, and mapping them to AllocatorSpec needs the cursor    *)
(* invariant of the allocator (each cursor is its pool start plus the     *)
(* length of its bucket, and the cursor buckets are dense), restated here *)
(* for the allocator as main() drives it.                                 *)
(***************************************************************************)
EXTENDS ConverterProofs

(* The cursor invariant of the allocator inside the pipeline. *)
CursorInv == Alloc!CursorsMatchBuckets /\ Alloc!DenseCursorAllocation

(* Emit appends the entry to exactly one bucket, chosen as generate()     *)
(* chooses it.                                                             *)
LEMMA EmitBucket ==
  ASSUME NEW svc, NEW slot, Alloc!Emit(svc, slot)
  PROVE  LET e == [slot |-> slot, svc |-> svc] IN
         \/ /\ svc.safety_level = "ASIL-D"
            /\ asil_allocations' = Append(asil_allocations, e)
            /\ UNCHANGED <<static_allocations, dynamic_allocations>>
         \/ /\ svc.safety_level # "ASIL-D"
            /\ svc.category = "static" \/ slot <= STATIC_SLOT_END
            /\ static_allocations' = Append(static_allocations, e)
            /\ UNCHANGED <<dynamic_allocations, asil_allocations>>
         \/ /\ svc.safety_level # "ASIL-D"
            /\ ~(svc.category = "static" \/ slot <= STATIC_SLOT_END)
            /\ dynamic_allocations' = Append(dynamic_allocations, e)
            /\ UNCHANGED <<static_allocations, asil_allocations>>
BY DEF Alloc!Emit

(* The reconciler leaves every record's category at "dynamic". *)
LEMMA RecordFields ==
  ASSUME NEW r \in ServiceRecord
  PROVE  /\ r.category = "dynamic"
         /\ r.service_id \in Nat
BY ServiceIdAssumption DEF ServiceRecord

(* The hash bucket lies in the static pool. *)
LEMMA StaticSlotBound ==
  ASSUME NEW svc, svc.service_id \in Nat
  PROVE  Alloc!StaticSlot(svc) \in STATIC_SLOT_START .. STATIC_SLOT_END
BY PoolFacts DEF Alloc!StaticSlot

(* The pools are ordered: the dynamic pool lies above the static one. *)
LEMMA PoolOrder == STATIC_SLOT_END < DYNAMIC_SLOT_START /\ DYNAMIC_SLOT_END < ASIL_SLOT_START
BY PoolsAssumption DEF Alloc!PoolAssumption

LEMMA InitCursorInv == Init => CursorInv
BY PoolFacts DEF Init, Alloc!InitAllocator, CursorInv, Alloc!CursorsMatchBuckets,
       Alloc!DenseCursorAllocation

(* The buckets and cursors as sequences and numbers. *)
LEMMA AllocShapes ==
  ASSUME TypeOK
  PROVE  /\ static_allocations \in Seq(Alloc!Entry)
         /\ dynamic_allocations \in Seq(Alloc!Entry)
         /\ asil_allocations \in Seq(Alloc!Entry)
         /\ next_dynamic_slot \in Nat /\ next_asil_slot \in Nat
BY PoolFacts DEF TypeOK, Alloc!TypeOK

(* AllocateAsil appends the ASIL cursor slot to the ASIL bucket. *)
LEMMA AllocateAsilCursorInv ==
  ASSUME TypeOK, CursorInv, Alloc!AllocateAsil PROVE CursorInv'
<1>. DEFINE e == [slot |-> next_asil_slot, svc |-> Alloc!Current]
<1>1. /\ asil_allocations' = Append(asil_allocations, e)
      /\ UNCHANGED <<static_allocations, dynamic_allocations>>
  BY EmitBucket DEF Alloc!AllocateAsil
<1>0. /\ asil_allocations \in Seq(Alloc!Entry)
      /\ next_dynamic_slot \in Nat /\ next_asil_slot \in Nat
  BY AllocShapes
<1>2. Alloc!CursorsMatchBuckets'
  BY <1>0, <1>1, PoolFacts DEF CursorInv, Alloc!CursorsMatchBuckets, Alloc!AllocateAsil
<1>3. Alloc!DenseCursorAllocation'
  BY <1>0, <1>1, PoolFacts DEF CursorInv, Alloc!CursorsMatchBuckets,
                    Alloc!DenseCursorAllocation
<1>. QED  BY <1>2, <1>3 DEF CursorInv

(* AllocateStatic files a hash slot into the static bucket. *)
LEMMA AllocateStaticCursorInv ==
  ASSUME TypeOK, CursorInv, Alloc!AllocateStatic PROVE CursorInv'
<1>1. Alloc!Current \in ServiceRecord
  BY CurrentType DEF Alloc!AllocateStatic
<1>2. Alloc!StaticSlot(Alloc!Current) <= STATIC_SLOT_END
  BY <1>1, RecordFields, StaticSlotBound
<1>3. UNCHANGED <<dynamic_allocations, asil_allocations>>
  BY <1>2, EmitBucket DEF Alloc!AllocateStatic
<1>. QED  BY <1>3 DEF Alloc!AllocateStatic, CursorInv,
                      Alloc!CursorsMatchBuckets, Alloc!DenseCursorAllocation

(* AllocateDynamic files the dynamic cursor slot, which lies above the   *)
(* static pool, into the dynamic bucket.                                  *)
LEMMA AllocateDynamicCursorInv ==
  ASSUME TypeOK, CursorInv, Alloc!AllocateDynamic PROVE CursorInv'
<1>. DEFINE e == [slot |-> next_dynamic_slot, svc |-> Alloc!Current]
<1>1. Alloc!Current \in ServiceRecord
  BY CurrentType DEF Alloc!AllocateDynamic
<1>2. ~(Alloc!Current.category = "static" \/ next_dynamic_slot <= STATIC_SLOT_END)
  BY <1>1, RecordFields, PoolFacts, PoolOrder DEF TypeOK, Alloc!TypeOK
<1>3. /\ dynamic_allocations' = Append(dynamic_allocations, e)
      /\ UNCHANGED <<static_allocations, asil_allocations>>
  BY <1>2, EmitBucket DEF Alloc!AllocateDynamic
<1>0. /\ dynamic_allocations \in Seq(Alloc!Entry)
      /\ next_dynamic_slot \in Nat /\ next_asil_slot \in Nat
  BY AllocShapes
<1>4. Alloc!CursorsMatchBuckets'
  BY <1>0, <1>3, PoolFacts DEF CursorInv, Alloc!CursorsMatchBuckets, Alloc!AllocateDynamic
<1>5. Alloc!DenseCursorAllocation'
  <2>1. \A j \in 1 .. Len(dynamic_allocations') :
          dynamic_allocations'[j].slot = DYNAMIC_SLOT_START + j - 1
    <3>. SUFFICES ASSUME NEW j \in 1 .. Len(dynamic_allocations')
                  PROVE  dynamic_allocations'[j].slot = DYNAMIC_SLOT_START + j - 1
      OBVIOUS
    <3>1. Len(dynamic_allocations') = Len(dynamic_allocations) + 1
      BY <1>0, <1>3
    <3>2. CASE j <= Len(dynamic_allocations)
      BY <1>0, <1>3, <3>2 DEF CursorInv, Alloc!DenseCursorAllocation
    <3>3. CASE j = Len(dynamic_allocations) + 1
      BY <1>0, <1>3, <3>3 DEF CursorInv, Alloc!CursorsMatchBuckets
    <3>. QED  BY <3>1, <3>2, <3>3
  <2>2. \A j \in 1 .. Len(asil_allocations') :
          asil_allocations'[j].slot = ASIL_SLOT_START + j - 1
    BY <1>3 DEF CursorInv, Alloc!DenseCursorAllocation
  <2>. QED  BY <2>1, <2>2 DEF Alloc!DenseCursorAllocation
<1>. QED  BY <1>4, <1>5 DEF CursorInv

LEMMA NextCursorInv ==
  ASSUME TypeOK, CursorInv, [Next]_vars PROVE CursorInv'
<1>1. CASE Generate
  <2>1. CASE Alloc!AllocateAsil
    BY <2>1, AllocateAsilCursorInv
  <2>2. CASE Alloc!AllocateStatic
    BY <2>2, AllocateStaticCursorInv
  <2>3. CASE Alloc!AllocateDynamic
    BY <2>3, AllocateDynamicCursorInv
  <2>4. CASE Alloc!AsilExhausted \/ Alloc!DynamicExhausted \/ Alloc!Save
    BY <2>4 DEF Alloc!AsilExhausted, Alloc!DynamicExhausted, Alloc!Save,
                CursorInv, Alloc!CursorsMatchBuckets, Alloc!DenseCursorAllocation
  <2>. QED  BY <1>1, <2>1, <2>2, <2>3, <2>4 DEF Generate
<1>2. CASE ~Generate
  <2>1. UNCHANGED allocVars
    BY <1>2 DEF Next, SkipMissing, SkipMalformed, ExtractionRaises, ParseFile,
                NoServices, StartGeneration, vars
  <2>. QED  BY <2>1 DEF allocVars, CursorInv, Alloc!CursorsMatchBuckets,
                        Alloc!DenseCursorAllocation
<1>. QED  BY <1>1, <1>2

-----------------------------------------------------------------------------
(* The generation steps mapped to steps of AllocatorSpec on all_services. *)

(* Appending an entry adds its slot to the slots of a bucket. *)
LEMMA SlotsInAppend ==
  ASSUME NEW S, NEW b \in Seq(S), NEW e
  PROVE  Alloc!SlotsIn(Append(b, e)) = Alloc!SlotsIn(b) \cup {e.slot}
<1>1. DOMAIN Append(b, e) = (DOMAIN b) \cup {Len(b) + 1}
  OBVIOUS
<1>2. \A j \in DOMAIN b : Append(b, e)[j] = b[j]
  OBVIOUS
<1>3. Append(b, e)[Len(b) + 1] = e
  OBVIOUS
<1>. QED  BY <1>1, <1>2, <1>3 DEF Alloc!SlotsIn

(* A dense bucket of length len from start holds exactly the slots       *)
(* start .. start + len - 1.                                               *)
LEMMA DenseSlotsIn ==
  ASSUME NEW S, NEW b \in Seq(S), NEW start \in Nat,
         \A j \in 1 .. Len(b) : b[j].slot = start + j - 1
  PROVE  Alloc!SlotsIn(b) = start .. start + Len(b) - 1
<1>1. Alloc!SlotsIn(b) \subseteq start .. start + Len(b) - 1
  BY DEF Alloc!SlotsIn
<1>2. ASSUME NEW x \in start .. start + Len(b) - 1 PROVE x \in Alloc!SlotsIn(b)
  <2>1. x - start + 1 \in DOMAIN b /\ b[x - start + 1].slot = x
    OBVIOUS
  <2>. QED  BY <2>1 DEF Alloc!SlotsIn
<1>. QED  BY <1>1, <1>2

(* The slots a cursor pool has handed out are the interval from its      *)
(* start up to, and excluding, its cursor.                                 *)
LEMMA CursorSlotsIn ==
  ASSUME TypeOK, CursorInv
  PROVE  /\ Alloc!SlotsIn(asil_allocations) = ASIL_SLOT_START .. next_asil_slot - 1
         /\ Alloc!SlotsIn(dynamic_allocations)
              = DYNAMIC_SLOT_START .. next_dynamic_slot - 1
<1>1. /\ asil_allocations \in Seq(Alloc!Entry)
      /\ dynamic_allocations \in Seq(Alloc!Entry)
  BY AllocShapes
<1>2. Alloc!SlotsIn(asil_allocations)
        = ASIL_SLOT_START .. ASIL_SLOT_START + Len(asil_allocations) - 1
  <2>1. \A j \in 1 .. Len(asil_allocations) :
          asil_allocations[j].slot = ASIL_SLOT_START + j - 1
    BY DEF CursorInv, Alloc!DenseCursorAllocation
  <2>. QED  BY <1>1, <2>1, PoolFacts, DenseSlotsIn
<1>3. Alloc!SlotsIn(dynamic_allocations)
        = DYNAMIC_SLOT_START .. DYNAMIC_SLOT_START + Len(dynamic_allocations) - 1
  <2>1. \A j \in 1 .. Len(dynamic_allocations) :
          dynamic_allocations[j].slot = DYNAMIC_SLOT_START + j - 1
    BY DEF CursorInv, Alloc!DenseCursorAllocation
  <2>. QED  BY <1>1, <2>1, PoolFacts, DenseSlotsIn
<1>4. /\ next_asil_slot - 1 = ASIL_SLOT_START + Len(asil_allocations) - 1
      /\ next_dynamic_slot - 1
           = DYNAMIC_SLOT_START + Len(dynamic_allocations) - 1
  BY <1>1, PoolFacts DEF CursorInv, Alloc!CursorsMatchBuckets
<1>. QED  BY <1>2, <1>3, <1>4, Zenon

(* The record generate() visits is the one the spec has pending. *)
LEMMA VisitingPending ==
  ASSUME TypeOK, Alloc!Visiting
  PROVE  ConvAbs!Gen!Pending /\ ConvAbs!Gen!Waiting = Alloc!Current
BY DEF TypeOK, Alloc!TypeOK, Alloc!Visiting, Alloc!Current,
       ConvAbs!Gen!Pending, ConvAbs!Gen!Waiting

(* The part of an allocation step the spec's Served asks for. *)
LEMMA ServedStep ==
  ASSUME TypeOK, Alloc!Visiting, i' = i + 1,
         UNCHANGED <<all_services, strategy, status>>
  PROVE  /\ ConvAbs!Gen!Pending
         /\ ConvAbs!Gen!Waiting = Alloc!Current
         /\ ConvAbs!Gen!Served
<1>1. i \in Nat
  BY DEF TypeOK, Alloc!TypeOK
<1>. QED  BY <1>1, VisitingPending DEF ConvAbs!Gen!Served

(* AllocateAsil hands out the ASIL cursor slot, which is free. *)
LEMMA AllocateAsilRefines ==
  ASSUME TypeOK, CursorInv, Alloc!AllocateAsil PROVE ConvAbs!Gen!GrantAsil
<1>. DEFINE e == [slot |-> next_asil_slot, svc |-> Alloc!Current]
<1>1. /\ Alloc!Current.safety_level = "ASIL-D"
      /\ asil_allocations' = Append(asil_allocations, e)
      /\ UNCHANGED <<static_allocations, dynamic_allocations>>
  BY EmitBucket DEF Alloc!AllocateAsil
<1>2. /\ ConvAbs!Gen!Pending /\ ConvAbs!Gen!Waiting = Alloc!Current
      /\ ConvAbs!Gen!Served
  BY ServedStep DEF Alloc!AllocateAsil
<1>3. Alloc!SlotsIn(asil_allocations')
        = Alloc!SlotsIn(asil_allocations) \cup {next_asil_slot}
  BY <1>1, AllocShapes, SlotsInAppend
<1>4. next_asil_slot \in ConvAbs!Gen!AsilPool \ Alloc!SlotsIn(asil_allocations)
  <2>1. Alloc!SlotsIn(asil_allocations) = ASIL_SLOT_START .. next_asil_slot - 1
    BY CursorSlotsIn
  <2>2. next_asil_slot \in Nat /\ next_asil_slot >= ASIL_SLOT_START
    <3>1. asil_allocations \in Seq(Alloc!Entry)
      BY AllocShapes
    <3>. QED  BY <3>1, PoolFacts DEF CursorInv, Alloc!CursorsMatchBuckets
  <2>. QED  BY <2>1, <2>2, PoolFacts DEF Alloc!AllocateAsil, ConvAbs!Gen!AsilPool
<1>. QED  BY <1>1, <1>2, <1>3, <1>4 DEF ConvAbs!Gen!GrantAsil, ConvAbs!Gen!IsAsil

(* AllocateStatic hands out the hash bucket of the static pool. *)
LEMMA AllocateStaticRefines ==
  ASSUME TypeOK, CursorInv, Alloc!AllocateStatic PROVE ConvAbs!Gen!GrantStatic
<1>. DEFINE slot == Alloc!StaticSlot(Alloc!Current)
            e == [slot |-> slot, svc |-> Alloc!Current]
<1>1. Alloc!Current \in ServiceRecord
  BY CurrentType DEF Alloc!AllocateStatic
<1>2. slot \in ConvAbs!Gen!StaticPool
  BY <1>1, RecordFields, StaticSlotBound DEF ConvAbs!Gen!StaticPool
<1>3. /\ static_allocations' = Append(static_allocations, e)
      /\ UNCHANGED <<dynamic_allocations, asil_allocations>>
  <2>1. slot <= STATIC_SLOT_END
    BY <1>2 DEF ConvAbs!Gen!StaticPool
  <2>. QED  BY <2>1, EmitBucket DEF Alloc!AllocateStatic
<1>4. /\ ConvAbs!Gen!Pending /\ ConvAbs!Gen!Waiting = Alloc!Current
      /\ ConvAbs!Gen!Served
  BY ServedStep DEF Alloc!AllocateStatic
<1>5. Alloc!SlotsIn(static_allocations')
        = Alloc!SlotsIn(static_allocations) \cup {slot}
  BY <1>3, AllocShapes, SlotsInAppend
<1>6. ConvAbs!Gen!IsStatic(Alloc!Current)
  BY DEF Alloc!AllocateStatic, Alloc!UsesStaticPath, ConvAbs!Gen!IsStatic,
         ConvAbs!Gen!IsAsil
<1>. QED  BY <1>2, <1>3, <1>4, <1>5, <1>6 DEF ConvAbs!Gen!GrantStatic

(* AllocateDynamic hands out the dynamic cursor slot, which is free. *)
LEMMA AllocateDynamicRefines ==
  ASSUME TypeOK, CursorInv, Alloc!AllocateDynamic PROVE ConvAbs!Gen!GrantDynamic
<1>. DEFINE e == [slot |-> next_dynamic_slot, svc |-> Alloc!Current]
<1>1. Alloc!Current \in ServiceRecord
  BY CurrentType DEF Alloc!AllocateDynamic
<1>2. /\ dynamic_allocations' = Append(dynamic_allocations, e)
      /\ UNCHANGED <<static_allocations, asil_allocations>>
  <2>1. ~(Alloc!Current.category = "static" \/ next_dynamic_slot <= STATIC_SLOT_END)
    BY <1>1, RecordFields, PoolFacts, PoolOrder DEF TypeOK, Alloc!TypeOK
  <2>. QED  BY <2>1, EmitBucket DEF Alloc!AllocateDynamic
<1>3. /\ ConvAbs!Gen!Pending /\ ConvAbs!Gen!Waiting = Alloc!Current
      /\ ConvAbs!Gen!Served
  BY ServedStep DEF Alloc!AllocateDynamic
<1>4. Alloc!SlotsIn(dynamic_allocations')
        = Alloc!SlotsIn(dynamic_allocations) \cup {next_dynamic_slot}
  BY <1>2, AllocShapes, SlotsInAppend
<1>5. next_dynamic_slot \in ConvAbs!Gen!DynamicPool \ Alloc!SlotsIn(dynamic_allocations)
  <2>1. Alloc!SlotsIn(dynamic_allocations) = DYNAMIC_SLOT_START .. next_dynamic_slot - 1
    BY CursorSlotsIn
  <2>2. next_dynamic_slot \in Nat /\ next_dynamic_slot >= DYNAMIC_SLOT_START
    <3>1. dynamic_allocations \in Seq(Alloc!Entry)
      BY AllocShapes
    <3>. QED  BY <3>1, PoolFacts DEF CursorInv, Alloc!CursorsMatchBuckets
  <2>. QED  BY <2>1, <2>2, PoolFacts DEF Alloc!AllocateDynamic, ConvAbs!Gen!DynamicPool
<1>6. ConvAbs!Gen!IsDynamic(Alloc!Current)
  BY DEF Alloc!AllocateDynamic, Alloc!UsesStaticPath, ConvAbs!Gen!IsDynamic,
         ConvAbs!Gen!IsStatic, ConvAbs!Gen!IsAsil
<1>. QED  BY <1>2, <1>3, <1>4, <1>5, <1>6 DEF ConvAbs!Gen!GrantDynamic

(* AsilExhausted refuses only with every ASIL-D slot handed out. *)
LEMMA AsilExhaustedRefines ==
  ASSUME TypeOK, CursorInv, Alloc!AsilExhausted PROVE ConvAbs!Gen!Refuse
<1>1. ConvAbs!Gen!Pending /\ ConvAbs!Gen!Waiting = Alloc!Current
  BY VisitingPending DEF Alloc!AsilExhausted
<1>2. ConvAbs!Gen!AsilPool \subseteq Alloc!SlotsIn(asil_allocations)
  <2>1. next_asil_slot = ASIL_SLOT_END + 1
    BY PoolFacts DEF TypeOK, Alloc!TypeOK, Alloc!AsilExhausted
  <2>. QED  BY <2>1, CursorSlotsIn, PoolFacts DEF ConvAbs!Gen!AsilPool
<1>. QED  BY <1>1, <1>2 DEF Alloc!AsilExhausted, ConvAbs!Gen!Refuse,
                            ConvAbs!Gen!IsAsil

(* DynamicExhausted refuses only with every dynamic slot handed out. *)
LEMMA DynamicExhaustedRefines ==
  ASSUME TypeOK, CursorInv, Alloc!DynamicExhausted PROVE ConvAbs!Gen!Refuse
<1>1. ConvAbs!Gen!Pending /\ ConvAbs!Gen!Waiting = Alloc!Current
  BY VisitingPending DEF Alloc!DynamicExhausted
<1>2. ConvAbs!Gen!DynamicPool \subseteq Alloc!SlotsIn(dynamic_allocations)
  <2>1. next_dynamic_slot = DYNAMIC_SLOT_END + 1
    BY PoolFacts DEF TypeOK, Alloc!TypeOK, Alloc!DynamicExhausted
  <2>. QED  BY <2>1, CursorSlotsIn, PoolFacts DEF ConvAbs!Gen!DynamicPool
<1>3. ConvAbs!Gen!IsDynamic(Alloc!Current)
  BY DEF Alloc!DynamicExhausted, Alloc!UsesStaticPath, ConvAbs!Gen!IsDynamic,
         ConvAbs!Gen!IsStatic, ConvAbs!Gen!IsAsil
<1>. QED  BY <1>1, <1>2, <1>3 DEF Alloc!DynamicExhausted, ConvAbs!Gen!Refuse

(* save() writes the file once every service is served. *)
LEMMA SaveRefines ==
  ASSUME TypeOK, Alloc!Save PROVE ConvAbs!Gen!Complete
BY DEF TypeOK, Alloc!TypeOK, Alloc!Save, ConvAbs!Gen!Complete

(* Every step of generate() and save() is a Generate step of the spec. *)
LEMMA GenerateRefines ==
  ASSUME TypeOK, CursorInv, Generate PROVE ConvAbs!Generate
<1>1. ConvAbs!Gen!Next
  <2>1. CASE Alloc!AllocateAsil
    BY <2>1, AllocateAsilRefines DEF ConvAbs!Gen!Next
  <2>2. CASE Alloc!AllocateStatic
    BY <2>2, AllocateStaticRefines DEF ConvAbs!Gen!Next
  <2>3. CASE Alloc!AllocateDynamic
    BY <2>3, AllocateDynamicRefines DEF ConvAbs!Gen!Next
  <2>4. CASE Alloc!AsilExhausted
    BY <2>4, AsilExhaustedRefines DEF ConvAbs!Gen!Next
  <2>5. CASE Alloc!DynamicExhausted
    BY <2>5, DynamicExhaustedRefines DEF ConvAbs!Gen!Next
  <2>6. CASE Alloc!Save
    BY <2>6, SaveRefines DEF ConvAbs!Gen!Next
  <2>. QED  BY <2>1, <2>2, <2>3, <2>4, <2>5, <2>6 DEF Generate
<1>. QED  BY <1>1 DEF Generate, parseVars, ConvAbs!Generate

(* A step that leaves the allocator's variables alone leaves the          *)
(* generation state of the spec alone.                                     *)
LEMMA GenUnchanged ==
  ASSUME UNCHANGED allocVars PROVE UNCHANGED ConvAbs!genVars
<1>1. /\ strategy' = strategy /\ i' = i /\ status' = status
      /\ static_allocations' = static_allocations
      /\ dynamic_allocations' = dynamic_allocations
      /\ asil_allocations' = asil_allocations
  BY DEF allocVars
<1>. QED  BY <1>1 DEF ConvAbs!genVars, Alloc!SlotsIn

(* parse_file() and main() extend all_services at its end. *)
LEMMA ParseFileRefines ==
  ASSUME TypeOK, ParseFile PROVE ConvAbs!Collect
<1>1. all_services' \in Seq(ServiceRecord)
  BY ParseFileTypeOK DEF TypeOK
<1>2. /\ all_services \in Seq(ServiceRecord)
      /\ parser_services' \in Seq(ServiceRecord)
  BY ParseFileTypeOK DEF TypeOK
<1>3. ConvAbs!IsPrefixOf(all_services, all_services')
  BY <1>2 DEF ParseFile, ConvAbs!IsPrefixOf
<1>4. UNCHANGED ConvAbs!genVars
  BY GenUnchanged DEF ParseFile
<1>5. phase = "parsing" /\ phase' = phase
  BY DEF ParseFile, Reading
<1>. QED  BY <1>1, <1>3, <1>4, <1>5 DEF ConvAbs!Collect

(* The ends of the reading phase. *)
LEMMA PhaseEndRefines ==
  ASSUME ExtractionRaises \/ NoServices \/ StartGeneration
  PROVE  ConvAbs!Crash \/ ConvAbs!GiveUp \/ ConvAbs!Start
<1>1. CASE ExtractionRaises
  <2>1. UNCHANGED ConvAbs!genVars
    BY <1>1, GenUnchanged DEF ExtractionRaises
  <2>. QED  BY <1>1, <2>1 DEF ExtractionRaises, Reading, ConvAbs!Crash
<1>2. CASE NoServices
  <2>1. UNCHANGED ConvAbs!genVars
    BY <1>2, GenUnchanged DEF NoServices
  <2>. QED  BY <1>2, <2>1 DEF NoServices, ConvAbs!GiveUp
<1>3. CASE StartGeneration
  <2>1. UNCHANGED ConvAbs!genVars
    BY <1>3, GenUnchanged DEF StartGeneration
  <2>. QED  BY <1>3, <2>1 DEF StartGeneration, ConvAbs!Start
<1>. QED  BY <1>1, <1>2, <1>3

(* Every step of the pipeline is a step of ConverterSpec or leaves its   *)
(* variables unchanged.                                                      *)
LEMMA StepRefines ==
  ASSUME TypeOK, CursorInv, [Next]_vars
  PROVE  [ConvAbs!Next]_ConvAbs!vars
<1>1. CASE SkipMissing \/ SkipMalformed
  <2>1. UNCHANGED ConvAbs!genVars
    BY <1>1, GenUnchanged DEF SkipMissing, SkipMalformed
  <2>. QED  BY <1>1, <2>1 DEF SkipMissing, SkipMalformed, ConvAbs!vars
<1>2. CASE ParseFile
  BY <1>2, ParseFileRefines DEF ConvAbs!Next
<1>3. CASE ExtractionRaises \/ NoServices \/ StartGeneration
  BY <1>3, PhaseEndRefines DEF ConvAbs!Next
<1>4. CASE Generate
  BY <1>4, GenerateRefines DEF ConvAbs!Next
<1>5. CASE UNCHANGED vars
  <2>1. UNCHANGED ConvAbs!genVars
    BY <1>5, GenUnchanged DEF vars
  <2>. QED  BY <1>5, <2>1 DEF vars, parseVars, ConvAbs!vars
<1>. QED  BY <1>1, <1>2, <1>3, <1>4, <1>5 DEF Next

LEMMA InitRefines == Init => ConvAbs!Init
BY DEF Init, Alloc!InitAllocator, Alloc!Strategies, Alloc!SlotsIn, ConvAbs!Init

(* The pipeline implements ConverterSpec, for every pool layout and every *)
(* set of documents: main() only extends all_services while it reads,    *)
(* gives up only on an empty list, and the allocator then serves the     *)
(* list main() built (duplicates included) as AllocatorSpec says: in      *)
(* order, with fresh dynamic and ASIL-D slots, refusing only a full pool, *)
(* and saving only when every service has a slot.                         *)
THEOREM ImplementsConverterSpecHolds == Spec => ImplementsConverterSpec
<1>1. Init => TypeOK /\ CursorInv
  BY InitTypeOK, InitCursorInv
<1>2. TypeOK /\ CursorInv /\ [Next]_vars => TypeOK' /\ CursorInv'
  BY NextTypeOK, NextCursorInv
<1>3. Init => ConvAbs!Init
  BY InitRefines
<1>4. TypeOK /\ CursorInv /\ [Next]_vars => [ConvAbs!Next]_ConvAbs!vars
  BY StepRefines
<1>. QED  BY <1>1, <1>2, <1>3, <1>4, PTL
          DEF Spec, ImplementsConverterSpec, ConvAbs!Spec

=============================================================================
