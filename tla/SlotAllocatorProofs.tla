------------------------- MODULE SlotAllocatorProofs -------------------------
(***************************************************************************)
(* Proofs about SlotAllocator for every pool layout satisfying            *)
(* PoolAssumption and every set of service records: the type invariant,   *)
(* and the slot invariants of the allocator through the inductive         *)
(* invariant IInv.                                                         *)
(***************************************************************************)
EXTENDS SlotAllocator, TLAPS

-----------------------------------------------------------------------------
(* Lemmas on the operators the steps are built from. *)

(* The record visited by a step is one of the service records. *)
LEMMA CurrentType ==
  ASSUME TypeOK, Visiting
  PROVE  /\ Current \in Service
         /\ Current.service_id \in Nat
         /\ Current.safety_level \in {"QM", "ASIL-D"}
         /\ Current.category \in {"static", "dynamic"}
<1>1. Current \in Service
  BY DEF TypeOK, Visiting, Current
<1>. QED  BY <1>1, ServiceAssumption

(* The hash bucket lies in the static pool. *)
LEMMA StaticSlotInPool ==
  ASSUME NEW svc, svc.service_id \in Nat
  PROVE  StaticSlot(svc) \in StaticPool
BY PoolAssumption DEF StaticSlot, StaticPool

(* Emit appends the entry to exactly one bucket, chosen as generate()     *)
(* chooses it.                                                             *)
LEMMA EmitEffect ==
  ASSUME NEW svc, NEW slot, Emit(svc, slot)
  PROVE  LET e == [slot |-> slot, svc |-> svc] IN
         \/ /\ svc.safety_level = "ASIL-D"
            /\ asil_allocations' = Append(asil_allocations, e)
            /\ UNCHANGED <<static_allocations, dynamic_allocations>>
         \/ /\ svc.safety_level # "ASIL-D"
            /\ svc.category = "static" \/ slot <= STATIC_SLOT_END
            /\ static_allocations' = Append(static_allocations, e)
            /\ UNCHANGED <<dynamic_allocations, asil_allocations>>
         \/ /\ svc.safety_level # "ASIL-D"
            /\ ~(svc.category = "static" \/ slot <= STATIC_SLOT_END)
            /\ dynamic_allocations' = Append(dynamic_allocations, e)
            /\ UNCHANGED <<static_allocations, asil_allocations>>
BY DEF Emit

(* An emitted entry of a service record and a natural slot keeps every    *)
(* bucket a sequence of entries.                                           *)
LEMMA EmitType ==
  ASSUME TypeOK, NEW svc \in Service, NEW slot \in Nat, Emit(svc, slot)
  PROVE  /\ static_allocations' \in Seq(Entry)
         /\ dynamic_allocations' \in Seq(Entry)
         /\ asil_allocations' \in Seq(Entry)
<1>. DEFINE e == [slot |-> slot, svc |-> svc]
<1>1. e \in Entry
  BY DEF Entry
<1>2. /\ Append(static_allocations, e) \in Seq(Entry)
      /\ Append(dynamic_allocations, e) \in Seq(Entry)
      /\ Append(asil_allocations, e) \in Seq(Entry)
  BY <1>1 DEF TypeOK
<1>. QED  BY <1>2, EmitEffect DEF TypeOK

-----------------------------------------------------------------------------
(* Type correctness. *)

LEMMA InitTypeOK == Init => TypeOK
<1>. SUFFICES ASSUME Init PROVE TypeOK
  OBVIOUS
<1>1. services \in Seq(Service)
  <2>1. PICK n \in 0 .. MaxServices : services \in [1 .. n -> Service]
    BY DEF Init, ServiceLists
  <2>. QED  BY <2>1, MaxServicesAssumption
<1>. QED  BY <1>1, PoolAssumption DEF Init, InitAllocator, TypeOK, Strategies

LEMMA NextTypeOK == TypeOK /\ [Next]_vars => TypeOK'
<1>. SUFFICES ASSUME TypeOK, [Next]_vars PROVE TypeOK'
  OBVIOUS
<1>1. CASE AllocateAsil
  <2>1. Visiting /\ Current \in Service
    BY <1>1, CurrentType DEF AllocateAsil
  <2>2. next_asil_slot \in Nat
    BY PoolAssumption DEF TypeOK
  <2>3. /\ static_allocations' \in Seq(Entry)
        /\ dynamic_allocations' \in Seq(Entry)
        /\ asil_allocations' \in Seq(Entry)
    BY <1>1, <2>1, <2>2, EmitType DEF AllocateAsil
  <2>4. next_asil_slot' \in Nat /\ i' \in 1 .. Len(services') + 1
    BY <1>1, <2>2, PoolAssumption DEF AllocateAsil, Visiting, TypeOK
  <2>5. next_asil_slot' <= ASIL_SLOT_END + 1
    BY <1>1, <2>2, PoolAssumption DEF AllocateAsil
  <2>. QED  BY <1>1, <2>3, <2>4, <2>5, PoolAssumption DEF AllocateAsil, TypeOK
<1>2. CASE AsilExhausted
  BY <1>2 DEF AsilExhausted, TypeOK
<1>3. CASE AllocateStatic
  <2>1. Visiting /\ Current \in Service /\ Current.service_id \in Nat
    BY <1>3, CurrentType DEF AllocateStatic
  <2>2. StaticSlot(Current) \in Nat
    BY <2>1, StaticSlotInPool, PoolAssumption DEF StaticPool
  <2>3. /\ static_allocations' \in Seq(Entry)
        /\ dynamic_allocations' \in Seq(Entry)
        /\ asil_allocations' \in Seq(Entry)
    BY <1>3, <2>1, <2>2, EmitType DEF AllocateStatic
  <2>. QED  BY <1>3, <2>3 DEF AllocateStatic, Visiting, TypeOK
<1>4. CASE AllocateDynamic
  <2>1. Visiting /\ Current \in Service
    BY <1>4, CurrentType DEF AllocateDynamic
  <2>2. next_dynamic_slot \in Nat
    BY PoolAssumption DEF TypeOK
  <2>3. /\ static_allocations' \in Seq(Entry)
        /\ dynamic_allocations' \in Seq(Entry)
        /\ asil_allocations' \in Seq(Entry)
    BY <1>4, <2>1, <2>2, EmitType DEF AllocateDynamic
  <2>4. next_dynamic_slot' \in Nat /\ i' \in 1 .. Len(services') + 1
    BY <1>4, <2>2, PoolAssumption DEF AllocateDynamic, Visiting, TypeOK
  <2>5. next_dynamic_slot' <= DYNAMIC_SLOT_END + 1
    BY <1>4, <2>2, PoolAssumption DEF AllocateDynamic
  <2>. QED  BY <1>4, <2>3, <2>4, <2>5, PoolAssumption DEF AllocateDynamic, TypeOK
<1>5. CASE DynamicExhausted
  BY <1>5 DEF DynamicExhausted, TypeOK
<1>6. CASE Save
  BY <1>6 DEF Save, TypeOK
<1>7. CASE UNCHANGED vars
  BY <1>7 DEF vars, TypeOK
<1>. QED  BY <1>1, <1>2, <1>3, <1>4, <1>5, <1>6, <1>7 DEF Next

(* Every reachable state is well typed. *)
THEOREM TypeCorrect == Spec => []TypeOK
BY InitTypeOK, NextTypeOK, PTL DEF Spec

-----------------------------------------------------------------------------
(* The slot invariants, through IInv. *)

(* The pools are disjoint intervals of naturals. *)
LEMMA PoolsDisjoint ==
  /\ StaticPool \cap DynamicPool = {}
  /\ StaticPool \cap AsilPool = {}
  /\ DynamicPool \cap AsilPool = {}
BY PoolAssumption DEF StaticPool, DynamicPool, AsilPool

(* A Next step keeps the type invariant. *)
LEMMA NextTypeOKStep ==
  ASSUME TypeOK, Next PROVE TypeOK'
BY NextTypeOK

LEMMA InitIInv == Init => IInv
<1>. SUFFICES ASSUME Init PROVE IInv
  OBVIOUS
<1>1. TypeOK
  BY InitTypeOK
<1>2. CursorsMatchBuckets /\ DenseCursorAllocation /\ BucketLevels
  BY PoolAssumption DEF Init, InitAllocator, CursorsMatchBuckets,
                        DenseCursorAllocation, BucketLevels
<1>3. EntriesCount /\ SavedAtEnd /\ ExhaustionOnlyWhenFull
  BY DEF Init, InitAllocator, EntriesCount, SavedAtEnd, ExhaustionOnlyWhenFull
<1>. QED  BY <1>1, <1>2, <1>3 DEF IInv

(* AllocateAsil appends the cursor slot to the ASIL bucket. *)
LEMMA AllocateAsilIInv == IInv /\ AllocateAsil => IInv'
<1>. SUFFICES ASSUME IInv, AllocateAsil PROVE IInv'
  OBVIOUS
<1>. DEFINE e == [slot |-> next_asil_slot, svc |-> Current]
<1>0. /\ TypeOK /\ CursorsMatchBuckets /\ DenseCursorAllocation
      /\ BucketLevels /\ EntriesCount
  BY DEF IInv
<1>1. TypeOK'
  BY <1>0, NextTypeOKStep DEF Next
<1>2. /\ Current.safety_level = "ASIL-D"
      /\ asil_allocations' = Append(asil_allocations, e)
      /\ UNCHANGED <<static_allocations, dynamic_allocations>>
  BY EmitEffect DEF AllocateAsil
<1>3. /\ asil_allocations \in Seq(Entry)
      /\ static_allocations \in Seq(Entry)
      /\ dynamic_allocations \in Seq(Entry)
      /\ next_asil_slot \in Nat
  BY <1>0, PoolAssumption DEF TypeOK
<1>4. CursorsMatchBuckets'
  BY <1>0, <1>2, <1>3, PoolAssumption DEF CursorsMatchBuckets, AllocateAsil
<1>5. DenseCursorAllocation'
  BY <1>0, <1>2, <1>3 DEF DenseCursorAllocation, CursorsMatchBuckets
<1>6. BucketLevels'
  BY <1>0, <1>2, <1>3 DEF BucketLevels
<1>7. EntriesCount'
  BY <1>0, <1>2, <1>3 DEF EntriesCount, AllocateAsil, TypeOK
<1>8. SavedAtEnd' /\ ExhaustionOnlyWhenFull'
  BY DEF AllocateAsil, Visiting, SavedAtEnd, ExhaustionOnlyWhenFull
<1>. QED  BY <1>1, <1>4, <1>5, <1>6, <1>7, <1>8 DEF IInv

(* AllocateStatic appends a hash slot, which the slot test files into the *)
(* static bucket.                                                          *)
LEMMA AllocateStaticIInv == IInv /\ AllocateStatic => IInv'
<1>. SUFFICES ASSUME IInv, AllocateStatic PROVE IInv'
  OBVIOUS
<1>. DEFINE e == [slot |-> StaticSlot(Current), svc |-> Current]
<1>0. /\ TypeOK /\ CursorsMatchBuckets /\ DenseCursorAllocation
      /\ BucketLevels /\ EntriesCount
  BY DEF IInv
<1>1. TypeOK'
  BY <1>0, NextTypeOKStep DEF Next
<1>2. Current.safety_level = "QM" /\ Current.service_id \in Nat
  BY <1>0, CurrentType DEF AllocateStatic
<1>3. StaticSlot(Current) \in StaticPool
  BY <1>2, StaticSlotInPool
<1>4. /\ static_allocations' = Append(static_allocations, e)
      /\ UNCHANGED <<dynamic_allocations, asil_allocations>>
  <2>1. StaticSlot(Current) <= STATIC_SLOT_END
    BY <1>3, PoolAssumption DEF StaticPool
  <2>. QED  BY <1>2, <2>1, EmitEffect DEF AllocateStatic
<1>5. static_allocations \in Seq(Entry)
  BY <1>0 DEF TypeOK
<1>6. CursorsMatchBuckets' /\ DenseCursorAllocation'
  BY <1>0, <1>4 DEF AllocateStatic, CursorsMatchBuckets, DenseCursorAllocation
<1>7. BucketLevels'
  BY <1>0, <1>2, <1>3, <1>4, <1>5 DEF BucketLevels
<1>8. EntriesCount'
  BY <1>0, <1>4, <1>5 DEF EntriesCount, AllocateStatic, TypeOK
<1>9. SavedAtEnd' /\ ExhaustionOnlyWhenFull'
  BY DEF AllocateStatic, Visiting, SavedAtEnd, ExhaustionOnlyWhenFull
<1>. QED  BY <1>1, <1>6, <1>7, <1>8, <1>9 DEF IInv

(* AllocateDynamic appends the cursor slot, which lies above the static  *)
(* pool and so goes to the dynamic bucket.                                 *)
LEMMA AllocateDynamicIInv == IInv /\ AllocateDynamic => IInv'
<1>. SUFFICES ASSUME IInv, AllocateDynamic PROVE IInv'
  OBVIOUS
<1>. DEFINE e == [slot |-> next_dynamic_slot, svc |-> Current]
<1>0. /\ TypeOK /\ CursorsMatchBuckets /\ DenseCursorAllocation
      /\ BucketLevels /\ EntriesCount
  BY DEF IInv
<1>1. TypeOK'
  BY <1>0, NextTypeOKStep DEF Next
<1>2. Current.safety_level = "QM" /\ Current.category # "static"
  BY <1>0, CurrentType DEF AllocateDynamic, UsesStaticPath
<1>3. next_dynamic_slot \in Nat /\ ~(next_dynamic_slot <= STATIC_SLOT_END)
  BY <1>0, PoolAssumption DEF TypeOK
<1>4. /\ dynamic_allocations' = Append(dynamic_allocations, e)
      /\ UNCHANGED <<static_allocations, asil_allocations>>
  BY <1>2, <1>3, EmitEffect DEF AllocateDynamic
<1>5. /\ dynamic_allocations \in Seq(Entry)
      /\ static_allocations \in Seq(Entry)
      /\ asil_allocations \in Seq(Entry)
  BY <1>0 DEF TypeOK
<1>6. CursorsMatchBuckets'
  BY <1>0, <1>3, <1>4, <1>5, PoolAssumption DEF CursorsMatchBuckets, AllocateDynamic
<1>7. DenseCursorAllocation'
  BY <1>0, <1>4, <1>5 DEF DenseCursorAllocation, CursorsMatchBuckets
<1>8. BucketLevels'
  BY <1>0, <1>2, <1>4, <1>5 DEF BucketLevels
<1>9. EntriesCount'
  BY <1>0, <1>4, <1>5 DEF EntriesCount, AllocateDynamic, TypeOK
<1>10. SavedAtEnd' /\ ExhaustionOnlyWhenFull'
  BY DEF AllocateDynamic, Visiting, SavedAtEnd, ExhaustionOnlyWhenFull
<1>. QED  BY <1>1, <1>6, <1>7, <1>8, <1>9, <1>10 DEF IInv

(* AsilExhausted fires only with the ASIL cursor one past the pool, that  *)
(* is with the ASIL bucket full.                                           *)
LEMMA AsilExhaustedIInv == IInv /\ AsilExhausted => IInv'
<1>. SUFFICES ASSUME IInv, AsilExhausted PROVE IInv'
  OBVIOUS
<1>0. /\ TypeOK /\ CursorsMatchBuckets /\ DenseCursorAllocation
      /\ BucketLevels /\ EntriesCount
  BY DEF IInv
<1>1. TypeOK'
  BY <1>0, NextTypeOKStep DEF Next
<1>2. Len(asil_allocations) = ASIL_SLOT_END - ASIL_SLOT_START + 1
  <2>1. next_asil_slot = ASIL_SLOT_END + 1
    BY <1>0, PoolAssumption DEF TypeOK, AsilExhausted
  <2>2. asil_allocations \in Seq(Entry)
    BY <1>0 DEF TypeOK
  <2>. QED  BY <1>0, <2>1, <2>2, PoolAssumption DEF CursorsMatchBuckets
<1>3. ExhaustionOnlyWhenFull'
  BY <1>2 DEF AsilExhausted, ExhaustionOnlyWhenFull, Current
<1>4. /\ CursorsMatchBuckets' /\ DenseCursorAllocation'
      /\ BucketLevels' /\ EntriesCount' /\ SavedAtEnd'
  BY <1>0 DEF AsilExhausted, CursorsMatchBuckets, DenseCursorAllocation,
              BucketLevels, EntriesCount, SavedAtEnd
<1>. QED  BY <1>1, <1>3, <1>4 DEF IInv

(* DynamicExhausted fires only with the dynamic bucket full. *)
LEMMA DynamicExhaustedIInv == IInv /\ DynamicExhausted => IInv'
<1>. SUFFICES ASSUME IInv, DynamicExhausted PROVE IInv'
  OBVIOUS
<1>0. /\ TypeOK /\ CursorsMatchBuckets /\ DenseCursorAllocation
      /\ BucketLevels /\ EntriesCount
  BY DEF IInv
<1>1. TypeOK'
  BY <1>0, NextTypeOKStep DEF Next
<1>2. Len(dynamic_allocations) = DYNAMIC_SLOT_END - DYNAMIC_SLOT_START + 1
  <2>1. next_dynamic_slot = DYNAMIC_SLOT_END + 1
    BY <1>0, PoolAssumption DEF TypeOK, DynamicExhausted
  <2>2. dynamic_allocations \in Seq(Entry)
    BY <1>0 DEF TypeOK
  <2>. QED  BY <1>0, <2>1, <2>2, PoolAssumption DEF CursorsMatchBuckets
<1>3. Current.safety_level = "QM"
  BY <1>0, CurrentType DEF DynamicExhausted
<1>4. ExhaustionOnlyWhenFull'
  BY <1>2, <1>3 DEF DynamicExhausted, ExhaustionOnlyWhenFull, Current,
                    UsesStaticPath
<1>5. /\ CursorsMatchBuckets' /\ DenseCursorAllocation'
      /\ BucketLevels' /\ EntriesCount' /\ SavedAtEnd'
  BY <1>0 DEF DynamicExhausted, CursorsMatchBuckets, DenseCursorAllocation,
              BucketLevels, EntriesCount, SavedAtEnd
<1>. QED  BY <1>1, <1>4, <1>5 DEF IInv

(* Save fires only after the last service. *)
LEMMA SaveIInv == IInv /\ Save => IInv'
<1>. SUFFICES ASSUME IInv, Save PROVE IInv'
  OBVIOUS
<1>0. /\ TypeOK /\ CursorsMatchBuckets /\ DenseCursorAllocation
      /\ BucketLevels /\ EntriesCount
  BY DEF IInv
<1>1. TypeOK'
  BY <1>0, NextTypeOKStep DEF Next
<1>2. SavedAtEnd'
  BY <1>0 DEF TypeOK, Save, SavedAtEnd
<1>3. /\ CursorsMatchBuckets' /\ DenseCursorAllocation'
      /\ BucketLevels' /\ EntriesCount' /\ ExhaustionOnlyWhenFull'
  BY <1>0 DEF Save, CursorsMatchBuckets, DenseCursorAllocation,
              BucketLevels, EntriesCount, ExhaustionOnlyWhenFull
<1>. QED  BY <1>1, <1>2, <1>3 DEF IInv

LEMMA NextIInv == IInv /\ [Next]_vars => IInv'
<1>. SUFFICES ASSUME IInv, [Next]_vars PROVE IInv'
  OBVIOUS
<1>1. CASE UNCHANGED vars
  BY <1>1 DEF vars, IInv, TypeOK, CursorsMatchBuckets, DenseCursorAllocation,
              BucketLevels, EntriesCount, SavedAtEnd, ExhaustionOnlyWhenFull,
              Current, UsesStaticPath
<1>. QED  BY <1>1, AllocateAsilIInv, AsilExhaustedIInv, AllocateStaticIInv,
             AllocateDynamicIInv, DynamicExhaustedIInv, SaveIInv DEF Next

(* IInv implies the four slot properties the runs check. *)
LEMMA IInvSlotProperties ==
  IInv => /\ QmAsilSeparation
          /\ DenseCursorAllocation
          /\ ExhaustionOnlyWhenFull
          /\ SavedOnlyWhenComplete
<1>. SUFFICES ASSUME IInv
              PROVE  /\ QmAsilSeparation
                     /\ DenseCursorAllocation
                     /\ ExhaustionOnlyWhenFull
                     /\ SavedOnlyWhenComplete
  OBVIOUS
<1>0. /\ TypeOK /\ CursorsMatchBuckets /\ DenseCursorAllocation
      /\ BucketLevels /\ EntriesCount /\ SavedAtEnd
  BY DEF IInv
<1>1. /\ Len(dynamic_allocations) <= DYNAMIC_SLOT_END - DYNAMIC_SLOT_START + 1
      /\ Len(asil_allocations) <= ASIL_SLOT_END - ASIL_SLOT_START + 1
  BY <1>0, PoolAssumption DEF TypeOK, CursorsMatchBuckets
<1>2. ASSUME NEW k \in 1 .. Len(static_allocations)
      PROVE  /\ static_allocations[k].slot \in StaticPool \cup DynamicPool \cup AsilPool
             /\ (static_allocations[k].slot \in AsilPool
                   <=> static_allocations[k].svc.safety_level = "ASIL-D")
  <2>1. static_allocations[k].slot \in StaticPool
        /\ static_allocations[k].svc.safety_level = "QM"
    BY <1>0 DEF BucketLevels
  <2>. QED  BY <2>1, PoolsDisjoint
<1>3. ASSUME NEW k \in 1 .. Len(dynamic_allocations)
      PROVE  /\ dynamic_allocations[k].slot \in StaticPool \cup DynamicPool \cup AsilPool
             /\ (dynamic_allocations[k].slot \in AsilPool
                   <=> dynamic_allocations[k].svc.safety_level = "ASIL-D")
  <2>1. dynamic_allocations[k].slot \in DynamicPool
    BY <1>0, <1>1, PoolAssumption DEF TypeOK, DenseCursorAllocation, DynamicPool
  <2>2. dynamic_allocations[k].svc.safety_level = "QM"
    BY <1>0 DEF BucketLevels
  <2>. QED  BY <2>1, <2>2, PoolsDisjoint
<1>4. ASSUME NEW k \in 1 .. Len(asil_allocations)
      PROVE  /\ asil_allocations[k].slot \in StaticPool \cup DynamicPool \cup AsilPool
             /\ (asil_allocations[k].slot \in AsilPool
                   <=> asil_allocations[k].svc.safety_level = "ASIL-D")
  <2>1. asil_allocations[k].slot \in AsilPool
    BY <1>0, <1>1, PoolAssumption DEF DenseCursorAllocation, AsilPool
  <2>2. asil_allocations[k].svc.safety_level = "ASIL-D"
    BY <1>0 DEF BucketLevels
  <2>. QED  BY <2>1, <2>2
<1>5. QmAsilSeparation
  <2>. SUFFICES ASSUME NEW b \in 1 .. 3, NEW k \in 1 .. Len(buckets[b])
                PROVE  /\ buckets[b][k].slot \in StaticPool \cup DynamicPool \cup AsilPool
                       /\ (buckets[b][k].slot \in AsilPool
                             <=> buckets[b][k].svc.safety_level = "ASIL-D")
    BY DEF QmAsilSeparation
  <2>1. CASE b = 1
    BY <2>1, <1>2 DEF buckets
  <2>2. CASE b = 2
    BY <2>2, <1>3 DEF buckets
  <2>3. CASE b = 3
    BY <2>3, <1>4 DEF buckets
  <2>. QED  BY <2>1, <2>2, <2>3
<1>6. SavedOnlyWhenComplete
  BY <1>0 DEF SavedAtEnd, EntriesCount, SavedOnlyWhenComplete
<1>. QED  BY <1>0, <1>5, <1>6 DEF IInv

(* The allocator keeps QM and ASIL-D slots apart, packs both cursor pools *)
(* densely in input order, raises exhaustion only on a full pool, and     *)
(* writes the file only with every service emitted, for every pool        *)
(* layout and every service list.                                         *)
THEOREM SlotSafety ==
  Spec => [](/\ QmAsilSeparation
             /\ DenseCursorAllocation
             /\ ExhaustionOnlyWhenFull
             /\ SavedOnlyWhenComplete)
BY InitIInv, NextIInv, IInvSlotProperties, PTL DEF Spec

(* An emitted slot lies in the ASIL-D pool exactly when its service is    *)
(* ASIL-D (generate()/allocate() keep QM and ASIL-D traffic apart).       *)
THEOREM QmAsilSeparationHolds == Spec => []QmAsilSeparation
BY SlotSafety, PTL

(* allocate() packs the dynamic and ASIL-D cursor pools densely in input *)
(* order.                                                                  *)
THEOREM DenseCursorAllocationHolds == Spec => []DenseCursorAllocation
BY SlotSafety, PTL

(* allocate() raises pool exhaustion only on a full pool. *)
THEOREM ExhaustionOnlyWhenFullHolds == Spec => []ExhaustionOnlyWhenFull
BY SlotSafety, PTL

(* save() writes the file only with every service emitted. *)
THEOREM SavedOnlyWhenCompleteHolds == Spec => []SavedOnlyWhenComplete
BY SlotSafety, PTL

=============================================================================
