----------------------- MODULE SlotAllocatorRefinement -----------------------
(***************************************************************************)
(* Proof that SlotAllocator implements AllocatorSpec under the refinement *)
(* mapping Abs of SlotAllocator, for every pool layout satisfying         *)
(* PoolAssumption.  The step proof rests on the inductive invariant IInv  *)
(* of SlotAllocatorProofs: the cursor buckets are dense, so the slots a   *)
(* cursor pool has handed out are exactly the interval below its cursor. *)
(***************************************************************************)
EXTENDS SlotAllocatorProofs

(* Appending an entry adds its slot to the slots of a bucket. *)
LEMMA SlotsInAppend ==
  ASSUME NEW b \in Seq(Entry), NEW e
  PROVE  SlotsIn(Append(b, e)) = SlotsIn(b) \cup {e.slot}
<1>1. DOMAIN Append(b, e) = (DOMAIN b) \cup {Len(b) + 1}
  OBVIOUS
<1>2. \A j \in DOMAIN b : Append(b, e)[j] = b[j]
  OBVIOUS
<1>3. Append(b, e)[Len(b) + 1] = e
  OBVIOUS
<1>. QED  BY <1>1, <1>2, <1>3 DEF SlotsIn

(* A dense bucket of length len starting at start holds exactly the slots *)
(* start .. start + len - 1.                                               *)
LEMMA DenseSlots ==
  ASSUME NEW b \in Seq(Entry), NEW start \in Nat,
         \A k \in 1 .. Len(b) : b[k].slot = start + k - 1
  PROVE  SlotsIn(b) = start .. start + Len(b) - 1
<1>1. SlotsIn(b) \subseteq start .. start + Len(b) - 1
  BY DEF SlotsIn
<1>2. ASSUME NEW x \in start .. start + Len(b) - 1 PROVE x \in SlotsIn(b)
  <2>1. x - start + 1 \in DOMAIN b /\ b[x - start + 1].slot = x
    OBVIOUS
  <2>. QED  BY <2>1 DEF SlotsIn
<1>. QED  BY <1>1, <1>2

(* Under IInv the slots handed out by a cursor pool are the interval      *)
(* from the start of the pool up to, and excluding, its cursor.            *)
LEMMA CursorSlots ==
  ASSUME IInv
  PROVE  /\ SlotsIn(asil_allocations) = ASIL_SLOT_START .. next_asil_slot - 1
         /\ SlotsIn(dynamic_allocations) = DYNAMIC_SLOT_START .. next_dynamic_slot - 1
<1>1. /\ asil_allocations \in Seq(Entry) /\ dynamic_allocations \in Seq(Entry)
      /\ CursorsMatchBuckets /\ DenseCursorAllocation
  BY DEF IInv, TypeOK
<1>. QED  BY <1>1, DenseSlots, PoolAssumption
          DEF CursorsMatchBuckets, DenseCursorAllocation

(* The initial states of the allocator map to initial states of the spec. *)
LEMMA InitRefines == Init => Abs!Init
<1>. SUFFICES ASSUME Init PROVE Abs!Init
  OBVIOUS
<1>1. SlotsIn(<< >>) = {}
  BY DEF SlotsIn
<1>. QED  BY <1>1 DEF Init, InitAllocator, ServiceLists, Strategies, Abs!Init
(* The part of a serving step the spec's Served asks for: the visited     *)
(* position advances by one from a service that was still pending.        *)
LEMMA ServedStep ==
  ASSUME TypeOK, Visiting, i' = i + 1,
         UNCHANGED <<services, strategy, status>>
  PROVE  /\ Abs!Pending
         /\ Abs!Waiting = Current
         /\ Abs!Served
BY DEF TypeOK, Visiting, Current, Abs!Pending, Abs!Waiting, Abs!Served

(* AllocateAsil hands out the ASIL cursor slot, which is free. *)
LEMMA AllocateAsilRefines ==
  ASSUME IInv, AllocateAsil PROVE Abs!GrantAsil
<1>. DEFINE e == [slot |-> next_asil_slot, svc |-> Current]
<1>1. /\ Current.safety_level = "ASIL-D"
      /\ asil_allocations' = Append(asil_allocations, e)
      /\ UNCHANGED <<static_allocations, dynamic_allocations>>
  BY EmitEffect DEF AllocateAsil
<1>2. /\ Abs!Pending /\ Abs!Waiting = Current /\ Abs!Served
  BY ServedStep DEF IInv, AllocateAsil
<1>3. SlotsIn(asil_allocations') = SlotsIn(asil_allocations) \cup {next_asil_slot}
  BY <1>1, SlotsInAppend DEF IInv, TypeOK
<1>4. next_asil_slot \in Abs!AsilPool \ SlotsIn(asil_allocations)
  BY CursorSlots, PoolAssumption DEF IInv, TypeOK, AllocateAsil, Abs!AsilPool
<1>. QED  BY <1>1, <1>2, <1>3, <1>4 DEF Abs!GrantAsil, Abs!IsAsil

(* AllocateStatic hands out the hash bucket of the static pool. *)
LEMMA AllocateStaticRefines ==
  ASSUME IInv, AllocateStatic PROVE Abs!GrantStatic
<1>. DEFINE e == [slot |-> StaticSlot(Current), svc |-> Current]
<1>0. TypeOK /\ Visiting
  BY DEF IInv, AllocateStatic
<1>1. StaticSlot(Current) \in StaticPool
  BY <1>0, CurrentType, StaticSlotInPool
<1>2. /\ static_allocations' = Append(static_allocations, e)
      /\ UNCHANGED <<dynamic_allocations, asil_allocations>>
  <2>1. StaticSlot(Current) <= STATIC_SLOT_END
    BY <1>1, PoolAssumption DEF StaticPool
  <2>. QED  BY <2>1, EmitEffect DEF AllocateStatic
<1>3. /\ Abs!Pending /\ Abs!Waiting = Current /\ Abs!Served
  BY <1>0, ServedStep DEF AllocateStatic
<1>4. SlotsIn(static_allocations') = SlotsIn(static_allocations) \cup {StaticSlot(Current)}
  BY <1>0, <1>2, SlotsInAppend DEF TypeOK
<1>5. Abs!IsStatic(Current)
  BY DEF AllocateStatic, UsesStaticPath, Abs!IsStatic, Abs!IsAsil
<1>. QED  BY <1>1, <1>2, <1>3, <1>4, <1>5 DEF Abs!GrantStatic, StaticPool, Abs!StaticPool

(* AllocateDynamic hands out the dynamic cursor slot, which is free. *)
LEMMA AllocateDynamicRefines ==
  ASSUME IInv, AllocateDynamic PROVE Abs!GrantDynamic
<1>. DEFINE e == [slot |-> next_dynamic_slot, svc |-> Current]
<1>0. TypeOK /\ Visiting
  BY DEF IInv, AllocateDynamic
<1>1. /\ dynamic_allocations' = Append(dynamic_allocations, e)
      /\ UNCHANGED <<static_allocations, asil_allocations>>
  <2>1. ~(next_dynamic_slot <= STATIC_SLOT_END)
    BY <1>0, PoolAssumption DEF TypeOK
  <2>2. Current.category # "static"
    BY DEF AllocateDynamic, UsesStaticPath
  <2>. QED  BY <2>1, <2>2, EmitEffect DEF AllocateDynamic
<1>2. /\ Abs!Pending /\ Abs!Waiting = Current /\ Abs!Served
  BY <1>0, ServedStep DEF AllocateDynamic
<1>3. SlotsIn(dynamic_allocations') = SlotsIn(dynamic_allocations) \cup {next_dynamic_slot}
  BY <1>0, <1>1, SlotsInAppend DEF TypeOK
<1>4. next_dynamic_slot \in Abs!DynamicPool \ SlotsIn(dynamic_allocations)
  BY CursorSlots, PoolAssumption DEF IInv, TypeOK, AllocateDynamic, Abs!DynamicPool
<1>5. Abs!IsDynamic(Current)
  BY DEF AllocateDynamic, UsesStaticPath, Abs!IsDynamic, Abs!IsStatic, Abs!IsAsil
<1>. QED  BY <1>1, <1>2, <1>3, <1>4, <1>5 DEF Abs!GrantDynamic

(* A service visited by the generate() loop is the one the spec has       *)
(* pending.                                                                *)
LEMMA VisitingPending ==
  ASSUME TypeOK, Visiting
  PROVE  Abs!Pending /\ Abs!Waiting = Current
BY DEF TypeOK, Visiting, Current, Abs!Pending, Abs!Waiting

(* AsilExhausted refuses only with every ASIL-D slot handed out. *)
LEMMA AsilExhaustedRefines ==
  ASSUME IInv, AsilExhausted PROVE Abs!Refuse
<1>0. TypeOK /\ Visiting
  BY DEF IInv, AsilExhausted
<1>1. Abs!Pending /\ Abs!Waiting = Current
  BY <1>0, VisitingPending
<1>2. Abs!AsilPool \subseteq SlotsIn(asil_allocations)
  <2>1. next_asil_slot = ASIL_SLOT_END + 1
    BY <1>0, PoolAssumption DEF TypeOK, AsilExhausted
  <2>. QED  BY <2>1, CursorSlots, PoolAssumption DEF IInv, Abs!AsilPool
<1>. QED  BY <1>1, <1>2 DEF AsilExhausted, Abs!Refuse, Abs!IsAsil

(* DynamicExhausted refuses only with every dynamic slot handed out. *)
LEMMA DynamicExhaustedRefines ==
  ASSUME IInv, DynamicExhausted PROVE Abs!Refuse
<1>0. TypeOK /\ Visiting
  BY DEF IInv, DynamicExhausted
<1>1. Abs!Pending /\ Abs!Waiting = Current
  BY <1>0, VisitingPending
<1>2. Abs!DynamicPool \subseteq SlotsIn(dynamic_allocations)
  <2>1. next_dynamic_slot = DYNAMIC_SLOT_END + 1
    BY <1>0, PoolAssumption DEF TypeOK, DynamicExhausted
  <2>. QED  BY <2>1, CursorSlots, PoolAssumption DEF IInv, Abs!DynamicPool
<1>3. Abs!IsDynamic(Current)
  BY DEF DynamicExhausted, UsesStaticPath, Abs!IsDynamic, Abs!IsStatic, Abs!IsAsil
<1>. QED  BY <1>1, <1>2, <1>3 DEF DynamicExhausted, Abs!Refuse

(* Save writes the file once every service is served. *)
LEMMA SaveRefines ==
  ASSUME IInv, Save PROVE Abs!Complete
BY DEF IInv, TypeOK, Save, Abs!Complete

(* Every step of the allocator is a step or a stutter of the spec. *)
LEMMA StepRefines ==
  IInv /\ [Next]_vars => [Abs!Next]_Abs!vars
<1>. SUFFICES ASSUME IInv, [Next]_vars PROVE [Abs!Next]_Abs!vars
  OBVIOUS
<1>1. CASE AllocateAsil
  BY <1>1, AllocateAsilRefines DEF Abs!Next
<1>2. CASE AsilExhausted
  BY <1>2, AsilExhaustedRefines DEF Abs!Next
<1>3. CASE AllocateStatic
  BY <1>3, AllocateStaticRefines DEF Abs!Next
<1>4. CASE AllocateDynamic
  BY <1>4, AllocateDynamicRefines DEF Abs!Next
<1>5. CASE DynamicExhausted
  BY <1>5, DynamicExhaustedRefines DEF Abs!Next
<1>6. CASE Save
  BY <1>6, SaveRefines DEF Abs!Next
<1>7. CASE UNCHANGED vars
  BY <1>7 DEF vars, Abs!vars
<1>. QED  BY <1>1, <1>2, <1>3, <1>4, <1>5, <1>6, <1>7 DEF Next

-----------------------------------------------------------------------------
(* Refinement: every behaviour of allocate() driven by generate() and     *)
(* save() is a behaviour of AllocatorSpec, so services are served in      *)
(* input order, no dynamic or ASIL-D slot is handed out twice, a pool is  *)
(* reported exhausted only when full and the file is written only when   *)
(* every service has a slot, for every pool layout.                       *)
THEOREM ImplementsAllocatorSpecHolds == Spec => ImplementsAllocatorSpec
<1>1. Init => IInv
  BY InitIInv
<1>2. IInv /\ [Next]_vars => IInv'
  BY NextIInv
<1>3. Init => Abs!Init
  BY InitRefines
<1>4. IInv /\ [Next]_vars => [Abs!Next]_Abs!vars
  BY StepRefines
<1>. QED  BY <1>1, <1>2, <1>3, <1>4, PTL DEF Spec, ImplementsAllocatorSpec, Abs!Spec

=============================================================================
