---------------------------- MODULE SlotAllocator ----------------------------
(***************************************************************************)
(* Slot allocation and configuration generation of                         *)
(* src/tools/arxml2yaml/arxml2yaml.py: the SlotAllocator class (one        *)
(* allocate() call per service, two cursors, one hash bucket) driven by    *)
(* the loop of YAMLGenerator.generate(), which files every entry into one  *)
(* of three output buckets, and YAMLGenerator.save(), which writes the     *)
(* file only after generate() has returned.                                *)
(*                                                                         *)
(* A service record is abstracted to the fields allocation reads          *)
(* (service_id, safety_level, category) plus whatever else the caller     *)
(* puts in it; an emitted entry is the slot paired with the record, which  *)
(* stands for slot_index followed by ServiceDefinition.to_dict().          *)
(* The YAML text, the fixed metadata, system_config and security blocks   *)
(* are constants of the output and are left out.                           *)
(***************************************************************************)
EXTENDS Naturals, Sequences

CONSTANTS
  STATIC_SLOT_START, STATIC_SLOT_END,    \* static (hash) pool
  DYNAMIC_SLOT_START, DYNAMIC_SLOT_END,  \* dynamic (cursor) pool
  ASIL_SLOT_START, ASIL_SLOT_END,        \* ASIL-D (cursor) pool
  Service,      \* the service records the reconciler can hand over
  MaxServices   \* bound on the length of the service list (model bound)

ASSUME PoolAssumption ==
  /\ STATIC_SLOT_START \in Nat /\ STATIC_SLOT_END \in Nat
  /\ DYNAMIC_SLOT_START \in Nat /\ DYNAMIC_SLOT_END \in Nat
  /\ ASIL_SLOT_START \in Nat /\ ASIL_SLOT_END \in Nat
  /\ STATIC_SLOT_START <= STATIC_SLOT_END
  /\ STATIC_SLOT_END < DYNAMIC_SLOT_START
  /\ DYNAMIC_SLOT_START <= DYNAMIC_SLOT_END
  /\ DYNAMIC_SLOT_END < ASIL_SLOT_START
  /\ ASIL_SLOT_START <= ASIL_SLOT_END

ASSUME ServiceAssumption ==
  \A s \in Service :
    /\ s.service_id \in Nat
    /\ s.safety_level \in {"QM", "ASIL-D"}
    /\ s.category \in {"static", "dynamic"}

ASSUME MaxServicesAssumption == MaxServices \in Nat

\* The choices of the --strategy option.
Strategies == {"auto", "static", "dynamic"}

StaticPool  == STATIC_SLOT_START .. STATIC_SLOT_END
DynamicPool == DYNAMIC_SLOT_START .. DYNAMIC_SLOT_END
AsilPool    == ASIL_SLOT_START .. ASIL_SLOT_END

Entry == [slot : Nat, svc : Service]

VARIABLES
  services,            \* YAMLGenerator.services, the list handed in
  strategy,            \* SlotAllocator.strategy
  next_dynamic_slot,   \* SlotAllocator.next_dynamic_slot
  next_asil_slot,      \* SlotAllocator.next_asil_slot
  i,                   \* position of the generate() loop (1-based)
  static_allocations,  \* config['slot_mapping']['static_allocations']
  dynamic_allocations, \* config['slot_mapping']['dynamic_allocations']
  asil_allocations,    \* config['slot_mapping']['asil_allocations']
  status               \* "generating", "saved" (file written), "error"

vars == <<services, strategy, next_dynamic_slot, next_asil_slot, i,
          static_allocations, dynamic_allocations, asil_allocations, status>>

buckets == <<static_allocations, dynamic_allocations, asil_allocations>>

-----------------------------------------------------------------------------
(* The service lists of at most MaxServices records. *)
ServiceLists == UNION {[1 .. n -> Service] : n \in 0 .. MaxServices}

(* SlotAllocator.__init__ and the start of generate(): cursors at the      *)
(* start of their pools, the three buckets empty.                          *)
InitAllocator ==
  /\ next_dynamic_slot = DYNAMIC_SLOT_START
  /\ next_asil_slot = ASIL_SLOT_START
  /\ i = 1
  /\ static_allocations = << >>
  /\ dynamic_allocations = << >>
  /\ asil_allocations = << >>
  /\ status = "generating"

Init ==
  /\ services \in ServiceLists
  /\ strategy \in Strategies
  /\ InitAllocator

(* The service allocate() is called on in this iteration of generate(). *)
Current == services[i]

Visiting == status = "generating" /\ i <= Len(services)

(* The static hash bucket: service_id mod the pool size, offset by the    *)
(* pool start.                                                             *)
StaticSlot(svc) ==
  (svc.service_id % (STATIC_SLOT_END - STATIC_SLOT_START + 1)) + STATIC_SLOT_START

(* The test that sends a QM service to the static hash bucket. *)
UsesStaticPath(svc) == strategy = "static" \/ svc.category = "static"

(* The body of the generate() loop after allocate() returned slot: the    *)
(* entry goes to the ASIL bucket by safety level, else to the static      *)
(* bucket by category or by slot value, else to the dynamic bucket.        *)
Emit(svc, slot) ==
  LET entry == [slot |-> slot, svc |-> svc] IN
  IF svc.safety_level = "ASIL-D"
    THEN /\ asil_allocations' = Append(asil_allocations, entry)
         /\ UNCHANGED <<static_allocations, dynamic_allocations>>
  ELSE IF svc.category = "static" \/ slot <= STATIC_SLOT_END
    THEN /\ static_allocations' = Append(static_allocations, entry)
         /\ UNCHANGED <<dynamic_allocations, asil_allocations>>
    ELSE /\ dynamic_allocations' = Append(dynamic_allocations, entry)
         /\ UNCHANGED <<static_allocations, asil_allocations>>

-----------------------------------------------------------------------------
(* One iteration of generate() per branch of allocate() (no slot hint is  *)
(* ever passed by generate(), so the hint branch is not reachable).       *)

(* Mutation variants (plausible slips in allocate() and generate()),     *)
(* each standing in for the definition that follows it.                   *)
AllocateAsilUnchecked ==
  /\ Visiting
  /\ Current.safety_level = "ASIL-D"
  /\ next_asil_slot' = next_asil_slot + 1
  /\ Emit(Current, next_asil_slot)
  /\ i' = i + 1
  /\ UNCHANGED <<services, strategy, next_dynamic_slot, status>>

(* ASIL-D service, pool not exhausted: take and advance the ASIL cursor. *)
AllocateAsil ==
  /\ Visiting
  /\ Current.safety_level = "ASIL-D"
  /\ ~(next_asil_slot > ASIL_SLOT_END)
  /\ next_asil_slot' = next_asil_slot + 1
  /\ Emit(Current, next_asil_slot)
  /\ i' = i + 1
  /\ UNCHANGED <<services, strategy, next_dynamic_slot, status>>

AsilExhaustedEarly ==
  /\ Visiting
  /\ Current.safety_level = "ASIL-D"
  /\ next_asil_slot >= ASIL_SLOT_END
  /\ status' = "error"
  /\ UNCHANGED <<services, strategy, next_dynamic_slot, next_asil_slot, i,
                 static_allocations, dynamic_allocations, asil_allocations>>

(* ASIL-D service, cursor past the pool: ValueError.  It is not caught by *)
(* generate(), save() or main(), so the run ends and no file is written.  *)
AsilExhausted ==
  /\ Visiting
  /\ Current.safety_level = "ASIL-D"
  /\ next_asil_slot > ASIL_SLOT_END
  /\ status' = "error"
  /\ UNCHANGED <<services, strategy, next_dynamic_slot, next_asil_slot, i,
                 static_allocations, dynamic_allocations, asil_allocations>>

(* QM service under strategy static or category static: hash bucket. *)
AllocateStatic ==
  /\ Visiting
  /\ Current.safety_level # "ASIL-D"
  /\ UsesStaticPath(Current)
  /\ Emit(Current, StaticSlot(Current))
  /\ i' = i + 1
  /\ UNCHANGED <<services, strategy, next_dynamic_slot, next_asil_slot, status>>

AllocateDynamicPastPool ==
  /\ Visiting
  /\ Current.safety_level # "ASIL-D"
  /\ ~UsesStaticPath(Current)
  /\ ~(next_dynamic_slot > DYNAMIC_SLOT_END + 1)
  /\ next_dynamic_slot' = next_dynamic_slot + 1
  /\ Emit(Current, next_dynamic_slot)
  /\ i' = i + 1
  /\ UNCHANGED <<services, strategy, next_asil_slot, status>>

AllocateDynamicNoAdvance ==
  /\ Visiting
  /\ Current.safety_level # "ASIL-D"
  /\ ~UsesStaticPath(Current)
  /\ ~(next_dynamic_slot > DYNAMIC_SLOT_END)
  /\ next_dynamic_slot' = next_dynamic_slot
  /\ Emit(Current, next_dynamic_slot)
  /\ i' = i + 1
  /\ UNCHANGED <<services, strategy, next_asil_slot, status>>

(* Any other QM service, pool not exhausted: take and advance the dynamic *)
(* cursor.                                                                 *)
AllocateDynamic ==
  /\ Visiting
  /\ Current.safety_level # "ASIL-D"
  /\ ~UsesStaticPath(Current)
  /\ ~(next_dynamic_slot > DYNAMIC_SLOT_END)
  /\ next_dynamic_slot' = next_dynamic_slot + 1
  /\ Emit(Current, next_dynamic_slot)
  /\ i' = i + 1
  /\ UNCHANGED <<services, strategy, next_asil_slot, status>>

(* Dynamic cursor past the pool: ValueError, the run ends with no file. *)
DynamicExhausted ==
  /\ Visiting
  /\ Current.safety_level # "ASIL-D"
  /\ ~UsesStaticPath(Current)
  /\ next_dynamic_slot > DYNAMIC_SLOT_END
  /\ status' = "error"
  /\ UNCHANGED <<services, strategy, next_dynamic_slot, next_asil_slot, i,
                 static_allocations, dynamic_allocations, asil_allocations>>

SaveEarly ==
  /\ status = "generating"
  /\ i >= Len(services)
  /\ status' = "saved"
  /\ UNCHANGED <<services, strategy, next_dynamic_slot, next_asil_slot, i,
                 static_allocations, dynamic_allocations, asil_allocations>>

(* generate() has returned: save() opens the output file and dumps the    *)
(* configuration.                                                          *)
Save ==
  /\ status = "generating"
  /\ i > Len(services)
  /\ status' = "saved"
  /\ UNCHANGED <<services, strategy, next_dynamic_slot, next_asil_slot, i,
                 static_allocations, dynamic_allocations, asil_allocations>>

Next ==
  \/ AllocateAsil
  \/ AsilExhausted
  \/ AllocateStatic
  \/ AllocateDynamic
  \/ DynamicExhausted
  \/ Save

(* The run ends in "saved" or "error": the process exits there. *)
Spec == Init /\ [][Next]_vars

-----------------------------------------------------------------------------
(* Type invariant.  The cursors never get more than one past their pool.  *)
TypeOK ==
  /\ services \in Seq(Service)
  /\ strategy \in Strategies
  /\ next_dynamic_slot \in DYNAMIC_SLOT_START .. DYNAMIC_SLOT_END + 1
  /\ next_asil_slot \in ASIL_SLOT_START .. ASIL_SLOT_END + 1
  /\ i \in 1 .. Len(services) + 1
  /\ static_allocations \in Seq(Entry)
  /\ dynamic_allocations \in Seq(Entry)
  /\ asil_allocations \in Seq(Entry)
  /\ status \in {"generating", "saved", "error"}

(* QM/ASIL separation (the qm_asil_separation flag of the output): an     *)
(* emitted slot lies in the ASIL-D pool exactly when its service is       *)
(* ASIL-D, and every slot lies in one of the three pools.  Breaks if an   *)
(* exhaustion test of allocate() lets a cursor run into the next pool.    *)
QmAsilSeparation ==
  \A b \in 1 .. 3 : \A k \in 1 .. Len(buckets[b]) :
    LET e == buckets[b][k] IN
    /\ e.slot \in StaticPool \cup DynamicPool \cup AsilPool
    /\ (e.slot \in AsilPool <=> e.svc.safety_level = "ASIL-D")

(* The cursor pools are packed densely in input order: the k-th entry of  *)
(* the dynamic bucket has slot DYNAMIC_SLOT_START + k - 1, and likewise   *)
(* for the ASIL bucket.  Together with the disjoint pools this says that  *)
(* no two cursor-allocated services share a slot.                          *)
DenseCursorAllocation ==
  /\ \A k \in 1 .. Len(dynamic_allocations) :
       dynamic_allocations[k].slot = DYNAMIC_SLOT_START + k - 1
  /\ \A k \in 1 .. Len(asil_allocations) :
       asil_allocations[k].slot = ASIL_SLOT_START + k - 1

(* Pool exhaustion is raised only when the pool really is full: the ASIL  *)
(* pool holds exactly its size when an ASIL-D service fails, the dynamic  *)
(* pool when a dynamic one fails (no early failure, no silent wrap).      *)
ExhaustionOnlyWhenFull ==
  status = "error" =>
    \/ /\ Current.safety_level = "ASIL-D"
       /\ Len(asil_allocations) = ASIL_SLOT_END - ASIL_SLOT_START + 1
    \/ /\ Current.safety_level = "QM"
       /\ ~UsesStaticPath(Current)
       /\ Len(dynamic_allocations) = DYNAMIC_SLOT_END - DYNAMIC_SLOT_START + 1

(* The file is written only with every service of the list emitted once. *)
SavedOnlyWhenComplete ==
  status = "saved" =>
    /\ i = Len(services) + 1
    /\ Len(static_allocations) + Len(dynamic_allocations)
         + Len(asil_allocations) = Len(services)

(* Slot uniqueness as section 3 of the specification states it: no two    *)
(* emitted entries share a slot.                                           *)
SlotsUnique ==
  \A b1, b2 \in 1 .. 3 :
    \A k1 \in 1 .. Len(buckets[b1]) : \A k2 \in 1 .. Len(buckets[b2]) :
      <<b1, k1>> # <<b2, k2>> => buckets[b1][k1].slot # buckets[b2][k2].slot

-----------------------------------------------------------------------------
(* The inductive strengthening of the invariants above, in named parts.  *)

(* Each cursor is its pool start plus the length of its bucket. *)
CursorsMatchBuckets ==
  /\ next_dynamic_slot = DYNAMIC_SLOT_START + Len(dynamic_allocations)
  /\ next_asil_slot = ASIL_SLOT_START + Len(asil_allocations)

(* Every bucket holds services of one safety level; static slots stay in *)
(* the static pool.                                                        *)
BucketLevels ==
  /\ \A k \in 1 .. Len(static_allocations) :
       /\ static_allocations[k].slot \in StaticPool
       /\ static_allocations[k].svc.safety_level = "QM"
  /\ \A k \in 1 .. Len(dynamic_allocations) :
       dynamic_allocations[k].svc.safety_level = "QM"
  /\ \A k \in 1 .. Len(asil_allocations) :
       asil_allocations[k].svc.safety_level = "ASIL-D"

(* The buckets together hold one entry per service visited. *)
EntriesCount ==
  Len(static_allocations) + Len(dynamic_allocations) + Len(asil_allocations)
    = i - 1

(* The file is written at the end of the list. *)
SavedAtEnd == status = "saved" => i = Len(services) + 1

IInv ==
  /\ TypeOK
  /\ CursorsMatchBuckets
  /\ DenseCursorAllocation
  /\ BucketLevels
  /\ EntriesCount
  /\ SavedAtEnd
  /\ ExhaustionOnlyWhenFull

-----------------------------------------------------------------------------
(* The refinement mapping to AllocatorSpec: the services served are the  *)
(* ones visited, and the slots handed out from each pool are the slots of *)
(* the corresponding output bucket.                                       *)
SlotsIn(bucket) == {bucket[j].slot : j \in DOMAIN bucket}

Abs == INSTANCE AllocatorSpec
         WITH n <- i - 1,
              static_slots <- SlotsIn(static_allocations),
              dynamic_slots <- SlotsIn(dynamic_allocations),
              asil_slots <- SlotsIn(asil_allocations)

(* allocate() and generate() keep AllocatorSpec's promise: every service *)
(* gets a slot of its pool in input order, no cursor slot is handed out  *)
(* twice, exhaustion only on a full pool, the file only when all are     *)
(* served.                                                                 *)
ImplementsAllocatorSpec == Abs!Spec

=============================================================================
