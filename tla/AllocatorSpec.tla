--------------------------- MODULE AllocatorSpec ---------------------------
(***************************************************************************)
(* What SlotAllocator.allocate(), driven by YAMLGenerator.generate(),     *)
(* promises, with the cursors and the output buckets abstracted away:    *)
(* the services are served in input order, each gets a slot of the pool  *)
(* its safety level and the strategy select, a slot of the dynamic or    *)
(* ASIL-D pool is never handed out twice (the static hash bucket may be  *)
(* shared), a pool is reported exhausted only when every one of its      *)
(* slots is taken, and the configuration is saved once every service has *)
(* a slot.                                                                 *)
(***************************************************************************)
EXTENDS Naturals, Sequences

CONSTANTS
  STATIC_SLOT_START, STATIC_SLOT_END,
  DYNAMIC_SLOT_START, DYNAMIC_SLOT_END,
  ASIL_SLOT_START, ASIL_SLOT_END,
  Service, MaxServices

VARIABLES
  services,       \* the list handed to the generator
  strategy,       \* --strategy
  n,              \* services served so far
  static_slots,   \* slots handed out from each pool
  dynamic_slots,
  asil_slots,
  status          \* "generating", "saved", "error"

vars == <<services, strategy, n, static_slots, dynamic_slots, asil_slots, status>>

StaticPool  == STATIC_SLOT_START .. STATIC_SLOT_END
DynamicPool == DYNAMIC_SLOT_START .. DYNAMIC_SLOT_END
AsilPool    == ASIL_SLOT_START .. ASIL_SLOT_END

Init ==
  /\ services \in UNION {[1 .. m -> Service] : m \in 0 .. MaxServices}
  /\ strategy \in {"auto", "static", "dynamic"}
  /\ n = 0
  /\ static_slots = {} /\ dynamic_slots = {} /\ asil_slots = {}
  /\ status = "generating"

(* The next service to serve. *)
Pending == status = "generating" /\ n < Len(services)
Waiting == services[n + 1]

IsAsil(svc)   == svc.safety_level = "ASIL-D"
IsStatic(svc) == ~IsAsil(svc) /\ (strategy = "static" \/ svc.category = "static")
IsDynamic(svc) == ~IsAsil(svc) /\ ~IsStatic(svc)

Served == n' = n + 1 /\ UNCHANGED <<services, strategy, status>>

GrantAsil ==
  /\ Pending /\ IsAsil(Waiting)
  /\ \E s \in AsilPool \ asil_slots : asil_slots' = asil_slots \cup {s}
  /\ Served /\ UNCHANGED <<static_slots, dynamic_slots>>

GrantStatic ==
  /\ Pending /\ IsStatic(Waiting)
  /\ \E s \in StaticPool : static_slots' = static_slots \cup {s}
  /\ Served /\ UNCHANGED <<dynamic_slots, asil_slots>>

GrantDynamic ==
  /\ Pending /\ IsDynamic(Waiting)
  /\ \E s \in DynamicPool \ dynamic_slots : dynamic_slots' = dynamic_slots \cup {s}
  /\ Served /\ UNCHANGED <<static_slots, asil_slots>>

(* Exhaustion: the waiting service's cursor pool has no free slot left. *)
Refuse ==
  /\ Pending
  /\ \/ IsAsil(Waiting) /\ AsilPool \subseteq asil_slots
     \/ IsDynamic(Waiting) /\ DynamicPool \subseteq dynamic_slots
  /\ status' = "error"
  /\ UNCHANGED <<services, strategy, n, static_slots, dynamic_slots, asil_slots>>

Complete ==
  /\ status = "generating" /\ n = Len(services)
  /\ status' = "saved"
  /\ UNCHANGED <<services, strategy, n, static_slots, dynamic_slots, asil_slots>>

Next == GrantAsil \/ GrantStatic \/ GrantDynamic \/ Refuse \/ Complete

Spec == Init /\ [][Next]_vars
=============================================================================
