---------------------------- MODULE ConverterSpec ----------------------------
(***************************************************************************)
(* What the arxml2yaml.py pipeline promises, with the documents, the      *)
(* parser and the output buckets abstracted away.  While the inputs are   *)
(* read, the list of services for the allocator only grows at its end    *)
(* (what was collected is never dropped or reordered), and reading may    *)
(* end in an uncaught exception.  With the inputs read, an empty list     *)
(* ends the run without output; otherwise generation starts and the list  *)
(* is served as AllocatorSpec describes: in order, each service a slot of *)
(* the pool its level and the strategy select, no cursor slot handed out *)
(* twice, exhaustion only of a full pool, the file saved only when every *)
(* service has a slot.                                                     *)
(*                                                                         *)
(* Converter implements this module under the mapping ConvAbs of its own. *)
(***************************************************************************)
EXTENDS Naturals, Sequences

CONSTANTS
  STATIC_SLOT_START, STATIC_SLOT_END,
  DYNAMIC_SLOT_START, DYNAMIC_SLOT_END,
  ASIL_SLOT_START, ASIL_SLOT_END,
  Service                            \* the records the reader can produce

VARIABLES
  phase,      \* "parsing", "allocating", "no_services", "crashed"
  out,        \* the services collected for the allocator
  strategy, n, static_slots, dynamic_slots, asil_slots, status

genVars == <<strategy, n, static_slots, dynamic_slots, asil_slots, status>>
vars == <<phase, out, genVars>>

(* The generation phase: the allocator serving the collected list. *)
Gen == INSTANCE AllocatorSpec WITH services <- out, MaxServices <- 0

Init ==
  /\ phase = "parsing" /\ out = << >>
  /\ strategy \in {"auto", "static", "dynamic"}
  /\ n = 0 /\ static_slots = {} /\ dynamic_slots = {} /\ asil_slots = {}
  /\ status = "generating"

(* s is a prefix of t. *)
IsPrefixOf(s, t) == Len(s) <= Len(t) /\ \A j \in 1 .. Len(s) : t[j] = s[j]

(* Reading an input adds services at the end of the list. *)
Collect ==
  /\ phase = "parsing"
  /\ out' \in Seq(Service) /\ IsPrefixOf(out, out')
  /\ UNCHANGED <<phase, genVars>>

Crash ==
  /\ phase = "parsing"
  /\ phase' = "crashed"
  /\ UNCHANGED <<out, genVars>>

GiveUp ==
  /\ phase = "parsing" /\ out = << >>
  /\ phase' = "no_services"
  /\ UNCHANGED <<out, genVars>>

Start ==
  /\ phase = "parsing" /\ out # << >>
  /\ phase' = "allocating"
  /\ UNCHANGED <<out, genVars>>

Generate ==
  /\ phase = "allocating"
  /\ Gen!Next
  /\ UNCHANGED phase

Next == Collect \/ Crash \/ GiveUp \/ Start \/ Generate

Spec == Init /\ [][Next]_vars

=============================================================================
