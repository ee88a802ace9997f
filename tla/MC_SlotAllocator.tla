--------------------------- MODULE MC_SlotAllocator ---------------------------
(***************************************************************************)
(* Small instance of SlotAllocator: pools of two slots each, so that both *)
(* cursors run out within four services, and a static pool of two slots   *)
(* in which two different service ids collide.                            *)
(***************************************************************************)
EXTENDS SlotAllocator

(* Three service names: "BrakeControl" contains "control" and so is       *)
(* ASIL-D; the ids stand for FNV-1a hashes, chosen so that Radar and      *)
(* Lidar fall into the same static slot of a two-slot pool.                *)
MCServiceId == [n \in {"BrakeControl", "Radar", "Lidar"} |->
                  CASE n = "BrakeControl" -> 7
                    [] n = "Radar"        -> 4
                    [] n = "Lidar"        -> 2]

MCService ==
  { [name |-> n, service_id |-> MCServiceId[n],
     safety_level |-> IF n = "BrakeControl" THEN "ASIL-D" ELSE "QM",
     category |-> "dynamic"] : n \in DOMAIN MCServiceId }

=============================================================================
