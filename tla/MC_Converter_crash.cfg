CONSTANTS
  STATIC_SLOT_START = 0
  STATIC_SLOT_END = 1
  DYNAMIC_SLOT_START = 2
  DYNAMIC_SLOT_END = 3
  ASIL_SLOT_START = 4
  ASIL_SLOT_END = 5
  Names = {"BrakeControl", "Radar"}
  AsilNames = {"BrakeControl"}
  InstanceIds = {5}
  Absent = Absent
  ServiceIdOf <- MCServiceIdOf
  Document <- MCDocument
  MaxDocs = 2
  MaxInstances = 2

SPECIFICATION Spec

INVARIANT DocumentFailuresIsolated

CHECK_DEADLOCK FALSE
