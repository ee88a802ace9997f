CONSTANTS
  STATIC_SLOT_START = 0
  STATIC_SLOT_END = 1
  DYNAMIC_SLOT_START = 2
  DYNAMIC_SLOT_END = 3
  ASIL_SLOT_START = 4
  ASIL_SLOT_END = 5
  Service <- MCService
  MaxServices = 4

SPECIFICATION Spec

INVARIANT SlotsUnique

CHECK_DEADLOCK FALSE
