CONSTANTS
  Hour = 4
  SlotTime = 2
  SlotsPerHour = 2
  GenesisTime = 1
  Margin = 1
  Limit = 2
  Early = 1
  Late = 2
  SaveDelay = 1
  Slots <- MCSlots
  MaxTime = 14
SPECIFICATION Spec
INVARIANTS
  EachHourOnce
  NoRowTooLate
  OnlyWholeHours
CHECK_DEADLOCK FALSE
