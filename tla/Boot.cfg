CONSTANTS
  Signatures = {"HPET", "APIC"}
  MaxTables = 2
  Unit = 10
  Periods = {9, 25}
  StartCounters = {2}
  Base = 1
  Comparators = 1
  Delay = 4
  MaxCounter = 4
  MaxTags = 3
SPECIFICATION BootSpec
INVARIANTS CalledWhenReady ClockRate HpetUsed
PROPERTIES ClockNeverBack BootEnds
CHECK_DEADLOCK FALSE
