SPECIFICATION Spec
CHECK_DEADLOCK FALSE
CONSTANTS
  GroupValues = 4
  MaxGroups = 2
  WordValues = 8
  Header <- MCHeader
  MemorySection = 5
  WASM_PAGE_BYTES = 3
  MaxSections = 2
  MaxEntries = 2
  Mins = {0, 3, 6, 13}
INVARIANT
  OverflowIsNotRead
