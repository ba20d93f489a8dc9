SPECIFICATION Spec
CONSTANTS
  MiB = 1
  U64Max = 40
  UsizeMax = 8192
  GroupValues = 4
  MaxGroups = 2
  WordValues = 8
  Header <- MCHeader
  MemorySection = 5
  WASM_PAGE_BYTES = 1
  Node = {n1, n2}
  Hosts <- MCHosts
  Versions = {1, 2}
  Questions <- MCQuestions
  MAX_FUEL = 2
  Nothing = Nothing
SYMMETRY
  MCSymmetry
INVARIANTS
  TypeOK
  AcceptedMemoryFits
  CompileAgrees
  CodeMatchesEngine
  LargerNodeAgrees
