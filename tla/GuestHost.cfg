SPECIFICATION Spec
CONSTANTS
  Byte = {0, 1}
  Zero = 0
  I32Max = 3
  UsizeMax = 15
  LinearStart = 1
  Limits <- MCLimits
INVARIANTS
  TypeOK
  RegionsTile
  WithinLimits
  GrantsStayValid
  KnownPointersAgree
PROPERTY
  ImplementsObjectStore
