SPECIFICATION Spec
CONSTANTS
  Byte <- MCByte
  Zero <- MCZero
  I32Max = 63
  UsizeMax = 255
  Doc <- MCDoc
  Null = "null"
  State <- MCState
  Event <- MCEvent
  ParseState <- MCParseState
  ParseEvent <- MCParseEvent
  ToVec <- MCToVec
  ValueDoc <- MCValueDoc
  Fails = Fails
  Size <- MCSize
  MAX_DATA_SIZE = 18
  Limits <- MCLimits
  Calls <- MCCalls
  Fragments <- MCFragments
  StartLengths = {0, 6}
  MAX_FUEL = 7
  MAX_FUEL_COMPILATION = 13
INVARIANT
  FuelExhaustionTyped
