SPECIFICATION Spec
CONSTANTS
  Char = {"_", "1", "a"}
  Digit = {"1"}
  Base64 = {"1", "a"}
  MaxLen = 2
  MaxSealed = 2
INVARIANTS OneReading
CHECK_DEADLOCK FALSE
