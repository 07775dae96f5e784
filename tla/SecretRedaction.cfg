CONSTANTS
  Char = {a, b}
  MaxLength = 1
  MaxEntries = 2
SPECIFICATION Spec
INVARIANTS
  DigestTellsChange
