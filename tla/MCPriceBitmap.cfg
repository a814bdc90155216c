SPECIFICATION BitmapSpec
CONSTANTS
  WordBits = 3
  L1Words = 2
  Invalid = Invalid
INVARIANT
  SearchesExact
