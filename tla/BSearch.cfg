\* Strings of up to 6 of 2 characters, the one tolower makes of the other.
CONSTANTS
  Char = {"x", "X"}
  Lower <- MCLower
  Texts <- MCTexts
  Finds <- MCFinds
  Excluded <- MCExcluded
  Positions <- MCPositions
SPECIFICATION Spec
INVARIANTS SearchExact ReadsInside
PROPERTY SearchEnds
CHECK_DEADLOCK FALSE
