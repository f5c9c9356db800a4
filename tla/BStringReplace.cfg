\* A replacement that is a piece of the string before the first match.
CONSTANTS
  Char = {"x", "X", "_"}
  Spaces = {"_"}
  Lower <- MCLower
  Upper <- MCUpper
  Code <- MCCode
  NUL = NUL
  JUNK = JUNK
  NULL = NULL
  SNAP = 2
  Texts <- MCTexts
  Fills = {"_"}
  Before = {TRUE}
  MaxLen = 4
  Heaps = {{}}
SPECIFICATION Spec
PROPERTY ImplementsAbstractString
VIEW Lasting
